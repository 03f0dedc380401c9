------------------------------- MODULE Kernel -------------------------------
(***************************************************************************)
(* The thread kernel of the gamepad firmware: arm9/source/wup/thread.c     *)
(* with the interrupt exit path (crt0.s, wup.c) and Thread_Switch          *)
(* (thread_asm.s).  One core runs one thread at a time.  A kernel call     *)
(* masks interrupts, changes the kernel's data, and, where the call says   *)
(* so, ends in Thread_Schedule followed by Thread_Switch; the thread that  *)
(* is switched to keeps interrupts masked until the kernel call it was     *)
(* blocked in returns.  An interrupt handler runs on top of the current    *)
(* thread and the switch it asks for takes place when it exits.            *)
(*                                                                         *)
(* phase is the point of that cycle the processor is at:                   *)
(*   "run"    thread cur is running.  If call[cur] = None it executes its  *)
(*            own code with interrupts enabled; otherwise it has just been *)
(*            switched to inside the kernel call call[cur], interrupts     *)
(*            masked, and the rest of that call is the only next step.     *)
(*   "irq"    an interrupt handler is running on top of thread cur.        *)
(*   "sched"  Thread_Schedule and Thread_Switch are about to run,          *)
(*            interrupts masked: the only next step.                       *)
(***************************************************************************)
EXTENDS Integers, FiniteSets, Sequences

CONSTANTS
  Threads,       (* the threads that can ever be created                   *)
  Main,          (* the thread of main(), which never terminates           *)
  Idle,          (* the thread that only waits for interrupts              *)
  Prio,          (* Flag_GetPrio of each thread, 0 is the most urgent      *)
  Mutexes,       (* the addresses at which mutexes are created             *)
  Semas,         (* the same for semaphores                                *)
  Events,        (* the same for event masks                               *)
  Bits,          (* the bits of an event mask                              *)
  NTimeouts,     (* length of Timeouts[] (256 in the code)                 *)
  TimedOps,      (* what callers pass a finite timeout for: a subset of    *)
                 (* {"thread", "sleep"} and the objects                    *)
  DeleteWaited,  (* may callers delete an object threads wait on?          *)
  MaxDepth,      (* bound on the recursion depth of a mutex                *)
  MaxCount,      (* bound on the count of a semaphore                      *)
  Asleep,        (* call[t] of a thread in Thread_Sleep                    *)
  None           (* NULL                                                   *)

Objects == Mutexes \cup Semas \cup Events
Targets == Objects \cup Threads
Priorities == 0 .. 15
TimeoutIds == 0 .. NTimeouts - 1
TimedChoices == {"thread", "sleep"} \cup Objects

(* A thread registers with one object at a time and every object has 16    *)
(* slots for registrations (WaitThreads[16]): with at most 16 threads no   *)
(* slot table fills up, the check of WaitBitmask against 0xFFFF at the top *)
(* of every waiting call never fires, and the table is the set of threads  *)
(* in it.                                                                  *)
ASSUME KernelAssumption ==
  /\ IsFiniteSet(Threads) /\ Cardinality(Threads) <= 16
  /\ Main \in Threads /\ Idle \in Threads /\ Main # Idle
  /\ Prio \in [Threads -> Priorities]
  /\ Prio[Main] = 8 /\ Prio[Idle] = 15
  /\ NTimeouts \in Nat /\ MaxDepth \in Nat /\ MaxCount \in Nat
  /\ DeleteWaited \in BOOLEAN
  /\ TimedOps \subseteq TimedChoices
  /\ {None, Asleep} \cap Targets = {} /\ None # Asleep
  /\ Mutexes \cap Semas = {} /\ Mutexes \cap Events = {} /\ Semas \cap Events = {}
  /\ Objects \cap Threads = {}

-----------------------------------------------------------------------------
VARIABLES
  cur,          (* CurThread                                               *)
  phase,        (* see above                                               *)
  schedReq,     (* bit 0 of SchedReq                                       *)
  status,       (* life of each thread                                     *)
  queue,        (* ThreadQueue[prio]: the list of live threads             *)
  rr,           (* CurThreadPerQueue[prio]                                 *)
  waiting,      (* threads with Flag_Waiting                               *)
  check,        (* threads with Flag_CheckWakeup                           *)
  timedOut,     (* threads with Flag_Timeout                               *)
  waitObj,      (* WaitObject of each thread                               *)
  waitTimeout,  (* WaitTimeout of each thread, an index of timeout         *)
  call,         (* the object of the blocking call a thread is inside of   *)
  mask,         (* the mask argument of an EventMask_Wait in progress      *)
  waiters,      (* the threads in the wait slots of an object or a thread  *)
  timeout,      (* Timeouts[].WaitThread, None where the slot is free      *)
  live,         (* the objects created and not deleted                     *)
  acquired,     (* sMutex.Acquired                                         *)
  owner,        (* sMutex.AcqThread                                        *)
  count,        (* sSemaphore.Count                                        *)
  val,          (* sEventMask.Val                                          *)
  held          (* held[m][t]: Mutex_Acquire calls on m that returned 1 to *)
                (* t, minus its Mutex_Release calls that returned 1: what  *)
                (* the callers know (history variable)                     *)

cpuVars  == <<cur, phase, schedReq>>
taskVars == <<status, queue, rr>>
waitVars == <<waiting, check, timedOut, waitObj, waitTimeout, call, mask,
              waiters, timeout>>
objVars  == <<live, acquired, owner, count, val, held>>
vars     == <<cpuVars, taskVars, waitVars, objVars>>

-----------------------------------------------------------------------------
(* The run queues. *)

Queued(t) == status[t] \in {"created", "live"}

Position(q, t) == CHOOSE i \in 1 .. Len(q) : q[i] = t

Queue_Add(t) ==
  LET p == Prio[t] IN
  /\ queue' = [queue EXCEPT ![p] = Append(@, t)]
  /\ rr' = IF queue[p] = <<>> THEN [rr EXCEPT ![p] = t] ELSE rr

(* Variant: CurThreadPerQueue keeps naming the removed thread.              *)
Queue_Remove_KeepsCurrent(t) ==
  LET p == Prio[t]
      i == Position(queue[p], t)
  IN /\ queue' = [queue EXCEPT ![p] = SubSeq(@, 1, i - 1) \o SubSeq(@, i + 1, Len(@))]
     /\ UNCHANGED rr

Queue_Remove(t) ==
  LET p    == Prio[t]
      i    == Position(queue[p], t)
      rest == SubSeq(queue[p], 1, i - 1) \o SubSeq(queue[p], i + 1, Len(queue[p]))
  IN
  /\ queue' = [queue EXCEPT ![p] = rest]
  /\ rr' = IF rr[p] # t
           THEN rr
           ELSE [rr EXCEPT ![p] = IF rest = <<>> THEN None
                                  ELSE IF i <= Len(rest) THEN rest[i] ELSE rest[1]]

-----------------------------------------------------------------------------
(* Waiting and waking. *)

(* Variant: whoever is flagged is woken, without looking again.             *)
Thread_CanWakeup_Unchecked(t) == t \in check

(* Thread_CanWakeup: what a waiting thread waits for is there. *)
Thread_CanWakeup(t) ==
  LET o == waitObj[t] IN
  \/ o \in Threads /\ status[o] \in {"terminated", "deleted"}
  \/ o \in Mutexes /\ acquired[o] = 0
  \/ o \in Semas   /\ count[o] # 0
  \/ o \in Events  /\ val[o] \cap mask[t] # {}

(* The waiters tables and the timeout table once the threads of T have     *)
(* left the slots, and the timeouts of I have been removed.  (Variants:    *)
(* they stay.)                                                             *)
Unregister_Forgotten(T) == UNCHANGED waiters
Unregister(T) ==
  waiters' = [o \in Targets |-> waiters[o] \ {t \in T : waitObj[t] = o}]
Timeout_Remove_Forgotten(I) == UNCHANGED timeout
Timeout_Remove(I) ==
  timeout' = [i \in TimeoutIds |-> IF i \in I THEN None ELSE timeout[i]]

(* Thread_CancelWait for every thread of T. *)
Thread_CancelWait(T) ==
  /\ waiting' = waiting \ T
  /\ Unregister(T)
  /\ waitObj' = [t \in Threads |-> IF t \in T THEN None ELSE waitObj[t]]
  /\ Timeout_Remove({waitTimeout[t] : t \in T})
  /\ waitTimeout' = [t \in Threads |-> IF t \in T THEN None ELSE waitTimeout[t]]

(* Timeout_Add takes the first free slot.                                  *)
FreeTimeouts == {i \in TimeoutIds : timeout[i] = None}
FirstFree(i) == i \in FreeTimeouts /\ \A j \in FreeTimeouts : i <= j

Timeout_Add ==
  \E i \in TimeoutIds :
    /\ FirstFree(i)
    /\ timeout' = [timeout EXCEPT ![i] = cur]
    /\ waitTimeout' = [waitTimeout EXCEPT ![cur] = i]

(* A waiting call with no timeout, or with one for which a slot is free.   *)
ArmTimeout(kind) ==
  \/ /\ kind # "sleep"
     /\ waitTimeout' = [waitTimeout EXCEPT ![cur] = None]
     /\ UNCHANGED timeout
  \/ kind \in TimedOps /\ Timeout_Add

(* Thread_ReqReschedule: at the exit of the interrupt if there is one,     *)
(* otherwise now.                                                          *)
Thread_ReqReschedule ==
  IF phase = "irq"
  THEN schedReq' = TRUE /\ UNCHANGED phase
  ELSE phase' = "sched" /\ UNCHANGED schedReq

(* Thread t runs its own code, and is free to call the kernel. *)
Client(t) == phase = "run" /\ cur = t /\ call[t] = None /\ t # Idle

(* The tail every waiting call shares: the current thread registers with   *)
(* what it waits for and gives up the processor.                           *)
WaitFor(c, m) ==
  /\ waiting' = waiting \cup {cur}
  /\ timedOut' = timedOut \ {cur}
  /\ waitObj' = [waitObj EXCEPT ![cur] = IF c = Asleep THEN None ELSE c]
  /\ waiters' = IF c = Asleep THEN waiters ELSE [waiters EXCEPT ![c] = @ \cup {cur}]
  /\ call' = [call EXCEPT ![cur] = c]
  /\ mask' = [mask EXCEPT ![cur] = m]
  /\ Thread_ReqReschedule
  /\ UNCHANGED <<cur, check, taskVars, objVars>>

(* A timed call that finds no free timeout slot returns 0; WaitTimeout has *)
(* been overwritten with NULL by then.                                     *)
NoTimeoutFree(kind) ==
  /\ kind \in TimedOps
  /\ FreeTimeouts = {}
  /\ waitTimeout' = [waitTimeout EXCEPT ![cur] = None]
  /\ UNCHANGED <<cpuVars, taskVars, objVars, waiting, check, timedOut, waitObj,
                 call, mask, waiters, timeout>>

-----------------------------------------------------------------------------
(* Scheduling. *)

(* How many steps after CurThreadPerQueue thread t comes in its ring: the  *)
(* thread after it is the first, CurThreadPerQueue itself the last.        *)
(* (Variant: the scan starts at CurThreadPerQueue.)                        *)
Distance_FromCurrent(t) ==
  LET q == queue[Prio[t]] IN
  (Position(q, t) + Len(q) - Position(q, rr[Prio[t]])) % Len(q)
Distance(t) ==
  LET q == queue[Prio[t]] IN
  (Position(q, t) + Len(q) - Position(q, rr[Prio[t]]) - 1) % Len(q)

(* (Variant: the queues are walked from the other end.)                    *)
ScannedBefore_LeastUrgent(u, t) ==
  /\ Queued(u)
  /\ \/ Prio[u] > Prio[t]
     \/ Prio[u] = Prio[t] /\ Distance(u) < Distance(t)
ScannedBefore(u, t) ==
  /\ Queued(u)
  /\ \/ Prio[u] < Prio[t]
     \/ Prio[u] = Prio[t] /\ Distance(u) < Distance(t)

Ready(t) == t \notin waiting \/ (t \in check /\ Thread_CanWakeup(t))

(* Thread_Schedule walks the queues from the most urgent and every queue   *)
(* from the thread after CurThreadPerQueue, and takes the first thread     *)
(* that is ready; the threads it passes lose CheckWakeup.  Thread_Switch   *)
(* makes the choice the current thread.                                    *)
Thread_Schedule ==
  /\ phase = "sched"
  /\ \E t \in Threads :
       /\ Queued(t) /\ Ready(t)
       /\ \A u \in Threads : ScannedBefore(u, t) => ~Ready(u)
       /\ check' = check \ {u \in waiting : u = t \/ ScannedBefore(u, t)}
       /\ IF t \in waiting
          THEN Thread_CancelWait({t})
          ELSE UNCHANGED <<waiting, waiters, waitObj, timeout, waitTimeout>>
       /\ rr' = [rr EXCEPT ![Prio[t]] = t]
       /\ status' = [status EXCEPT ![t] = "live"]
       /\ cur' = t
  /\ phase' = "run"
  /\ UNCHANGED <<schedReq, queue, timedOut, call, mask, objVars>>

-----------------------------------------------------------------------------
(* Threads. *)

(* Thread_Create does not ask for a reschedule: the new thread waits for   *)
(* the next one.  Out of memory, it changes nothing.                       *)
Thread_Create(t) ==
  /\ Client(cur)
  /\ status[t] = "none"
  /\ status' = [status EXCEPT ![t] = "created"]
  /\ Queue_Add(t)
  /\ UNCHANGED <<cpuVars, waitVars, objVars>>

Thread_Delete(t) ==
  /\ Client(cur)
  /\ status[t] = "terminated"
  /\ status' = [status EXCEPT ![t] = "deleted"]
  /\ UNCHANGED <<cpuVars, queue, rr, waitVars, objVars>>

(* The threads that wait for the current one are woken and their timeouts  *)
(* removed; their WaitTimeout keeps its value.  Then Thread_CancelWait     *)
(* removes the timeout the current thread's own WaitTimeout names.         *)
Thread_Terminate ==
  LET joiners == waiters[cur] IN
  /\ Client(cur)
  /\ cur # Main
  /\ Queue_Remove(cur)
  /\ status' = [status EXCEPT ![cur] = "terminated"]
  /\ waiting' = waiting \ joiners
  /\ waitObj' = [t \in Threads |-> IF t \in joiners THEN None ELSE waitObj[t]]
  /\ waiters' = [waiters EXCEPT ![cur] = {}]
  /\ Timeout_Remove({waitTimeout[t] : t \in joiners \cup {cur}})
  /\ waitTimeout' = [waitTimeout EXCEPT ![cur] = None]
  /\ Thread_ReqReschedule
  /\ UNCHANGED <<cur, check, timedOut, call, mask, objVars>>

Thread_Wait(t) ==
  /\ Client(cur)
  /\ Queued(t)
  /\ \/ ArmTimeout("thread") /\ WaitFor(t, {})
     \/ NoTimeoutFree("thread")

Thread_Sleep ==
  /\ Client(cur)
  /\ \/ ArmTimeout("sleep") /\ WaitFor(Asleep, {})
     \/ NoTimeoutFree("sleep")

Thread_Yield ==
  /\ Client(cur)
  /\ phase' = "sched"
  /\ UNCHANGED <<cur, schedReq, taskVars, waitVars, objVars>>

-----------------------------------------------------------------------------
(* Creating and deleting objects.  malloc may hand out the address of a    *)
(* deleted object again.                                                   *)

Create(o) ==
  /\ Client(cur)
  /\ o \notin live
  /\ live' = live \cup {o}
  /\ UNCHANGED <<cpuVars, taskVars, waitVars, acquired, owner, val, held>>

Mutex_Create(m) == m \in Mutexes /\ Create(m) /\ UNCHANGED count
EventMask_Create(e) == e \in Events /\ Create(e) /\ UNCHANGED count
Semaphore_Create(s, n) ==
  /\ s \in Semas
  /\ Create(s)
  /\ count' = [count EXCEPT ![s] = n]

(* The threads waiting on the object are woken as if timed out; their      *)
(* WaitTimeout keeps its value.  (Variants: without Flag_Timeout; still    *)
(* in the slots; with their timeouts left armed.)                          *)
Evict_AsGranted(o) ==
  /\ waiting' = waiting \ waiters[o]
  /\ waitObj' = [t \in Threads |-> IF t \in waiters[o] THEN None ELSE waitObj[t]]
  /\ waiters' = [waiters EXCEPT ![o] = {}]
  /\ Timeout_Remove({waitTimeout[t] : t \in waiters[o]})
  /\ UNCHANGED timedOut
Evict_KeepsSlots(o) ==
  /\ waiting' = waiting \ waiters[o]
  /\ timedOut' = timedOut \cup waiters[o]
  /\ waitObj' = [t \in Threads |-> IF t \in waiters[o] THEN None ELSE waitObj[t]]
  /\ Timeout_Remove({waitTimeout[t] : t \in waiters[o]})
  /\ UNCHANGED waiters
Evict_KeepsTimeouts(o) ==
  /\ waiting' = waiting \ waiters[o]
  /\ timedOut' = timedOut \cup waiters[o]
  /\ waitObj' = [t \in Threads |-> IF t \in waiters[o] THEN None ELSE waitObj[t]]
  /\ waiters' = [waiters EXCEPT ![o] = {}]
  /\ UNCHANGED timeout
Evict(o) ==
  /\ waiting' = waiting \ waiters[o]
  /\ timedOut' = timedOut \cup waiters[o]
  /\ waitObj' = [t \in Threads |-> IF t \in waiters[o] THEN None ELSE waitObj[t]]
  /\ waiters' = [waiters EXCEPT ![o] = {}]
  /\ Timeout_Remove({waitTimeout[t] : t \in waiters[o]})

(* Callers delete only objects no other thread uses, except for waiting on *)
(* them where DeleteWaited says so.                                        *)
Delete(o) ==
  /\ Client(cur)
  /\ o \in live
  /\ DeleteWaited \/ waiters[o] = {}
  /\ live' = live \ {o}
  /\ Evict(o)
  /\ Thread_ReqReschedule
  /\ UNCHANGED <<cur, taskVars, check, waitTimeout, call, mask>>

Mutex_Delete(m) ==
  /\ m \in Mutexes
  /\ acquired[m] = 0 \/ owner[m] = cur
  /\ Delete(m)
  /\ acquired' = [acquired EXCEPT ![m] = 0]
  /\ owner' = [owner EXCEPT ![m] = None]
  /\ held' = [held EXCEPT ![m] = [t \in Threads |-> 0]]
  /\ UNCHANGED <<count, val>>

Semaphore_Delete(s) ==
  /\ s \in Semas
  /\ Delete(s)
  /\ count' = [count EXCEPT ![s] = 0]
  /\ UNCHANGED <<acquired, owner, val, held>>

EventMask_Delete(e) ==
  /\ e \in Events
  /\ Delete(e)
  /\ val' = [val EXCEPT ![e] = {}]
  /\ UNCHANGED <<acquired, owner, count, held>>

-----------------------------------------------------------------------------
(* Mutexes.  A call with timeout 0 that would have to wait changes nothing *)
(* and is not an action; neither is a call that returns 0 at once.         *)

(* Mutex_Acquire returns 1 to the current thread with depth n. *)
Granted(m, n) ==
  /\ acquired' = [acquired EXCEPT ![m] = n]
  /\ owner' = [owner EXCEPT ![m] = cur]
  /\ held' = [held EXCEPT ![m][cur] = @ + 1]
  /\ UNCHANGED <<live, count, val>>

Mutex_Acquire(m) ==
  /\ Client(cur)
  /\ m \in live
  /\ \/ /\ acquired[m] = 0
        /\ Granted(m, 1)
        /\ UNCHANGED <<cpuVars, taskVars, waitVars>>
     \/ /\ acquired[m] # 0 /\ owner[m] = cur
        /\ acquired[m] < MaxDepth
        /\ Granted(m, acquired[m] + 1)
        /\ UNCHANGED <<cpuVars, taskVars, waitVars>>
     \/ /\ acquired[m] # 0 /\ owner[m] # cur
        /\ \/ ArmTimeout(m) /\ WaitFor(m, {})
           \/ NoTimeoutFree(m)

(* Variant: the last release wakes nobody.                                 *)
Mutex_Release_Silent(m) ==
  /\ Client(cur)
  /\ m \in live
  /\ acquired[m] # 0 /\ owner[m] = cur
  /\ acquired' = [acquired EXCEPT ![m] = @ - 1]
  /\ held' = [held EXCEPT ![m][cur] = @ - 1]
  /\ UNCHANGED <<cpuVars, taskVars, waitVars, live, owner, count, val>>

Mutex_Release(m) ==
  /\ Client(cur)
  /\ m \in live
  /\ acquired[m] # 0 /\ owner[m] = cur
  /\ acquired' = [acquired EXCEPT ![m] = @ - 1]
  /\ held' = [held EXCEPT ![m][cur] = @ - 1]
  /\ IF acquired[m] = 1
     THEN check' = check \cup waiters[m] /\ Thread_ReqReschedule
     ELSE UNCHANGED <<check, phase, schedReq>>
  /\ UNCHANGED <<cur, taskVars, live, owner, count, val, waiting, timedOut,
                 waitObj, waitTimeout, call, mask, waiters, timeout>>

(* Semaphores. *)

Semaphore_Wait(s) ==
  /\ Client(cur)
  /\ s \in live
  /\ \/ /\ count[s] # 0
        /\ count' = [count EXCEPT ![s] = @ - 1]
        /\ UNCHANGED <<cpuVars, taskVars, waitVars, live, acquired, owner, val, held>>
     \/ /\ count[s] = 0
        /\ \/ ArmTimeout(s) /\ WaitFor(s, {})
           \/ NoTimeoutFree(s)

(* Code that may signal: a running thread, or an interrupt handler. *)
Caller == phase = "irq" \/ Client(cur)

Semaphore_Post(s, n) ==
  /\ Caller
  /\ s \in live
  /\ count[s] + n <= MaxCount
  /\ count' = [count EXCEPT ![s] = @ + n]
  /\ check' = check \cup waiters[s]
  /\ Thread_ReqReschedule
  /\ UNCHANGED <<cur, taskVars, live, acquired, owner, val, held, waiting, timedOut,
                 waitObj, waitTimeout, call, mask, waiters, timeout>>

(* Event masks. *)

EventMask_Wait(e, m) ==
  /\ Client(cur)
  /\ e \in live
  /\ val[e] \cap m = {}
  /\ \/ ArmTimeout(e) /\ WaitFor(e, m)
     \/ NoTimeoutFree(e)

EventMask_Clear(e, m) ==
  /\ Caller
  /\ e \in live
  /\ val' = [val EXCEPT ![e] = @ \ m]
  /\ UNCHANGED <<cpuVars, taskVars, waitVars, live, acquired, owner, count, held>>

(* Variant: the waiters are compared with the value before the signal.     *)
EventMask_Signal_Stale(e, m) ==
  /\ Caller
  /\ e \in live
  /\ val' = [val EXCEPT ![e] = @ \cup m]
  /\ check' = check \cup {t \in waiters[e] : mask[t] \cap val[e] # {}}
  /\ Thread_ReqReschedule
  /\ UNCHANGED <<cur, taskVars, live, acquired, owner, count, held, waiting, timedOut,
                 waitObj, waitTimeout, call, mask, waiters, timeout>>

EventMask_Signal(e, m) ==
  /\ Caller
  /\ e \in live
  /\ val' = [val EXCEPT ![e] = @ \cup m]
  /\ check' = check \cup {t \in waiters[e] : mask[t] \cap val'[e] # {}}
  /\ Thread_ReqReschedule
  /\ UNCHANGED <<cur, taskVars, live, acquired, owner, count, held, waiting, timedOut,
                 waitObj, waitTimeout, call, mask, waiters, timeout>>

-----------------------------------------------------------------------------
(* What a waiting call does once Thread_Switch has come back to it, up to  *)
(* its return.                                                             *)

Return ==
  /\ phase = "run"
  /\ call[cur] # None
  /\ call' = [call EXCEPT ![cur] = None]
  /\ mask' = [mask EXCEPT ![cur] = {}]
  /\ UNCHANGED <<cpuVars, taskVars, waiting, check, timedOut, waitObj, waitTimeout,
                 waiters, timeout>>

(* (Variants: the code after the switch does not look at Flag_Timeout.)    *)
ReturnMutex_Always == Return /\ call[cur] \in Mutexes /\ Granted(call[cur], 1)
ReturnMutex ==
  /\ Return
  /\ call[cur] \in Mutexes
  /\ IF cur \in timedOut THEN UNCHANGED objVars ELSE Granted(call[cur], 1)

ReturnSemaphore_Always ==
  /\ Return
  /\ call[cur] \in Semas
  /\ count' = [count EXCEPT ![call[cur]] = @ - 1]
  /\ UNCHANGED <<live, acquired, owner, val, held>>
ReturnSemaphore ==
  /\ Return
  /\ call[cur] \in Semas
  /\ IF cur \in timedOut
     THEN UNCHANGED count
     ELSE count' = [count EXCEPT ![call[cur]] = @ - 1]
  /\ UNCHANGED <<live, acquired, owner, val, held>>

(* EventMask_Wait, Thread_Wait and Thread_Sleep change nothing any more. *)
ReturnOther ==
  /\ Return
  /\ call[cur] \in Events \cup Threads \cup {Asleep}
  /\ UNCHANGED objVars

-----------------------------------------------------------------------------
(* Interrupts.  The handler of a device signals objects; the timer's       *)
(* handler calls Thread_Tick.  Thread_PostIRQ asks for a switch on exit.   *)

IrqEnter ==
  /\ phase = "run"
  /\ call[cur] = None
  /\ phase' = "irq"
  /\ UNCHANGED <<cur, schedReq, taskVars, waitVars, objVars>>

(* The timeouts in E have run out.  (Their length is left open: any        *)
(* pending timeout may be one of them.)                                    *)
Thread_Tick ==
  /\ phase = "irq"
  /\ \E E \in SUBSET {i \in TimeoutIds : timeout[i] # None} :
       LET T == {timeout[i] : i \in E} IN
       /\ E # {}
       /\ timedOut' = timedOut \cup T
       /\ Thread_CancelWait(T)
  /\ Thread_ReqReschedule
  /\ UNCHANGED <<cur, taskVars, objVars, check, call, mask>>

Thread_PostIRQ ==
  /\ phase = "irq"
  /\ phase' = IF schedReq THEN "sched" ELSE "run"
  /\ schedReq' = FALSE
  /\ UNCHANGED <<cur, taskVars, waitVars, objVars>>

-----------------------------------------------------------------------------
(* Thread_Init, up to the point where main() goes on. *)
Init ==
  /\ cur = Main /\ phase = "run" /\ schedReq = FALSE
  /\ status = [t \in Threads |-> IF t = Main THEN "live"
                                 ELSE IF t = Idle THEN "created" ELSE "none"]
  /\ queue = [p \in Priorities |-> IF p = Prio[Main] THEN <<Main>>
                                   ELSE IF p = Prio[Idle] THEN <<Idle>> ELSE <<>>]
  /\ rr = [p \in Priorities |-> IF p = Prio[Main] THEN Main
                                ELSE IF p = Prio[Idle] THEN Idle ELSE None]
  /\ waiting = {} /\ check = {} /\ timedOut = {}
  /\ waitObj = [t \in Threads |-> None]
  /\ waitTimeout = [t \in Threads |-> None]
  /\ call = [t \in Threads |-> None]
  /\ mask = [t \in Threads |-> {}]
  /\ waiters = [o \in Targets |-> {}]
  /\ timeout = [i \in TimeoutIds |-> None]
  /\ live = {}
  /\ acquired = [m \in Mutexes |-> 0]
  /\ owner = [m \in Mutexes |-> None]
  /\ count = [s \in Semas |-> 0]
  /\ val = [e \in Events |-> {}]
  /\ held = [m \in Mutexes |-> [t \in Threads |-> 0]]

ThreadOp ==
  \/ \E t \in Threads : Thread_Create(t) \/ Thread_Delete(t) \/ Thread_Wait(t)
  \/ Thread_Terminate
  \/ Thread_Sleep
  \/ Thread_Yield

MutexOp ==
  \E m \in Mutexes : \/ Mutex_Create(m) \/ Mutex_Delete(m)
                     \/ Mutex_Acquire(m) \/ Mutex_Release(m)

SemaOp ==
  \E s \in Semas : \/ \E n \in 0 .. MaxCount : Semaphore_Create(s, n)
                   \/ Semaphore_Delete(s)
                   \/ Semaphore_Wait(s)
                   \/ \E n \in 1 .. MaxCount : Semaphore_Post(s, n)

EventOp ==
  \E e \in Events : \/ EventMask_Create(e) \/ EventMask_Delete(e)
                    \/ \E m \in SUBSET Bits \ {{}} :
                         \/ EventMask_Wait(e, m)
                         \/ EventMask_Clear(e, m)
                         \/ EventMask_Signal(e, m)

Returns == ReturnMutex \/ ReturnSemaphore \/ ReturnOther

Irq == IrqEnter \/ Thread_Tick \/ Thread_PostIRQ

Next == ThreadOp \/ MutexOp \/ SemaOp \/ EventOp \/ Thread_Schedule \/ Returns \/ Irq

Spec == Init /\ [][Next]_vars

-----------------------------------------------------------------------------
(* Properties. *)

(* The values each variable ranges over. *)
TypeOK ==
  /\ cur \in Threads /\ phase \in {"run", "irq", "sched"} /\ schedReq \in BOOLEAN
  /\ status \in [Threads -> {"none", "created", "live", "terminated", "deleted"}]
  /\ queue \in [Priorities -> Seq(Threads)]
  /\ rr \in [Priorities -> Threads \cup {None}]
  /\ waiting \subseteq Threads /\ check \subseteq Threads /\ timedOut \subseteq Threads
  /\ waitObj \in [Threads -> Targets \cup {None}]
  /\ waitTimeout \in [Threads -> TimeoutIds \cup {None}]
  /\ call \in [Threads -> Targets \cup {None, Asleep}]
  /\ mask \in [Threads -> SUBSET Bits]
  /\ waiters \in [Targets -> SUBSET Threads]
  /\ timeout \in [TimeoutIds -> Threads \cup {None}]
  /\ live \subseteq Objects
  /\ acquired \in [Mutexes -> Nat]
  /\ owner \in [Mutexes -> Threads \cup {None}]
  /\ count \in [Semas -> Nat]
  /\ val \in [Events -> SUBSET Bits]
  /\ held \in [Mutexes -> [Threads -> Nat]]

(* The kernel's books agree: a thread is in the wait slots of an object    *)
(* exactly while its WaitObject names the object, it is then flagged as    *)
(* waiting inside the matching call, and what it waits on exists.  A wake, *)
(* a timeout, a deletion and a termination each undo all of it.            *)
Registered ==
  /\ \A t \in Threads, o \in Targets : t \in waiters[o] <=> waitObj[t] = o
  /\ \A t \in waiting : call[t] # None /\ waitObj[t] = IF call[t] = Asleep THEN None ELSE call[t]
  /\ \A t \in Threads : waitObj[t] # None => t \in waiting
  /\ \A o \in Objects : waiters[o] # {} => o \in live

(* No wake-up is lost: a thread that waits for something that is there has *)
(* Flag_CheckWakeup, so that the next scan of its queue wakes it, however  *)
(* posts, timeouts, deletions and scans that pass it by interleave.        *)
NoLostWakeup == \A t \in waiting : Thread_CanWakeup(t) => t \in check

(* No spurious wake-up: a thread that comes back from Thread_Switch inside *)
(* a waiting call, without Flag_Timeout, finds what it waited for, not     *)
(* deleted: the code after the switch takes it without looking.            *)
Grantable(o, m) ==
  /\ o \in Objects => o \in live
  /\ o \in Mutexes => acquired[o] = 0
  /\ o \in Semas => count[o] # 0
  /\ o \in Events => val[o] \cap m # {}
WakeSound ==
  phase = "run" /\ call[cur] # None /\ cur \notin timedOut
    => Grantable(call[cur], mask[cur])

(* Mutual exclusion, in terms of what callers were told: the thread that   *)
(* Mutex_Acquire said yes to more often than it released is the owner, its *)
(* surplus is the recursion depth, and nobody else has any.                *)
MutexHeld ==
  \A m \in Mutexes, t \in Threads :
    held[m][t] = IF owner[m] = t THEN acquired[m] ELSE 0

(* A waiting thread that asked for a timeout has its slot of Timeouts[]    *)
(* armed (thread.c: WaitTimeout is one of the fields "for objects this     *)
(* thread is waiting on"), so that Thread_Tick can end the wait.           *)
WaitTimeoutArmed ==
  \A t \in waiting : waitTimeout[t] # None => timeout[waitTimeout[t]] = t

(* Every armed slot belongs to a waiting thread that knows it: a tick      *)
(* never acts on a thread that has moved on.                               *)
NoStrayTimeout ==
  \A i \in TimeoutIds : timeout[i] # None =>
    timeout[i] \in waiting /\ waitTimeout[timeout[i]] = i

(* Strict priorities: whenever a thread runs with nothing pending, no      *)
(* thread of a more urgent queue could run (one that was created and has   *)
(* never run yet excepted: Thread_Create does not reschedule).             *)
UrgentFirst ==
  phase = "run" =>
    \A t \in Threads : status[t] = "live" /\ Prio[t] < Prio[cur] => ~Ready(t)

(* Each live thread is in the queue of its priority exactly once, and      *)
(* CurThreadPerQueue names a member, so that every scan ends.              *)
QueuesSound ==
  /\ \A t \in Threads :
       Cardinality({i \in 1 .. Len(queue[Prio[t]]) : queue[Prio[t]][i] = t})
         = IF Queued(t) THEN 1 ELSE 0
  /\ \A p \in Priorities :
       IF queue[p] = <<>> THEN rr[p] = None
       ELSE \E i \in 1 .. Len(queue[p]) : queue[p][i] = rr[p]
  /\ phase # "sched" => rr[Prio[cur]] = cur

(* The inductive invariant that Registered, NoLostWakeup, WakeSound and    *)
(* MutexHeld are parts of.  A thread inside a waiting call on an object    *)
(* that is no longer waiting has timed out, unless it is the one that was  *)
(* switched to for it; the thread that runs is alive, and every live       *)
(* thread is in its queue.                                                 *)
Woken ==
  /\ phase = "irq" => call[cur] = None
  /\ \A t \in Threads :
       call[t] \in Objects /\ t \notin waiting
         => t \in timedOut \/ (phase = "run" /\ cur = t)
CurQueued == phase # "sched" => Queued(cur) /\ cur \notin waiting
InQueue ==
  \A t \in Threads : Queued(t) =>
    \E i \in 1 .. Len(queue[Prio[t]]) : queue[Prio[t]][i] = t
IInv ==
  /\ TypeOK /\ Registered /\ NoLostWakeup /\ WakeSound /\ MutexHeld
  /\ Woken /\ CurQueued /\ InQueue

(* The mutexes and semaphores of the kernel are those of SyncObjects: in   *)
(* particular Mutex_Acquire never says yes to a second thread, and a       *)
(* Semaphore_Wait that returns 1, at once or after waiting, has taken a    *)
(* permit that was there.                                                  *)
Abstract == INSTANCE SyncObjects
              WITH live <- live \cap (Mutexes \cup Semas), permits <- count
ImplementsSync == Abstract!Spec
=============================================================================
