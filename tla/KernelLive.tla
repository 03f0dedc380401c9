----------------------------- MODULE KernelLive -----------------------------
(***************************************************************************)
(* Progress of the thread kernel, under callers that keep the rules the    *)
(* firmware's threads keep: a thread that holds a mutex neither terminates *)
(* nor waits for another thread (nor deletes the mutex), and threads that  *)
(* share a priority do not compute forever without a kernel call.          *)
(***************************************************************************)
EXTENDS Kernel

Holds(t) == \E m \in Mutexes : held[m][t] # 0

Orderly ==
  Holds(cur) => /\ ~Thread_Terminate
                /\ ~\E t \in Threads : Thread_Wait(t)
                /\ ~\E m \in Mutexes : Mutex_Delete(m)

TickOf(i) == Thread_Tick /\ timeout[i] # None /\ timeout'[i] = None

(* The processor runs the code between interrupts masked and unmasked to   *)
(* its end; interrupts keep coming, and a pending timeout runs out.        *)
KernelFairness ==
  /\ WF_vars(Thread_Schedule) /\ WF_vars(Returns) /\ WF_vars(Thread_PostIRQ)
  /\ SF_vars(IrqEnter)
  /\ \A i \in TimeoutIds : SF_vars(TickOf(i))

(* Whoever holds a mutex releases it; nobody hogs the processor.           *)
CallerFairness ==
  /\ \A m \in Mutexes : SF_vars(Mutex_Release(m))
  /\ SF_vars(Thread_Yield)

LiveSpec == Init /\ [][Next /\ Orderly]_vars /\ KernelFairness /\ CallerFairness

-----------------------------------------------------------------------------
(* Among threads of one priority nobody starves for a mutex: although a    *)
(* release hands the mutex to no one in particular, and a running thread   *)
(* may take it again before a woken waiter runs, the ring of the queue     *)
(* brings the waiter first in the end.  A holder may sleep meanwhile, and  *)
(* its timeout must stay armed: the callers neither join with a timeout    *)
(* nor delete what others wait for (WaitTimeoutArmed says why).            *)
MutexWaitEnds ==
  \A t \in Threads, m \in Mutexes :
    (t \in waiting /\ waitObj[t] = m) ~> (t \notin waiting)
=============================================================================
