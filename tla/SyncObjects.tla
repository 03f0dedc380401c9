---------------------------- MODULE SyncObjects ----------------------------
(***************************************************************************)
(* What the mutexes and semaphores of the thread kernel promise their      *)
(* callers, with no thread queues, flags or timeouts in it: a mutex is     *)
(* held, recursively, by one thread, and a semaphore hands out no permit   *)
(* it does not have.  Kernel implements this.                              *)
(***************************************************************************)
EXTENDS Integers

CONSTANTS Threads, Mutexes, Semas, MaxCount

VARIABLES
  live,     (* the mutexes and semaphores that exist     *)
  held,     (* held[m][t]: how many times t holds m      *)
  permits   (* permits[s]: permits semaphore s has left  *)

vars == <<live, held, permits>>

Init ==
  /\ live = {}
  /\ held = [m \in Mutexes |-> [t \in Threads |-> 0]]
  /\ permits = [s \in Semas |-> 0]

(* Nobody but t holds m. *)
Free(t, m) == \A u \in Threads \ {t} : held[m][u] = 0

Lock(t, m) ==
  /\ m \in live
  /\ Free(t, m)
  /\ held' = [held EXCEPT ![m][t] = @ + 1]
  /\ UNCHANGED <<live, permits>>

Unlock(t, m) ==
  /\ m \in live
  /\ held[m][t] # 0
  /\ held' = [held EXCEPT ![m][t] = @ - 1]
  /\ UNCHANGED <<live, permits>>

CreateMutex(m) ==
  /\ m \notin live
  /\ live' = live \cup {m}
  /\ UNCHANGED <<held, permits>>

(* At most the thread that deletes a mutex holds it. *)
DeleteMutex(t, m) ==
  /\ m \in live
  /\ Free(t, m)
  /\ live' = live \ {m}
  /\ held' = [held EXCEPT ![m] = [u \in Threads |-> 0]]
  /\ UNCHANGED permits

Take(s) ==
  /\ s \in live
  /\ permits[s] # 0
  /\ permits' = [permits EXCEPT ![s] = @ - 1]
  /\ UNCHANGED <<live, held>>

Post(s, n) ==
  /\ s \in live
  /\ permits' = [permits EXCEPT ![s] = @ + n]
  /\ UNCHANGED <<live, held>>

CreateSemaphore(s, n) ==
  /\ s \notin live
  /\ live' = live \cup {s}
  /\ permits' = [permits EXCEPT ![s] = n]
  /\ UNCHANGED held

DeleteSemaphore(s) ==
  /\ s \in live
  /\ live' = live \ {s}
  /\ permits' = [permits EXCEPT ![s] = 0]
  /\ UNCHANGED held

Next ==
  \/ \E m \in Mutexes :
       \/ CreateMutex(m)
       \/ \E t \in Threads : Lock(t, m) \/ Unlock(t, m) \/ DeleteMutex(t, m)
  \/ \E s \in Semas :
       \/ Take(s) \/ DeleteSemaphore(s)
       \/ \E n \in 0 .. MaxCount : CreateSemaphore(s, n) \/ Post(s, n)

Spec == Init /\ [][Next]_vars
=============================================================================
