------------------------------ MODULE MCKernel ------------------------------
(* Small instances of Kernel for TLC. *)
EXTENDS Kernel, TLC

CONSTANTS main, idle, a, b

(* Two threads of one priority above main's, in the ring of one queue. *)
MCPrio == [t \in Threads |-> IF t = main THEN 8 ELSE IF t = idle THEN 15 ELSE 4]
(* One thread shares main's queue, the others are more urgent. *)
MCPrioShared == [t \in Threads |-> IF t = idle THEN 15 ELSE IF t = a THEN 4 ELSE 8]
=============================================================================
