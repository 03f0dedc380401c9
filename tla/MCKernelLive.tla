---------------------------- MODULE MCKernelLive ----------------------------
(* A small instance of KernelLive: main's queue holds every thread but the  *)
(* idle one.                                                                *)
EXTENDS KernelLive, TLC

CONSTANTS main, idle, a, b

MCPrio == [t \in Threads |-> IF t = idle THEN 15 ELSE 8]
=============================================================================
