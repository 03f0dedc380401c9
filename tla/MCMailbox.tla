----------------------------- MODULE MCMailbox -----------------------------
(* A small instance of Mailbox for TLC: a is more urgent than main. *)
EXTENDS Mailbox, TLC

CONSTANTS main, idle, a

MCPrio == [t \in Threads |-> IF t = main THEN 8 ELSE IF t = idle THEN 15 ELSE 4]
=============================================================================
