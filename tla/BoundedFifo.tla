---------------------------- MODULE BoundedFifo ----------------------------
(***************************************************************************)
(* What a mailbox of the thread kernel promises: a queue of at most Size   *)
(* messages, first in first out, each handed to one receiver.              *)
(***************************************************************************)
EXTENDS Integers, Sequences

CONSTANTS Threads, Msgs, Size, None

VARIABLES
  open,    (* the mailbox exists                              *)
  buffer,  (* the messages sent and not yet received          *)
  got      (* the last message each thread received, or None  *)

vars == <<open, buffer, got>>

Init == open = FALSE /\ buffer = <<>> /\ got = [t \in Threads |-> None]

Create == ~open /\ open' = TRUE /\ UNCHANGED <<buffer, got>>

Delete == open /\ open' = FALSE /\ buffer' = <<>> /\ UNCHANGED got

Send(d) ==
  /\ open
  /\ Len(buffer) < Size
  /\ buffer' = Append(buffer, d)
  /\ UNCHANGED <<open, got>>

Recv(t) ==
  /\ open
  /\ buffer # <<>>
  /\ got' = [got EXCEPT ![t] = Head(buffer)]
  /\ buffer' = Tail(buffer)
  /\ UNCHANGED open

Next ==
  \/ Create \/ Delete
  \/ \E d \in Msgs : Send(d)
  \/ \E t \in Threads : Recv(t)

Spec == Init /\ [][Next]_vars
=============================================================================
