------------------------------ MODULE MCConsole ------------------------------
(* Bytes of two bits, tiles of two pixels, screens of four by four tiles; long *)
(* enough streams for every address to wrap around its memory.                 *)
EXTENDS Console
MCWrites == [scroll |-> 4, matrix |-> 4, oam |-> 10, cgram |-> 9, vram |-> 5]
MCHFlip == {c \in 0 .. 63 : c % 3 = 1}
MCVFlip == {c \in 0 .. 63 : c % 5 = 2}
=============================================================================
