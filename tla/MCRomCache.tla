----------------------------- MODULE MCRomCache -----------------------------
(* A small instance of RomCache for TLC. *)
EXTENDS RomCache

Image(offset, size, valid) == [offset |-> offset, size |-> size, valid |-> valid]

(* An image whose offset in the flash memory exceeds its size. *)
Wrapped == {Image(40, 32, {4})}

(* A headered LoROM and a HiROM image larger than the buffer, a LoROM image *)
(* that fits, and the one whose size wraps.                                 *)
MCImages == {Image(3, 20, {1}), Image(1, 25, {4}), Image(1, 12, {3})} \cup Wrapped
=============================================================================
