------------------------------ MODULE MCSdio ------------------------------
(* A small instance of Sdio for TLC. *)
EXTENDS Sdio, TLC

(* No window is like another to the driver only by its name.               *)
MCSymmetry == Permutations(Bases)
=============================================================================
