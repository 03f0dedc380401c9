------------------------------- MODULE MCBoard -------------------------------
(* Two threads on the bus; a write that begins inside a page and ends in the   *)
(* next one; two threads that delay, each in the middle of the other's; the    *)
(* card with one window, whose mail the receive thread gets while the main     *)
(* thread makes calls of its own.                                              *)
EXTENDS Board
MCCalls == {<<"write", 1, 3>>, <<"erase", 0, 0>>, <<"read", 0, 0>>, <<"id", 0, 0>>,
            <<"mode", 0, 0>>, <<"uic", 0, 0>>, <<"uicEnd", 0, 0>>}
=============================================================================
