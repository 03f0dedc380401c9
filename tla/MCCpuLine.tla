------------------------------ MODULE MCCpuLine ------------------------------
(* A line of eight cycles with its HBlank at four; matches at the start,      *)
(* before and after the HBlank, and past the line.                            *)
EXTENDS CpuLine
MCHMatches == {0, 3, 5, 9}
MCVMatches == {0, 2}
=============================================================================
