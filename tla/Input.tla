-------------------------------- MODULE Input --------------------------------
(* The input data of the gamepad (wup/input.c): one thread scans the          *)
(* microcontroller and decodes what it gets into InputData, another fetches a *)
(* copy of it. The copy is made under the mutex, and only if something new    *)
(* is there; the flag that says so is looked at before.                       *)
(*                                                                            *)
(* The data is what the buttons are and everything else, which stands as the  *)
(* number of the scan it comes from.                                          *)
EXTENDS Integers, Sequences

CONSTANTS Buttons,
          MaxScans     \* bound: scans

None == "none"

VARIABLES
  scanAt, readAt,   \* where the thread that scans is, and the one that reads
  owner,            \* who holds the mutex
  raw,              \* what the microcontroller gave: <<buttons, scan>>
  down, pressed, released, rest,    \* InputData
  outDown, outPressed, outRest,     \* InputDataOut
  first, fresh,     \* FirstScan, InputFresh
  scans,            \* scans begun
  log,              \* history: the buttons of the scans that are whole
  since             \* history: how many these were when the reader called

data == <<down, pressed, released, rest>>
out  == <<outDown, outPressed, outRest>>
vars == <<scanAt, readAt, owner, raw, data, out, first, fresh, scans, log, since>>

TypeOK ==
  /\ scanAt \in {"out", "lock", "buttons", "rest", "unlock"}
  /\ readAt \in {"out", "lock", "down", "rest", "fresh", "unlock", "return"}
  /\ owner \in {"scan", "reader", None}
  /\ raw \in (SUBSET Buttons) \X (0 .. MaxScans)
  /\ {down, pressed, released, outDown, outPressed} \subseteq SUBSET Buttons
  /\ {rest, outRest, scans, since} \subseteq 0 .. MaxScans /\ log \in Seq(SUBSET Buttons)
  /\ {first, fresh} \subseteq BOOLEAN

\* Input_Init, before its Input_Scan
Init ==
  /\ scanAt = "out" /\ readAt = "out" /\ owner = None
  /\ raw = <<{}, 0>>
  /\ down = {} /\ pressed = {} /\ released = {} /\ rest = 0
  /\ outDown = {} /\ outPressed = {} /\ outRest = 0
  /\ first = TRUE /\ fresh = FALSE /\ scans = 0 /\ log = <<>>
  /\ since = 0

(******************************* Input_Scan *******************************)

\* What came with a wrong check byte was asked for again.
UIC_GetInputData == \E b \in SUBSET Buttons :
  /\ scanAt = "out" /\ scans < MaxScans
  /\ scans' = scans + 1 /\ raw' = <<b, scans + 1>>
  /\ scanAt' = "lock"
  /\ UNCHANGED <<readAt, owner, data, out, first, fresh, log, since>>

ScanAcquire ==
  /\ scanAt = "lock" /\ owner = None
  /\ owner' = "scan" /\ scanAt' = "buttons"
  /\ UNCHANGED <<readAt, raw, data, out, first, fresh, scans, log, since>>

DecodeButtons ==
  /\ scanAt = "buttons"
  /\ down' = raw[1]
  /\ pressed' = raw[1] \ down /\ released' = down \ raw[1]
  /\ scanAt' = "rest"
  /\ UNCHANGED <<readAt, owner, raw, rest, out, first, fresh, scans, log, since>>

\* The sticks, the sensors and the touchscreen. The first scan has no edges.
DecodeRest ==
  /\ scanAt = "rest"
  /\ rest' = raw[2]
  /\ IF first THEN pressed' = {} /\ released' = {} ELSE UNCHANGED <<pressed, released>>
  /\ first' = FALSE /\ fresh' = TRUE /\ log' = Append(log, down)
  /\ scanAt' = "unlock"
  /\ UNCHANGED <<readAt, owner, raw, down, out, scans, since>>

ScanRelease ==
  /\ scanAt = "unlock"
  /\ owner' = None /\ scanAt' = "out"
  /\ UNCHANGED <<readAt, raw, data, out, first, fresh, scans, log, since>>

(****************************** Input_GetData *****************************)

Input_GetData ==
  /\ readAt = "out"
  /\ since' = Len(log)
  /\ readAt' = IF fresh THEN "lock" ELSE "return"
  /\ UNCHANGED <<scanAt, owner, raw, data, out, first, fresh, scans, log>>

(* Variant: the data is copied without the mutex. *)
ReadAcquire_Not ==
  /\ readAt = "lock"
  /\ readAt' = "down"
  /\ UNCHANGED <<scanAt, owner, raw, data, out, first, fresh, scans, log, since>>

ReadAcquire ==
  /\ readAt = "lock" /\ owner = None
  /\ owner' = "reader" /\ readAt' = "down"
  /\ UNCHANGED <<scanAt, raw, data, out, first, fresh, scans, log, since>>

\* The memcpy, in two parts.
CopyButtons ==
  /\ readAt = "down"
  /\ outDown' = down /\ outPressed' = pressed
  /\ readAt' = "rest"
  /\ UNCHANGED <<scanAt, owner, raw, data, outRest, first, fresh, scans, log, since>>

CopyRest ==
  /\ readAt = "rest"
  /\ outRest' = rest /\ readAt' = "fresh"
  /\ UNCHANGED <<scanAt, owner, raw, data, outDown, outPressed, first, fresh, scans,
                 log, since>>

(* Variant: the mutex is released before the flag is taken back. *)
ClearFresh_Unlocked ==
  /\ readAt \in {"fresh", "unlock"}
  /\ IF readAt = "fresh"
     THEN owner' = None /\ readAt' = "unlock" /\ UNCHANGED fresh
     ELSE fresh' = FALSE /\ readAt' = "return" /\ UNCHANGED owner
  /\ UNCHANGED <<scanAt, raw, data, out, first, scans, log, since>>

\* InputFresh = 0, Mutex_Release
ClearFresh ==
  /\ readAt \in {"fresh", "unlock"}
  /\ IF readAt = "fresh"
     THEN fresh' = FALSE /\ readAt' = "unlock" /\ UNCHANGED owner
     ELSE owner' = None /\ readAt' = "return" /\ UNCHANGED fresh
  /\ UNCHANGED <<scanAt, raw, data, out, first, scans, log, since>>

Return ==
  /\ readAt = "return"
  /\ readAt' = "out"
  /\ UNCHANGED <<scanAt, owner, raw, data, out, first, fresh, scans, log, since>>

Input_Scan == UIC_GetInputData \/ ScanAcquire \/ DecodeButtons \/ DecodeRest \/ ScanRelease

Reading ==
  Input_GetData \/ ReadAcquire \/ CopyButtons \/ CopyRest \/ ClearFresh
    \/ Return

Next == Input_Scan \/ Reading

(****************************** Properties ********************************)

\* What a call returns is at least as new as the last scan that was whole when it
\* was made, although the flag is looked at outside of the mutex.
UpToDate == readAt = "return" => outRest >= since

\* What a call returns is the data of one scan: its buttons, and as pressed those
\* of them that were up in the scan before, none in the first.
OneScan ==
  (readAt = "return" /\ outRest > 0) =>
    /\ outDown = log[outRest]
    /\ outPressed = IF outRest = 1 THEN {} ELSE log[outRest] \ log[outRest - 1]
=============================================================================
