-------------------------------- MODULE Delay --------------------------------
(* The delays of wup/wup.c (WUP_DelayUS, WUP_DelayMS, Timer0IRQ). Threads of *)
(* different priorities share timer 0 and Timer0Flag, and wait in a loop that *)
(* puts the processor to sleep between interrupts: nothing less urgent runs   *)
(* meanwhile, but a more urgent thread, made ready by an interrupt, may       *)
(* start a delay of its own in the middle of another's.                       *)
(*                                                                            *)
(* Handlers run before the next step of any thread. Time passes between any   *)
(* two steps; timer 1 interrupts every millisecond.                           *)
EXTENDS Integers

CONSTANTS Levels,      \* the priorities 0 .. Levels - 1, 0 the most urgent
          Times,       \* the delays asked for, in ticks of timer 0
          MaxDelays    \* bound: delays begun

VARIABLES
  at,        \* at[p]: where the thread of priority p is in its delay
  us,        \* what it asked for
  timer,     \* timer 0: enabled, value, target
  flag,      \* Timer0Flag
  asleep,    \* the processor waits for an interrupt
  passed,    \* history: the ticks since the delay began, as far as they matter
  broken,    \* history: another delay was begun in the middle of it
  delays

vars == <<at, us, timer, flag, asleep, passed, broken, delays>>

Prios == 0 .. Levels - 1
Longest == CHOOSE n \in Times : \A m \in Times : m <= n

TypeOK ==
  /\ at \in [Prios -> {"out", "clear", "target", "start", "loop", "off", "wfi"}]
  /\ us \in [Prios -> Times]
  /\ timer \in [on : BOOLEAN, value : 0 .. Longest, target : {0} \cup Times]
  /\ {flag, asleep} \subseteq BOOLEAN
  /\ passed \in [Prios -> 0 .. Longest] /\ broken \in [Prios -> BOOLEAN]

Init ==
  /\ at = [p \in Prios |-> "out"] /\ us = [p \in Prios |-> Longest]
  /\ timer = [on |-> FALSE, value |-> 0, target |-> 0]
  /\ flag = FALSE /\ asleep = FALSE
  /\ passed = [p \in Prios |-> 0] /\ broken = [p \in Prios |-> FALSE]
  /\ delays = 0

Pending == timer.on /\ timer.value >= timer.target

\* The timer counts on, and with it every delay.
Time ==
  /\ ~Pending
  /\ timer.on \/ \E p \in Prios : at[p] # "out" /\ passed[p] < Longest
  /\ timer' = IF timer.on THEN [timer EXCEPT !.value = @ + 1] ELSE timer
  /\ passed' = [p \in Prios |-> IF at[p] # "out" /\ passed[p] < Longest
                                THEN passed[p] + 1 ELSE passed[p]]
  /\ UNCHANGED <<at, us, flag, asleep, broken, delays>>

Timer0IRQ ==
  /\ Pending
  /\ timer' = [timer EXCEPT !.on = FALSE] /\ flag' = TRUE /\ asleep' = FALSE
  /\ UNCHANGED <<at, us, passed, broken, delays>>

\* Timer1IRQ, and any other interrupt.
Timer1IRQ ==
  /\ asleep
  /\ asleep' = FALSE
  /\ UNCHANGED <<at, us, timer, flag, passed, broken, delays>>

\* p runs: nothing is pending, and nobody more urgent is in a delay.
Runs(p) == ~Pending /\ ~asleep /\ \A q \in Prios : q < p => at[q] = "out"

Goto(p, l) == at' = [at EXCEPT ![p] = l]

\* A delay begins. The delays it interrupts are those of the threads it preempts.
Enter(p) == \E n \in Times :
  /\ Runs(p) /\ at[p] = "out" /\ delays < MaxDelays
  /\ us' = [us EXCEPT ![p] = n] /\ delays' = delays + 1
  /\ passed' = [passed EXCEPT ![p] = 0]
  /\ broken' = [q \in Prios |-> IF q = p THEN FALSE ELSE broken[q] \/ at[q] # "out"]
  /\ Goto(p, "clear")
  /\ UNCHANGED <<timer, flag, asleep>>

(* Variant: the flag of the delay before is kept. *)
Clear_Not(p) ==
  /\ Runs(p) /\ at[p] = "clear"
  /\ timer' = [timer EXCEPT !.on = FALSE]
  /\ Goto(p, "target")
  /\ UNCHANGED <<us, flag, asleep, passed, broken, delays>>

\* The timer is stopped and the flag cleared.
Clear(p) ==
  /\ Runs(p) /\ at[p] = "clear"
  /\ timer' = [timer EXCEPT !.on = FALSE] /\ flag' = FALSE
  /\ Goto(p, "target")
  /\ UNCHANGED <<us, asleep, passed, broken, delays>>

SetTarget(p) ==
  /\ Runs(p) /\ at[p] = "target"
  /\ timer' = [timer EXCEPT !.value = 0, !.target = us[p]]
  /\ Goto(p, "start")
  /\ UNCHANGED <<us, flag, asleep, passed, broken, delays>>

(* Variant: the flag is cleared once the timer runs. *)
StartTimer_Clears(p) ==
  /\ Runs(p) /\ at[p] = "start"
  /\ timer' = [timer EXCEPT !.on = ~flag] /\ flag' = FALSE
  /\ Goto(p, "loop")
  /\ UNCHANGED <<us, asleep, passed, broken, delays>>

StartTimer(p) ==
  /\ Runs(p) /\ at[p] = "start"
  /\ timer' = [timer EXCEPT !.on = TRUE]
  /\ Goto(p, "loop")
  /\ UNCHANGED <<us, flag, asleep, passed, broken, delays>>

\* while (!Timer0Flag) WaitForIRQ(): an interrupt between the test and the wait
\* does not end the wait.
Test(p) ==
  /\ Runs(p) /\ at[p] = "loop"
  /\ Goto(p, IF flag THEN "off" ELSE "wfi")
  /\ UNCHANGED <<us, timer, flag, asleep, passed, broken, delays>>

Sleep(p) ==
  /\ Runs(p) /\ at[p] = "wfi"
  /\ asleep' = TRUE /\ Goto(p, "loop")
  /\ UNCHANGED <<us, timer, flag, passed, broken, delays>>

Leave(p) ==
  /\ Runs(p) /\ at[p] = "off"
  /\ timer' = [timer EXCEPT !.on = FALSE] /\ Goto(p, "out")
  /\ UNCHANGED <<us, flag, asleep, passed, broken, delays>>

Interrupt == Timer0IRQ \/ Timer1IRQ

Delaying == \E p \in Prios :
  Clear(p) \/ SetTarget(p) \/ StartTimer(p) \/ Test(p) \/ Sleep(p) \/ Leave(p)

Next == Time \/ Interrupt \/ Delaying \/ \E p \in Prios : Enter(p)

(****************************** Properties ********************************)

\* A delay that no other delay was begun in the middle of is never short.
NoneShort == \A p \in Prios :
  (at[p] = "off" /\ ~broken[p]) => passed[p] >= us[p]

\* Every delay ends, also those that others were begun in the middle of: what
\* the more urgent delay does to the timer leaves the flag set. (The delays are
\* bounded: all have ended in the end.)
DelayEnds == (\E p \in Prios : at[p] # "out") ~> (\A p \in Prios : at[p] = "out")
=============================================================================
