--------------------------------- MODULE Clock ---------------------------------
(* The clock of the machine the manager runs on, shared by the components that   *)
(* keep deadlines in memory.                                                     *)
EXTENDS Integers

CONSTANT MaxTime    \* bound: the instant the clock stops at

ASSUME ClockAssumption == MaxTime \in Nat

VARIABLE now

\* A moment that never comes: the zero time of the code.
Never == -1

Tick == now < MaxTime /\ now' = now + 1
=============================================================================
