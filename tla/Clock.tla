------------------------------- MODULE Clock -------------------------------
(* The clock of the machine the workers run on, finer than the seconds     *)
(* that int(time.time()) leaves of it.                                      *)
EXTENDS Integers

CONSTANTS
    TicksPerSecond,  \* instants the models tell apart within one second
    MaxTicks         \* bound of the models: the clock stops here

ASSUME ClockAssumption == TicksPerSecond \in Nat \ {0} /\ MaxTicks \in Nat

VARIABLE now         \* the current tick

\* int(time.time()) at tick t.
Seconds(t) == t \div TicksPerSecond

Tick ==
    /\ now < MaxTicks
    /\ now' = now + 1

=============================================================================
