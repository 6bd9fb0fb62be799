------------------------------ MODULE Watchdog ------------------------------
(* What the pod promises the rover, whatever radio, handheld and timers do: *)
(* it is never armed and without a frame for longer than Deadline, and once *)
(* tripped it stays so until it is booted again.                            *)
EXTENDS Naturals

CONSTANT Deadline

VARIABLES
  watch,   \* "armed", "tripped" or "off"
  quiet    \* time since the last frame, or since booting began

watchVars == <<watch, quiet>>

Fresh == watch = "armed" /\ quiet \in 0 .. Deadline

Init == Fresh

Hear == /\ watch # "off"
        /\ watch' \in {watch, "tripped"}
        /\ quiet' = 0

Age == /\ watch = "tripped" \/ (watch = "armed" /\ quiet < Deadline)
       /\ quiet' = quiet + 1
       /\ UNCHANGED watch

Trip == watch = "armed" /\ watch' = "tripped" /\ UNCHANGED quiet

Fail == watch' = "off" /\ UNCHANGED quiet

Boot == watch = "off" /\ Fresh'

Next == Hear \/ Age \/ Trip \/ Fail \/ Boot

Spec == Init /\ [][Next]_watchVars
=============================================================================
