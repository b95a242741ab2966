--------------------------- MODULE CircuitBreaker ---------------------------
(***************************************************************************)
(* What internal/mcp/mcp.go promises of a server's breaker: one value that *)
(* a recorded success, a recorded failure, a probe of the open circuit or  *)
(* a new breaker changes in one step, and whose circuit is open or being   *)
(* probed exactly from FailureThreshold failures in a row on.              *)
(***************************************************************************)
EXTENDS Integers

CONSTANT FailureThreshold

VARIABLES circuit, failed

vars == <<circuit, failed>>

Fresh == circuit = "closed" /\ failed = 0

\* The count of failures in a row; it stops at the threshold.
Counted == IF failed < FailureThreshold THEN failed + 1 ELSE failed

\* A recorded success, or a new breaker.
Close == circuit' = "closed" /\ failed' = 0

\* A recorded failure.
Fail == /\ failed' = Counted
        /\ circuit' = IF failed' >= FailureThreshold THEN "open" ELSE circuit

Probe == circuit = "open" /\ circuit' = "half-open" /\ UNCHANGED failed

Spec == Fresh /\ [][Close \/ Fail \/ Probe]_vars
=============================================================================
