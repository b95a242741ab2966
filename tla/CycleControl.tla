---------------------------- MODULE CycleControl ----------------------------
(***************************************************************************)
(* The control of a cycle, which Cycle and Engine model with different     *)
(* detail: rounds with the model, the calls of an answer one after the     *)
(* other, at most one trade for each (runCycleInner, engine.go:264-360).   *)
(* Both implement this module.                                             *)
(***************************************************************************)
EXTENDS Naturals

CONSTANTS MaxToolCallRounds, MaxCalls

VARIABLES place,    \* "over" (no cycle), "tools", "chat" or "call"
          round,    \* rounds begun in this cycle
          calls,    \* calls of the current answer still to handle
          trades    \* trades executed so far

vars == <<place, round, calls, trades>>

Init == place \in {"over", "tools"} /\ round = 0 /\ calls = 0 /\ trades = 0

\* A new process or a new loop takes the count from the database.
Load == place = "over" /\ trades' \in Nat /\ UNCHANGED <<place, round, calls>>

Begin == place = "over" /\ place' = "tools" /\ UNCHANGED <<round, calls, trades>>

\* The tools are listed and the fast path, if any, leaves it to the model.
Prepare == place = "tools" /\ place' = "chat" /\ UNCHANGED <<round, calls, trades>>

\* The model's answer has calls.
Ask == /\ place = "chat" /\ place' = "call"
       /\ round < MaxToolCallRounds /\ round' = round + 1
       /\ calls' \in 1..MaxCalls
       /\ UNCHANGED trades

\* One call is done.  A trade among them was executed, rejected or failed.
Settle == /\ place = "call"
          /\ calls' = calls - 1
          /\ place' = IF calls = 1 THEN "chat" ELSE "call"
          /\ trades' \in {trades, trades + 1}
          /\ UNCHANGED round

\* The cycle ends: skipped, answered, failed, out of rounds, or cut off by a
\* panic or a crash wherever it is.
End == /\ place # "over" /\ place' = "over"
       /\ round' = 0 /\ calls' = 0
       /\ UNCHANGED trades

Next == Load \/ Begin \/ Prepare \/ Ask \/ Settle \/ End

Spec == Init /\ [][Next]_vars
=============================================================================
