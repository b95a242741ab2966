----------------------------- MODULE EngineClock -----------------------------
(***************************************************************************)
(* Engine with a clock that counts hours, for the statements about         *)
(* MaxTradesPerHour.  HourlyTradeCount (engine.go:45,498) is only ever     *)
(* incremented; `recent` counts the approvals of the current hour.         *)
(***************************************************************************)
EXTENDS Engine

CONSTANT MaxHours     \* bound on the clock

VARIABLES hour, recent

clockVars == <<vars, hour, recent>>

ClockInit == Init /\ hour = 0 /\ recent = [a \in Agents |-> 0]

HourPasses == /\ hour < MaxHours
              /\ hour' = hour + 1
              /\ recent' = [a \in Agents |-> 0]
              /\ UNCHANGED vars

EngineStep == /\ Next
              /\ recent' = [a \in Agents |-> recent[a] + approvals'[a] - approvals[a]]
              /\ UNCHANGED hour

ClockNext == EngineStep \/ HourPasses

ClockSpec == ClockInit /\ [][ClockNext]_clockVars

\* risk.go:145-146: checkTradeFrequency "rejects trades when the hourly trade
\* count exceeds the configured maximum".  A trade is rejected for its
\* frequency although the hour has seen fewer trades than the maximum.
RateLimitIsHourly ==
    [][\A l \in Loops :
        (order'[l] # order[l] /\ order'[l].decision.reason = "rate_limit")
            => recent[owner[l]] >= conf[l].risk.maxPerHour]_clockVars
=============================================================================
