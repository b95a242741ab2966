------------------------------ MODULE RiskRules ------------------------------
(***************************************************************************)
(* The rule chain of internal/risk/risk.go as operators.                   *)
(*                                                                         *)
(*   trade  = [action, amount]       what the language model asked for     *)
(*   params = [maxTrade, maxLoss, maxRatio, maxPerHour]   RiskParams       *)
(*   state  = [loss, trades, position, aum]               AgentState       *)
(*                                                                         *)
(* Amounts are cents.  maxRatio is a percentage: the code divides two      *)
(* float64 values, the model multiplies out.  A limit of 0 is "no limit".  *)
(***************************************************************************)
EXTENDS Integers

CONSTANT MaxInt64   \* the largest amount an int64 holds (a small number in a run)

ASSUME MaxInt64Assumption == MaxInt64 \in Nat \ {0}

\* Go's int64 arithmetic wraps around in two's complement.
Wrap64(n) == ((n + MaxInt64 + 1) % (2 * (MaxInt64 + 1))) - (MaxInt64 + 1)

checkMaxTradeAmount(trade, params, state) ==
    params.maxTrade > 0 /\ trade.amount > params.maxTrade

\* Mutant: "exceeds the limit" read as strictly greater.
MutCheckDailyLoss(trade, params, state) ==
    params.maxLoss > 0 /\ state.loss > params.maxLoss

checkDailyLoss(trade, params, state) ==
    params.maxLoss > 0 /\ state.loss >= params.maxLoss

\* The amount is added whatever the action is, a SELL included.
checkPositionRatio(trade, params, state) ==
    /\ params.maxRatio > 0
    /\ state.aum > 0
    /\ 100 * Wrap64(state.position + trade.amount) > params.maxRatio * state.aum

\* Mutant: one trade too many.
MutCheckTradeFrequency(trade, params, state) ==
    params.maxPerHour > 0 /\ state.trades > params.maxPerHour

checkTradeFrequency(trade, params, state) ==
    params.maxPerHour > 0 /\ state.trades >= params.maxPerHour

\* The order of the chain; a rule's name stands for the reason it gives.
rules == << "trade_amount", "daily_loss", "position_ratio", "rate_limit" >>

Violates(rule, trade, params, state) ==
    \/ rule = "trade_amount"   /\ checkMaxTradeAmount(trade, params, state)
    \/ rule = "daily_loss"     /\ checkDailyLoss(trade, params, state)
    \/ rule = "position_ratio" /\ checkPositionRatio(trade, params, state)
    \/ rule = "rate_limit"     /\ checkTradeFrequency(trade, params, state)

Approval == [approved |-> TRUE, reason |-> "none", pause |-> FALSE]

\* Only the daily-loss rule asks for the agent to be paused.
Rejection(rule) ==
    [approved |-> FALSE, reason |-> rule, pause |-> rule = "daily_loss"]

\* The whole chain at once: the first rule violated decides.
ValidatePure(trade, params, state) ==
    LET violated == {i \in 1..4 : Violates(rules[i], trade, params, state)}
    IN  IF violated = {}
        THEN Approval
        ELSE Rejection(rules[CHOOSE i \in violated : \A j \in violated : i <= j])

Decisions == {Approval} \cup {Rejection(rules[i]) : i \in 1..4}

\* Mutant: the reason is stored where the type belongs.
MutEventType(decision) ==
    IF decision.approved THEN "trade_approved" ELSE decision.reason

\* The event type logDecision stores for a decision.
EventType(decision) ==
    IF decision.approved THEN "trade_approved"
    ELSE IF decision.pause THEN "agent_paused" ELSE "trade_rejected"
=============================================================================
