--------------------------- MODULE RiskController ---------------------------
(***************************************************************************)
(* One call of Controller.Validate (internal/risk/risk.go): the loop over  *)
(* the rules, which breaks at the first violated one, and the write of the *)
(* decision to risk_events, which may fail.                                *)
(***************************************************************************)
EXTENDS RiskRules

CONSTANTS Trades, ParamSets, States   \* the inputs of a call

ASSUME InputsAssumption ==
    /\ Trades # {} /\ \A t \in Trades : t.amount \in 1..MaxInt64
    /\ ParamSets # {}
    /\ ParamSets \subseteq [maxTrade : Int, maxLoss : Int, maxRatio : Int, maxPerHour : Int]
    /\ States # {}
    /\ States \subseteq [loss : Int, trades : Int, position : 0..MaxInt64, aum : Int]

VARIABLES trade, params, state,       \* the arguments
          next,                       \* index of the next rule to run
          decision,                   \* the RiskDecision built so far
          event,                      \* the risk_events row written, or "none"
          returned                    \* "no", "decision" or "error"

args == <<trade, params, state>>
vars == <<trade, params, state, next, decision, event, returned>>

Init == /\ trade \in Trades
        /\ params \in ParamSets
        /\ state \in States
        /\ next = 1
        /\ decision = Approval
        /\ event = "none"
        /\ returned = "no"

\* for _, rule := range rules(): an index past the last rule ends the loop.
RunRule ==
    /\ next <= 4
    /\ LET bad == Violates(rules[next], trade, params, state)
       IN  /\ decision' = IF bad THEN Rejection(rules[next]) ELSE decision
           /\ next' = IF bad THEN 5 ELSE next + 1
    /\ UNCHANGED <<args, event, returned>>

\* Mutant: a failing write is ignored.
MutLogDecision ==
    /\ next = 5 /\ returned = "no"
    /\ event' \in {EventType(decision), event} /\ returned' = "decision"
    /\ UNCHANGED <<args, next, decision>>

LogDecision ==
    /\ next = 5 /\ returned = "no"
    /\ \/ event' = EventType(decision) /\ returned' = "decision"
       \/ event' = event               /\ returned' = "error"
    /\ UNCHANGED <<args, next, decision>>

Next == RunRule \/ LogDecision

Spec == Init /\ [][Next]_vars

-----------------------------------------------------------------------------
TypeOK == /\ trade \in Trades /\ params \in ParamSets /\ state \in States
          /\ next \in 1..5
          /\ decision \in Decisions
          /\ event \in {"none", "trade_approved", "trade_rejected", "agent_paused"}
          /\ returned \in {"no", "decision", "error"}

\* What a limit means, written without the code's rules: a limit of 0 or less
\* is off, and the position is the exact sum.
WithinLimits ==
    /\ params.maxTrade > 0 => trade.amount <= params.maxTrade
    /\ params.maxLoss > 0 => state.loss < params.maxLoss
    /\ params.maxPerHour > 0 => state.trades < params.maxPerHour
    /\ (/\ params.maxRatio > 0 /\ state.aum > 0
        /\ state.position + trade.amount <= MaxInt64)
         => 100 * (state.position + trade.amount) <= params.maxRatio * state.aum

\* A trade is approved exactly when it respects every limit that is switched
\* on, as long as the new position fits an int64: no rule is skipped by the
\* early break, none is applied when it is off, no bound is off by one
\* (Validate, rules, check*).
ApprovedIffWithinLimits ==
    (returned # "no" /\ state.position + trade.amount <= MaxInt64)
        => (decision.approved <=> WithinLimits)

\* The caller learns a decision only after its risk event is stored, and the
\* stored event tells the three outcomes apart: the agent is to be paused
\* exactly when "agent_paused" was stored (Validate, logDecision).
ReturnedDecisionIsLogged ==
    returned = "decision" =>
        /\ (event = "trade_approved") <=> decision.approved
        /\ (event = "agent_paused") <=> decision.pause
=============================================================================
