------------------------------ MODULE MCEngine ------------------------------
(***************************************************************************)
(* A small instance of Engine.  One agent may hold two pairs; a BUY of 2   *)
(* fills its position limit (50% of 4), a SELL makes the other pair        *)
(* negative.                                                               *)
(***************************************************************************)
EXTENDS Engine, TLC

CONSTANTS a1, a2, l1, l2, l3, p1, p2

Buy  == [action |-> "BUY",  pair |-> p1, amount |-> 2]
Sell == [action |-> "SELL", pair |-> p2, amount |-> 1]

OneTrade  == {Buy}
TwoTrades == {Buy, Sell}

Limits    == [maxTrade |-> 2, maxLoss |-> 1, maxRatio |-> 50, maxPerHour |-> 2]
OneConf   == {[risk |-> Limits, aum |-> 4]}
OnePerHour == {[risk |-> [Limits EXCEPT !.maxPerHour = 1], aum |-> 4]}

\* An update takes the hourly limit down while the AUM has gone up.
TwoConfs  == {[risk |-> Limits, aum |-> 4],
              [risk |-> [Limits EXCEPT !.maxPerHour = 1], aum |-> 8]}

\* The instance meets the hypothesis of LimitsHold.
ASSUME AmountsAssumption == AmountsFit(2)

Symm == Permutations(Loops)
=============================================================================
