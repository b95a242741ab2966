------------------------------ MODULE MCCycle -------------------------------
(***************************************************************************)
(* Inputs for Cycle.  Risk control sees every limit off, at a boundary and *)
(* beyond; two servers provide one tool of the same name and a third is    *)
(* provided by nobody; an indicator is read twice, with two results.       *)
(***************************************************************************)
EXTENDS Cycle, TLC

CONSTANTS s1, s2, t1, t2, t3

\* As with two bits of mantissa: 5 is rounded, 7 goes past MaxInt64.
MCFloat64 == (-1 :> -1) @@ (0 :> 0) @@ (1 :> 1) @@ (2 :> 2) @@ (5 :> 4) @@ (7 :> 8)

Trade(action, amount) ==
    [tool |-> "execute_trade", args |-> [action |-> action, amount |-> amount]]

MCAsks == {Trade("BUY", 2), Trade("SELL", 5), Trade("BUY", 7), Trade("BUY", -1),
           [tool |-> "execute_trade", args |-> Malformed],
           [tool |-> t1, args |-> None], [tool |-> t3, args |-> None]}

MCTrades == [action : {"BUY", "SELL"}, amount : 1..7]

\* Each limit off and just passed in every combination, and all just kept.
MCParamSets == [maxTrade : {0, 2}, maxLoss : {0, 2}, maxRatio : {0, 50}, maxPerHour : {0, 1}]
               \cup [maxTrade : {2}, maxLoss : {3}, maxRatio : {50}, maxPerHour : {2}]
MCStates == [loss : {2}, trades : {1}, position : {0, 2, 4}, aum : {8}]
                \cup [loss : {2}, trades : {1}, position : {4}, aum : {0}]

MCProvides == (s1 :> {t1}) @@ (s2 :> {t1, t2})

Low(t)  == [tool |-> t, op |-> "<", threshold |-> 1]
High(t) == [tool |-> t, op |-> ">=", threshold |-> 1]
MCStrategies == {<<>>, <<Low(t1), High(t1)>>, <<Low(t3)>>}
=============================================================================
