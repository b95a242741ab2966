-------------------------------- MODULE Cycle --------------------------------
(***************************************************************************)
(* One cycle of an agent as its goroutine sees it: runCycleInner           *)
(* (internal/engine), with the fast path that may end it before the model  *)
(* is asked (internal/engine/fastpath), the conversation with the model    *)
(* (internal/llm), the tools it reaches at the agent's MCP servers, and    *)
(* the calls of risk control, step by step as in RiskController.           *)
(*                                                                         *)
(* Engine has the same cycle among others, pauses and crashes, without     *)
(* what is said in it.                                                     *)
(***************************************************************************)
EXTENDS RiskController, Sequences, FiniteSets

CONSTANTS
    Servers, Tools,      \* bound to the agent; names of MCP tools
    Provides,            \* the tools each server's row lists
    Strategies,          \* what TryParse may find: sequences of conditions
    Numbers,             \* what an indicator may read
    Asks,                \* [tool, args] a model may call
    Float64,             \* the number JSON decoding makes of an amount
    MaxExact,            \* integers up to here are exact (2^53)
    None, Bad, Malformed,
    MaxToolCallRounds,
    MaxCalls, MaxAsked   \* calls in an answer and in a cycle of the instance

ASSUME NoneCycleAssumption == None \notin Servers /\ Bad \notin Numbers
ASSUME CycleBounds ==
    MaxToolCallRounds \in Nat /\ MaxCalls \in Nat /\ MaxExact \in Nat
ASSUME ToolsAssumption ==
    IsFiniteSet(Servers) /\ Provides \in [Servers -> SUBSET Tools]
ASSUME StrategiesAssumption ==
    Strategies \subseteq Seq([tool : Tools, op : {"<", "<=", ">", ">=", "=="}, threshold : Int])

\* Rounding keeps the sign.
ASSUME Float64Assumption ==
    \A a \in Asks : (a.tool = "execute_trade" /\ a.args # Malformed)
        => /\ a.args.amount \in Int /\ Float64[a.args.amount] \in Int
           /\ a.args.amount \in 0..MaxExact => Float64[a.args.amount] = a.args.amount
           /\ a.args.amount < 0 => Float64[a.args.amount] < 0

VARIABLES
    step,        \* where runCycleInner is
    route,       \* toolServerMap
    strategy,    \* the conditions of the agent's strategy
    readings,    \* what Evaluate has read, Bad for an error
    hit,         \* result.FastPathHit
    round,
    asked,       \* the model's calls; a call's id is its index
    pending,     \* ids of the current answer still to handle
    messages,    \* chatReq.Messages after the first two
    toolCalls,   \* result.ToolCalls
    verdicts,    \* [call, trade, approved] that Validate has returned
    outcome      \* how the cycle ended

talkVars  == <<round, asked, pending, messages, toolCalls, verdicts>>
fastVars  == <<strategy, readings, hit>>
cycleVars == <<step, route, fastVars, talkVars, outcome>>

AnyTrade  == CHOOSE t \in Trades : TRUE
AnyParams == CHOOSE p \in ParamSets : TRUE
AnyState  == CHOOSE s \in States : TRUE

\* A call of Validate with these arguments.
Enter(t, p, s) == /\ trade' = t /\ params' = p /\ state' = s
                  /\ next' = 1 /\ decision' = Approval
                  /\ event' = "none" /\ returned' = "no"

CycleInit ==
    /\ trade = AnyTrade /\ params = AnyParams /\ state = AnyState
    /\ next = 1 /\ decision = Approval /\ event = "none" /\ returned = "no"
    /\ step = "tools" /\ outcome = "none"
    /\ route = [t \in Tools |-> None]
    /\ strategy \in Strategies
    /\ readings = <<>> /\ hit = FALSE
    /\ round = 0
    /\ asked = <<>> /\ pending = <<>> /\ messages = <<>> /\ toolCalls = <<>>
    /\ verdicts = {}

End(how) == step' = "done" /\ outcome' = how

-----------------------------------------------------------------------------
(* Tools and the fast path.                                                *)

\* The query has no ORDER BY.
Orders == {order \in [1..Cardinality(Servers) -> Servers] :
              \A i, j \in DOMAIN order : order[i] = order[j] => i = j}

\* Of two servers with a tool of one name the later in the list gets the calls.
buildToolServerMap(order) ==
    [t \in Tools |->
        LET with == {i \in DOMAIN order : t \in Provides[order[i]]}
        IN  IF with = {} THEN None
            ELSE order[CHOOSE i \in with : \A j \in with : j <= i]]

GetTools ==
    /\ step = "tools"
    /\ \/ /\ \E order \in Orders : route' = buildToolServerMap(order)
          /\ step' = IF strategy = <<>> THEN "chat" ELSE "fast"
          /\ UNCHANGED outcome
       \/ End("error") /\ UNCHANGED route
    /\ UNCHANGED <<vars, fastVars, talkVars>>

compare(lhs, op, rhs) ==
    \/ op = "<"  /\ lhs < rhs
    \/ op = "<=" /\ lhs <= rhs
    \/ op = ">"  /\ lhs > rhs
    \/ op = ">=" /\ lhs >= rhs
    \/ op = "==" /\ lhs = rhs

\* Mutant: a condition that is not met does not end the evaluation.
MutProceeds(c, v) == v # Bad /\ Len(readings) + 1 < Len(strategy)

\* The conditions are not decided yet: this one is met, and there are more.
Proceeds(c, v) == /\ v # Bad /\ compare(v, c.op, c.threshold)
                  /\ Len(readings) + 1 < Len(strategy)

\* Evaluate reads one indicator: from a tool nobody provides, a server that
\* does not answer or an answer that is no number comes an error, with which
\* the model is asked after all.
Evaluate ==
    /\ step = "fast"
    /\ LET c == strategy[Len(readings) + 1]
       IN  \E v \in Numbers \cup {Bad} :
              /\ route[c.tool] = None => v = Bad
              /\ readings' = Append(readings, v)
              /\ \/ Proceeds(c, v) /\ UNCHANGED <<step, hit, outcome>>
                 \/ /\ v = Bad
                    /\ step' = "chat" /\ UNCHANGED <<hit, outcome>>
                 \/ /\ v # Bad /\ compare(v, c.op, c.threshold) /\ ~Proceeds(c, v)
                    /\ step' = "chat" /\ hit' = TRUE /\ UNCHANGED outcome
                 \/ /\ v # Bad /\ ~compare(v, c.op, c.threshold)
                    /\ End("skipped") /\ hit' = TRUE
    /\ UNCHANGED <<vars, route, strategy, talkVars>>

-----------------------------------------------------------------------------
(* The conversation.                                                       *)

Answers == UNION {[1..n -> Asks] : n \in 1..MaxCalls}

\* The model calls tools, or gives its last answer, or fails (or the cycle's
\* time is over); after so many rounds it is not asked again.
Chat ==
    /\ step = "chat"
    /\ \/ /\ round < MaxToolCallRounds
          /\ \E answer \in Answers :
                LET ids == [i \in DOMAIN answer |-> Len(asked) + i]
                IN  /\ Len(asked) + Len(answer) <= MaxAsked
                    /\ asked' = asked \o answer
                    /\ pending' = ids
                    /\ messages' = Append(messages, [role |-> "assistant", calls |-> ids])
          /\ round' = round + 1 /\ step' = "call"
          /\ UNCHANGED outcome
       \/ /\ round < MaxToolCallRounds /\ End("answered")
          /\ UNCHANGED <<round, asked, pending, messages>>
       \/ End("error") /\ UNCHANGED <<round, asked, pending, messages>>
    /\ UNCHANGED <<vars, route, fastVars, toolCalls, verdicts>>

\* Mutant: what is only an error is not told to the model.
MutTell(id, content, from) ==
    IF content = "not found" THEN messages
    ELSE Append(messages, [role |-> "tool", call |-> id, content |-> content, from |-> from])

Tell(id, content, from) ==
    Append(messages, [role |-> "tool", call |-> id, content |-> content, from |-> from])

\* The current call has come to this: the model is told with the next request,
\* the cycle's log now.
Settle(content, from) ==
    LET id == Head(pending)
    IN  /\ messages' = Tell(id, content, from)
        /\ toolCalls' = Append(toolCalls, [call |-> id, error |-> content \in {"error", "not found"}])
        /\ pending' = Tail(pending)
        /\ step' = IF Len(pending) = 1 THEN "chat" ELSE "call"
        /\ UNCHANGED <<route, fastVars, round, asked, outcome>>

Current == asked[Head(pending)]

CallTool ==
    /\ step = "call" /\ Current.tool # "execute_trade"
    /\ IF Current.tool \notin Tools \/ route[Current.tool] = None
       THEN Settle("not found", None)
       ELSE \E content \in {"result", "error"} : Settle(content, route[Current.tool])
    /\ UNCHANGED <<vars, verdicts>>

\* Arguments that are no JSON object become an empty one.
Decoded(arguments) ==
    IF arguments = Malformed THEN [action |-> "", amount |-> 0]
    ELSE [action |-> arguments.action, amount |-> Float64[arguments.amount]]

\* Mutant: a negative amount is let pass.
MutAcceptable(t) == t.action # "" /\ t.amount <= MaxInt64

\* A float64 past the largest int64 does not decode either.
Acceptable(t) == t.action # "" /\ t.amount > 0 /\ t.amount <= MaxInt64

ASSUME TradesAssumption ==
    \A a \in Asks :
        LET t == Decoded(a.args)
        IN  (a.tool = "execute_trade" /\ t.action # "" /\ t.amount \in 1..MaxInt64) => t \in Trades

\* handleTradeToolCall, with the risk parameters and the state of the time.
CallTrade ==
    /\ step = "call" /\ Current.tool = "execute_trade"
    /\ LET t == Decoded(Current.args)
       IN  \/ ~Acceptable(t) /\ Settle("error", None) /\ UNCHANGED vars
           \/ /\ Acceptable(t) /\ step' = "risk"
              /\ \E p \in ParamSets, s \in States : Enter(t, p, s)
              /\ UNCHANGED <<route, fastVars, round, asked, pending, messages,
                             toolCalls, outcome>>
    /\ UNCHANGED verdicts

Validate == step = "risk" /\ Next /\ UNCHANGED cycleVars

Verdict == IF returned = "error" THEN "error"
           ELSE IF decision.approved THEN "executed" ELSE "rejected"

\* Validate has returned.
ReportTrade ==
    /\ step = "risk" /\ returned # "no"
    /\ Settle(Verdict, None)
    /\ verdicts' = IF returned = "error" THEN verdicts
                   ELSE verdicts \cup {[call |-> Head(pending), trade |-> trade,
                                        approved |-> decision.approved]}
    /\ Enter(AnyTrade, AnyParams, AnyState)

CycleNext == \/ GetTools \/ Evaluate \/ Chat \/ CallTool \/ CallTrade
             \/ Validate \/ ReportTrade

CycleSpec == CycleInit /\ [][CycleNext]_<<vars, cycleVars>>

-----------------------------------------------------------------------------
(* Properties.                                                             *)

CycleTypeOK ==
    /\ TypeOK
    /\ step \in {"tools", "fast", "chat", "call", "risk", "done"}
    /\ route \in [Tools -> Servers \cup {None}]
    /\ strategy \in Strategies
    /\ readings \in Seq(Numbers \cup {Bad}) /\ hit \in BOOLEAN
    /\ round \in 0..MaxToolCallRounds
    /\ asked \in Seq(Asks) /\ pending \in Seq(DOMAIN asked)
    /\ messages \in Seq([role : {"assistant"}, calls : Seq(DOMAIN asked)] \cup
                        [role : {"tool"}, call : DOMAIN asked, from : Servers \cup {None},
                         content : {"result", "error", "not found", "executed", "rejected"}])
    /\ toolCalls \in Seq([call : DOMAIN asked, error : BOOLEAN])
    /\ verdicts \subseteq [call : DOMAIN asked, trade : Trades, approved : BOOLEAN]
    /\ outcome \in {"none", "skipped", "answered", "error"}

\* Whenever the model is asked, every call it has made so far is followed by
\* its one answer, in the order of the calls, as the API demands, and the
\* cycle's log has a record of it; an answer comes from a server that provides
\* the tool, and "not found" only if no bound server does (runCycleInner,
\* engine.go:286-355).
CallsAnswered ==
    step = "chat" =>
        /\ Len(messages) = round + Len(asked) /\ Len(toolCalls) = Len(asked)
        /\ \A k \in DOMAIN messages : messages[k].role = "assistant" =>
              \A i \in DOMAIN messages[k].calls :
                  LET id == messages[k].calls[i]
                      m  == messages[k + i]
                  IN  /\ m.role = "tool" /\ m.call = id
                      /\ toolCalls[id] = [call |-> id, error |-> m.content \in {"error", "not found"}]
                      /\ m.from # None => asked[id].tool \in Provides[m.from]
                      /\ m.content = "not found" =>
                            \A s \in Servers : asked[id].tool \notin Provides[s]

\* What risk control decides on is what the model asked for in a well-formed
\* call, to the cent as long as a float64 holds it, never zero, negative or
\* wrapped around; and the model is told of exactly the decisions there were:
\* "executed" is an approved trade (llm.go:298-302, handleTradeToolCall).
TradesAsAsked ==
    /\ \A v \in verdicts :
          LET call == asked[v.call]
          IN  /\ call.tool = "execute_trade" /\ call.args # Malformed
              /\ v.trade.action = call.args.action
              /\ v.trade.amount \in 1..MaxInt64
              /\ call.args.amount <= MaxExact => v.trade.amount = call.args.amount
    /\ \A k \in DOMAIN messages :
          (messages[k].role = "tool" /\ messages[k].content \in {"executed", "rejected"}) =>
              \E v \in verdicts : /\ v.call = messages[k].call
                                  /\ v.approved <=> messages[k].content = "executed"
    /\ \A v, w \in verdicts : v.call = w.call => v = w

Holds(c, v) == v # Bad /\ compare(v, c.op, c.threshold)

\* A cycle is skipped exactly when a condition was read and did not hold, all
\* before it having held; a condition that could not be read, or none at all,
\* leaves the decision to the model; and a hit that goes on to the model is
\* one whose conditions all held (Evaluate; engine.go:215-242).
FastPathDecides ==
    /\ \A i \in DOMAIN readings : i < Len(readings) => Holds(strategy[i], readings[i])
    /\ (outcome = "skipped") <=>
          (/\ readings # <<>> /\ readings[Len(readings)] # Bad
           /\ ~Holds(strategy[Len(readings)], readings[Len(readings)]))
    /\ (hit /\ outcome # "skipped") =>
          /\ Len(readings) = Len(strategy)
          /\ \A i \in DOMAIN readings : Holds(strategy[i], readings[i])
=============================================================================
