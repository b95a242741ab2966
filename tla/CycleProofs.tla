----------------------------- MODULE CycleProofs -----------------------------
(***************************************************************************)
(* What holds of a cycle for any tools, strategies, limits and trades, and *)
(* whatever the model asks for: the conversation stays well-formed, risk   *)
(* control decides on what was asked, and its decision is right.           *)
(***************************************************************************)
EXTENDS Cycle, SequenceTheorems, FiniteSetTheorems, WellFoundedInduction, TLAPS

-----------------------------------------------------------------------------
(* Risk control.                                                           *)

\* In range, int64 arithmetic is arithmetic.
LEMMA WrapIsId ==
    ASSUME NEW n \in 0..MaxInt64
    PROVE  Wrap64(n) = n
<1> DEFINE m == 2 * (MaxInt64 + 1)
           x == n + MaxInt64 + 1
<1>1. m \in Nat \ {0} /\ x \in 0..(m - 1)
  BY MaxInt64Assumption
<1>2. x % m = x
  BY <1>1, SMT
<1> QED
  BY <1>1, <1>2, MaxInt64Assumption DEF Wrap64

\* The loop over the rules: as long as it runs no rule it has passed is
\* violated; what ends it early is the first violated rule.
RuleLoop ==
    /\ returned # "no" => next = 5
    /\ decision = Approval =>
          \A i \in 1..4 : i < next => ~Violates(rules[i], trade, params, state)
    /\ decision # Approval =>
          /\ next = 5
          /\ \E i \in 1..4 : /\ Violates(rules[i], trade, params, state)
                             /\ decision = Rejection(rules[i])
                             /\ \A j \in 1..4 : j < i => ~Violates(rules[j], trade, params, state)
    /\ returned = "decision" => event = EventType(decision)

RiskInv == TypeOK /\ RuleLoop

\* A call of Validate begins.
LEMMA EnterRisk ==
    ASSUME NEW t \in Trades, NEW p \in ParamSets, NEW s \in States, Enter(t, p, s)
    PROVE  RiskInv'
<1>1. TypeOK'
  BY DEF Enter, TypeOK, Decisions
<1>2. RuleLoop'
  BY DEF Enter, RuleLoop
<1> QED
  BY <1>1, <1>2 DEF RiskInv

\* What the loop makes of a violated rule is no approval.
LEMMA RejectionIsNone == \A i \in 1..4 : Rejection(rules[i]) # Approval
BY DEF Rejection, Approval

\* A step of Validate.
LEMMA ValidateKeepsRisk ==
    ASSUME RiskInv, Next
    PROVE  RiskInv'
<1> USE DEF RiskInv
<1>1. CASE RunRule
  <2> DEFINE bad == Violates(rules[next], trade, params, state)
  <2>1. next \in 1..4 /\ decision = Approval /\ returned = "no"
    BY <1>1 DEF RunRule, RuleLoop, TypeOK
  <2>2. UNCHANGED <<trade, params, state, event, returned>>
    BY <1>1 DEF RunRule, args
  <2>3. CASE bad
    <3>1. decision' = Rejection(rules[next]) /\ next' = 5
      BY <1>1, <2>3 DEF RunRule
    <3>2. TypeOK'
      BY <2>1, <2>2, <3>1 DEF TypeOK, Decisions
    <3>3. RuleLoop'
      BY <2>1, <2>2, <2>3, <3>1, RejectionIsNone DEF RuleLoop, Violates,
         checkMaxTradeAmount, checkDailyLoss, checkPositionRatio, checkTradeFrequency
    <3> QED
      BY <3>2, <3>3
  <2>4. CASE ~bad
    <3>1. decision' = decision /\ next' = next + 1
      BY <1>1, <2>4 DEF RunRule
    <3>2. TypeOK'
      BY <2>1, <2>2, <3>1 DEF TypeOK
    <3>3. \A i \in 1..4 : i < next' => ~Violates(rules[i], trade, params, state)
      BY <2>1, <2>4, <3>1 DEF RuleLoop
    <3>4. RuleLoop'
      BY <2>1, <2>2, <3>1, <3>3 DEF RuleLoop, Violates,
         checkMaxTradeAmount, checkDailyLoss, checkPositionRatio, checkTradeFrequency
    <3> QED
      BY <3>2, <3>4
  <2> QED
    BY <2>3, <2>4
<1>2. CASE LogDecision
  <2>1. UNCHANGED <<trade, params, state, next, decision>> /\ next = 5
    BY <1>2 DEF LogDecision, args
  <2>2. \/ event' = EventType(decision) /\ returned' = "decision"
        \/ event' = event /\ returned' = "error"
    BY <1>2 DEF LogDecision
  <2>3. TypeOK'
    BY <2>1, <2>2 DEF TypeOK, EventType
  <2>4. RuleLoop'
    BY <2>1, <2>2 DEF RuleLoop, Violates, EventType,
       checkMaxTradeAmount, checkDailyLoss, checkPositionRatio, checkTradeFrequency
  <2> QED
    BY <2>3, <2>4
<1> QED
  BY <1>1, <1>2 DEF Next

\* When the loop is over, what it has found is what the chain taken at once
\* decides.
LEMMA LoopIsChain ==
    ASSUME RiskInv, next = 5
    PROVE  decision = ValidatePure(trade, params, state)
<1> DEFINE violated == {i \in 1..4 : Violates(rules[i], trade, params, state)}
<1>1. CASE decision = Approval
  <2>1. violated = {}
    BY <1>1 DEF RiskInv, RuleLoop
  <2> QED
    BY <1>1, <2>1 DEF ValidatePure
<1>2. CASE decision # Approval
  <2>1. PICK i \in violated : /\ decision = Rejection(rules[i])
                              /\ \A j \in violated : ~(j < i)
    BY <1>2 DEF RiskInv, RuleLoop
  <2> HIDE DEF violated
  <2>2. violated \subseteq 1..4
    BY DEF violated
  <2>3. \A j \in violated : i <= j
    BY <2>1, <2>2
  <2>4. (CHOOSE k \in violated : \A j \in violated : k <= j) = i
    <3> DEFINE k == CHOOSE m \in violated : \A j \in violated : m <= j
    <3>1. k \in violated /\ \A j \in violated : k <= j
      BY <2>3
    <3> HIDE DEF k
    <3>2. k <= i /\ i <= k
      BY <2>3, <3>1
    <3>3. k = i
      BY <2>2, <3>1, <3>2
    <3> QED
      BY <3>3 DEF k
  <2>5. ValidatePure(trade, params, state)
          = Rejection(rules[CHOOSE k \in violated : \A j \in violated : k <= j])
    <3>1. violated # {}
      BY <2>1
    <3> QED
      BY <3>1 DEF ValidatePure, violated
  <2> QED
    BY <2>1, <2>4, <2>5
<1> QED
  BY <1>1, <1>2

\* Nothing else writes Validate's variables.
LEMMA RiskFrame ==
    ASSUME RiskInv, UNCHANGED vars
    PROVE  RiskInv'
BY DEF RiskInv, TypeOK, RuleLoop, vars, args, Violates, EventType,
       checkMaxTradeAmount, checkDailyLoss, checkPositionRatio, checkTradeFrequency

\* The chain and the limits it stands for agree.
LEMMA RulesMeanLimits ==
    ASSUME TypeOK, state.position + trade.amount <= MaxInt64
    PROVE  (\A i \in 1..4 : ~Violates(rules[i], trade, params, state)) <=> WithinLimits
<1>1. /\ trade.amount \in 1..MaxInt64 /\ state.position \in 0..MaxInt64
      /\ params.maxTrade \in Int /\ params.maxLoss \in Int /\ params.maxRatio \in Int
      /\ params.maxPerHour \in Int
      /\ state.loss \in Int /\ state.trades \in Int /\ state.aum \in Int
  BY InputsAssumption DEF TypeOK
<1>2. Wrap64(state.position + trade.amount) = state.position + trade.amount
  BY <1>1, WrapIsId, MaxInt64Assumption
<1>3. (\A i \in 1..4 : ~Violates(rules[i], trade, params, state)) <=>
         /\ ~checkMaxTradeAmount(trade, params, state)
         /\ ~checkDailyLoss(trade, params, state)
         /\ ~checkPositionRatio(trade, params, state)
         /\ ~checkTradeFrequency(trade, params, state)
  <2>1. /\ Violates(rules[1], trade, params, state) <=> checkMaxTradeAmount(trade, params, state)
        /\ Violates(rules[2], trade, params, state) <=> checkDailyLoss(trade, params, state)
        /\ Violates(rules[3], trade, params, state) <=> checkPositionRatio(trade, params, state)
        /\ Violates(rules[4], trade, params, state) <=> checkTradeFrequency(trade, params, state)
    BY DEF Violates, rules
  <2>2. \A i : i \in 1..4 <=> i = 1 \/ i = 2 \/ i = 3 \/ i = 4
    OBVIOUS
  <2> QED
    BY <2>1, <2>2
<1>4. ~checkMaxTradeAmount(trade, params, state) <=>
         (params.maxTrade > 0 => trade.amount <= params.maxTrade)
  BY <1>1, MaxInt64Assumption DEF checkMaxTradeAmount
<1>5. ~checkDailyLoss(trade, params, state) <=>
         (params.maxLoss > 0 => state.loss < params.maxLoss)
  BY <1>1 DEF checkDailyLoss
<1>6. ~checkTradeFrequency(trade, params, state) <=>
         (params.maxPerHour > 0 => state.trades < params.maxPerHour)
  BY <1>1 DEF checkTradeFrequency
<1>7. ~checkPositionRatio(trade, params, state) <=>
         ((params.maxRatio > 0 /\ state.aum > 0)
            => 100 * (state.position + trade.amount) <= params.maxRatio * state.aum)
  <2> DEFINE ratio == params.maxRatio * state.aum
             sum == 100 * (state.position + trade.amount)
  <2>1. ratio \in Int /\ sum \in Int
    BY <1>1, MaxInt64Assumption
  <2>2. ~checkPositionRatio(trade, params, state) <=>
          ((params.maxRatio > 0 /\ state.aum > 0) => ~(sum > ratio))
    BY <1>2 DEF checkPositionRatio
  <2> QED
    BY <2>1, <2>2
<1> QED
  BY <1>3, <1>4, <1>5, <1>6, <1>7 DEF WithinLimits

\* A finished call approves exactly what is within the limits.
LEMMA RiskApproves == RiskInv => ApprovedIffWithinLimits
<1> SUFFICES ASSUME RiskInv, returned # "no", state.position + trade.amount <= MaxInt64
             PROVE  decision.approved <=> WithinLimits
  BY DEF ApprovedIffWithinLimits
<1>1. TypeOK /\ RuleLoop /\ next = 5
  BY DEF RiskInv, RuleLoop
<1>2. CASE decision = Approval
  <2>1. \A i \in 1..4 : ~Violates(rules[i], trade, params, state)
    BY <1>1, <1>2 DEF RuleLoop
  <2> QED
    BY <1>1, <1>2, <2>1, RulesMeanLimits DEF Approval
<1>3. CASE decision # Approval
  <2>1. PICK i \in 1..4 : /\ Violates(rules[i], trade, params, state)
                          /\ decision = Rejection(rules[i])
    BY <1>1, <1>3 DEF RuleLoop
  <2>2. ~WithinLimits
    BY <1>1, <2>1, RulesMeanLimits
  <2> QED
    BY <2>1, <2>2 DEF Rejection
<1> QED
  BY <1>2, <1>3

\* What is returned is stored.
LEMMA RiskLogs == RiskInv => ReturnedDecisionIsLogged
<1> SUFFICES ASSUME RiskInv, returned = "decision"
             PROVE  /\ (event = "trade_approved") <=> decision.approved
                    /\ (event = "agent_paused") <=> decision.pause
  BY DEF ReturnedDecisionIsLogged
<1>1. event = EventType(decision) /\ decision \in Decisions
  BY DEF RiskInv, RuleLoop, TypeOK
<1>2. decision.approved \in BOOLEAN /\ decision.pause \in BOOLEAN
      /\ (decision.approved => ~decision.pause)
  <2>1. CASE decision = Approval
    BY <2>1 DEF Approval
  <2>2. ASSUME NEW rule, decision = Rejection(rule)
        PROVE  decision.approved = FALSE /\ decision.pause \in BOOLEAN
    BY <2>2 DEF Rejection
  <2> QED
    BY <1>1, <2>1, <2>2 DEF Decisions
<1> QED
  BY <1>1, <1>2 DEF EventType

-----------------------------------------------------------------------------
(* Types, and what the counters have to do with each other.                *)

\* How many calls have been answered.
Done == Len(asked) - Len(pending)

Contents == {"result", "error", "not found", "executed", "rejected"}

Assistant == [role : {"assistant"}, calls : Seq(Nat)]
Told == [role : {"tool"}, call : Nat, from : Servers \cup {None}, content : Contents]

TalkTypes ==
    /\ step \in {"tools", "fast", "chat", "call", "risk", "done"}
    /\ route \in [Tools -> Servers \cup {None}]
    /\ round \in 0..MaxToolCallRounds
    /\ asked \in Seq(Asks) /\ pending \in Seq(Nat)
    /\ messages \in Seq(Assistant \cup Told)
    /\ toolCalls \in Seq([call : Nat, error : BOOLEAN])
    /\ outcome \in {"none", "skipped", "answered", "error"}

\* The pending calls are the last ones, in order, and there are some exactly
\* while calls are handled.
Counters ==
    /\ Len(pending) <= Len(asked)
    /\ \A i \in 1..Len(pending) : pending[i] = Done + i
    /\ step \in {"call", "risk"} <=> pending # <<>>
    /\ Len(messages) = round + Done
    /\ Len(toolCalls) = Done

TalkInv == TalkTypes /\ Counters

\* An answer of the model is a sequence of calls.
LEMMA AnswerIsCalls ==
    ASSUME NEW answer \in Answers
    PROVE  answer \in Seq(Asks) /\ Len(answer) \in Nat \ {0} /\ DOMAIN answer = 1..Len(answer)
<1>1. PICK n \in 1..MaxCalls : answer \in [1..n -> Asks]
  BY DEF Answers
<1>2. n \in Nat \ {0}
  BY CycleBounds
<1>3. answer \in Seq(Asks)
  BY <1>1, <1>2
<1>4. DOMAIN answer = 1..n /\ Len(answer) \in Nat /\ DOMAIN answer = 1..Len(answer)
  BY <1>1, <1>3, LenProperties
<1>5. Len(answer) # 0
  BY <1>2, <1>4
<1> QED
  BY <1>3, <1>4, <1>5

\* What a round of the model does to the conversation.
Asking(answer) ==
    LET ids == [i \in DOMAIN answer |-> Len(asked) + i]
    IN  /\ asked' = asked \o answer
        /\ pending' = ids
        /\ messages' = Append(messages, [role |-> "assistant", calls |-> ids])
        /\ round' = round + 1 /\ round < MaxToolCallRounds
        /\ step = "chat" /\ step' = "call"
        /\ UNCHANGED <<route, toolCalls, outcome, verdicts>>

LEMMA AskingFacts ==
    ASSUME TalkInv, NEW answer \in Answers, Asking(answer)
    PROVE  /\ Len(pending) = 0 /\ Done = Len(asked) /\ Done' = Len(asked)
           /\ asked' \in Seq(Asks) /\ Len(asked') = Len(asked) + Len(answer)
           /\ \A i \in 1..Len(asked) : asked'[i] = asked[i]
           /\ pending' \in Seq(Nat) /\ Len(pending') = Len(answer) /\ Len(answer) \in Nat \ {0}
           /\ \A i \in 1..Len(answer) : pending'[i] = Len(asked) + i
           /\ messages' \in Seq(Assistant \cup Told)
           /\ Len(messages') = Len(messages) + 1
           /\ \A k \in 1..Len(messages) : messages'[k] = messages[k]
           /\ messages'[Len(messages) + 1] = [role |-> "assistant", calls |-> pending']
<1>1. Len(asked) \in Nat /\ asked \in Seq(Asks) /\ messages \in Seq(Assistant \cup Told)
  BY DEF TalkInv, TalkTypes
<1>2. answer \in Seq(Asks) /\ Len(answer) \in Nat \ {0} /\ DOMAIN answer = 1..Len(answer)
  BY AnswerIsCalls
<1>3. pending = <<>> /\ Len(pending) = 0
  BY DEF Asking, TalkInv, Counters
<1>4. asked' = asked \o answer
  BY DEF Asking
<1>5. /\ asked' \in Seq(Asks) /\ Len(asked') = Len(asked) + Len(answer)
      /\ \A i \in 1..Len(asked) : asked'[i] = asked[i]
  BY <1>1, <1>2, <1>4, ConcatProperties
<1>6. pending' = [i \in 1..Len(answer) |-> Len(asked) + i]
  BY <1>2 DEF Asking
<1>7. pending' \in [1..Len(answer) -> Nat]
  BY <1>1, <1>2, <1>6
<1>8. pending' \in Seq(Nat)
  BY <1>2, <1>7
<1>9. Len(pending') = Len(answer) /\ \A i \in 1..Len(answer) : pending'[i] = Len(asked) + i
  <2>1. Len(pending') \in Nat /\ DOMAIN pending' = 1..Len(pending')
    BY <1>8, LenProperties
  <2> QED
    BY <1>2, <1>6, <2>1
<1>10. messages' = Append(messages, [role |-> "assistant", calls |-> pending'])
  BY DEF Asking
<1>11. [role |-> "assistant", calls |-> pending'] \in Assistant \cup Told
  BY <1>8 DEF Assistant
<1>12. /\ messages' \in Seq(Assistant \cup Told)
       /\ Len(messages') = Len(messages) + 1
       /\ \A k \in 1..Len(messages) : messages'[k] = messages[k]
       /\ messages'[Len(messages) + 1] = [role |-> "assistant", calls |-> pending']
  BY <1>1, <1>10, <1>11
<1>13. Done = Len(asked) /\ Done' = Len(asked)
  BY <1>1, <1>2, <1>3, <1>5, <1>9 DEF Done
<1> QED
  BY <1>2, <1>3, <1>5, <1>8, <1>9, <1>12, <1>13

\* What it does to the conversation that a call is settled.
Settling(content, from) ==
    /\ step \in {"call", "risk"}
    /\ content \in Contents /\ from \in Servers \cup {None}
    /\ Settle(content, from)

LEMMA SettlingFacts ==
    ASSUME TalkInv, NEW content, NEW from, Settling(content, from)
    PROVE  /\ Len(pending) \in Nat \ {0} /\ Head(pending) = Done + 1 /\ Done' = Done + 1
           /\ Done \in Nat /\ Done + 1 <= Len(asked) /\ asked' = asked /\ Len(asked) \in Nat
           /\ pending' \in Seq(Nat) /\ Len(pending') = Len(pending) - 1
           /\ \A i \in 1..Len(pending') : pending'[i] = pending[i + 1]
           /\ messages' \in Seq(Assistant \cup Told)
           /\ Len(messages') = Len(messages) + 1
           /\ \A k \in 1..Len(messages) : messages'[k] = messages[k]
           /\ messages'[Len(messages) + 1] = [role |-> "tool", call |-> Done + 1,
                                              content |-> content, from |-> from]
           /\ toolCalls' \in Seq([call : Nat, error : BOOLEAN])
           /\ Len(toolCalls') = Len(toolCalls) + 1
           /\ \A k \in 1..Len(toolCalls) : toolCalls'[k] = toolCalls[k]
           /\ toolCalls'[Len(toolCalls) + 1] =
                 [call |-> Done + 1, error |-> content \in {"error", "not found"}]
<1>1. /\ Len(asked) \in Nat /\ pending \in Seq(Nat) /\ messages \in Seq(Assistant \cup Told)
      /\ toolCalls \in Seq([call : Nat, error : BOOLEAN])
  BY DEF TalkInv, TalkTypes
<1>2. pending # <<>> /\ Len(pending) <= Len(asked)
  BY DEF Settling, TalkInv, Counters
<1>3. Len(pending) \in Nat \ {0}
  BY <1>1, <1>2, EmptySeq
<1>4. Head(pending) = Done + 1
  <2>1. pending[1] = Done + 1
    BY <1>3 DEF TalkInv, Counters
  <2> QED
    BY <1>1, <1>2, <2>1
<1>5. pending' = Tail(pending) /\ asked' = asked
  BY DEF Settling, Settle
<1>6. /\ pending' \in Seq(Nat) /\ Len(pending') = Len(pending) - 1
      /\ \A i \in 1..Len(pending') : pending'[i] = pending[i + 1]
  BY <1>1, <1>2, <1>5, HeadTailProperties
<1>7. Done \in Nat /\ Done' = Done + 1 /\ Done + 1 <= Len(asked)
  BY <1>1, <1>2, <1>3, <1>5, <1>6 DEF Done
<1>8. messages' = Append(messages, [role |-> "tool", call |-> Done + 1,
                                    content |-> content, from |-> from])
  BY <1>4 DEF Settling, Settle, Tell
<1>9. [role |-> "tool", call |-> Done + 1, content |-> content, from |-> from]
        \in Assistant \cup Told
  BY <1>7 DEF Settling, Told
<1>10. toolCalls' = Append(toolCalls, [call |-> Done + 1,
                                       error |-> content \in {"error", "not found"}])
  BY <1>4 DEF Settling, Settle
<1>11. [call |-> Done + 1, error |-> content \in {"error", "not found"}]
         \in [call : Nat, error : BOOLEAN]
  <2> DEFINE e == content \in {"error", "not found"}
  <2>1. e \in BOOLEAN
    OBVIOUS
  <2> HIDE DEF e
  <2> QED
    BY <1>7, <2>1
<1>12. /\ messages' \in Seq(Assistant \cup Told)
       /\ Len(messages') = Len(messages) + 1
       /\ \A k \in 1..Len(messages) : messages'[k] = messages[k]
       /\ messages'[Len(messages) + 1] = [role |-> "tool", call |-> Done + 1,
                                          content |-> content, from |-> from]
  BY <1>1, <1>8, <1>9
<1>13. /\ toolCalls' \in Seq([call : Nat, error : BOOLEAN])
       /\ Len(toolCalls') = Len(toolCalls) + 1
       /\ \A k \in 1..Len(toolCalls) : toolCalls'[k] = toolCalls[k]
       /\ toolCalls'[Len(toolCalls) + 1] =
             [call |-> Done + 1, error |-> content \in {"error", "not found"}]
  <2> DEFINE r == [call |-> Done + 1, error |-> content \in {"error", "not found"}]
  <2>1. r \in [call : Nat, error : BOOLEAN] /\ toolCalls' = Append(toolCalls, r)
    BY <1>10, <1>11
  <2> HIDE DEF r
  <2>2. /\ toolCalls' \in Seq([call : Nat, error : BOOLEAN])
        /\ Len(toolCalls') = Len(toolCalls) + 1
        /\ \A k \in 1..Len(toolCalls) : toolCalls'[k] = toolCalls[k]
        /\ toolCalls'[Len(toolCalls) + 1] = r
    BY <1>1, <2>1
  <2> QED
    BY <2>2 DEF r
<1> QED
  BY <1>1, <1>3, <1>4, <1>5, <1>6, <1>7, <1>12, <1>13

\* The conversation waits.
Waiting ==
    /\ UNCHANGED <<round, asked, pending, messages, toolCalls>>
    /\ step \in {"call", "risk"} <=> step' \in {"call", "risk"}

LEMMA ChatCases ==
    ASSUME Chat
    PROVE  \/ \E answer \in Answers : Asking(answer)
           \/ Waiting /\ step = "chat" /\ step' = "done" /\ outcome' \in {"answered", "error"}
              /\ UNCHANGED <<vars, route, fastVars, verdicts>>
<1>1. step = "chat" /\ UNCHANGED <<vars, route, fastVars, toolCalls, verdicts>>
  BY DEF Chat
<1>2. \/ /\ round < MaxToolCallRounds
         /\ \E answer \in Answers :
               LET ids == [i \in DOMAIN answer |-> Len(asked) + i]
               IN  /\ Len(asked) + Len(answer) <= MaxAsked
                   /\ asked' = asked \o answer
                   /\ pending' = ids
                   /\ messages' = Append(messages, [role |-> "assistant", calls |-> ids])
         /\ round' = round + 1 /\ step' = "call"
         /\ UNCHANGED outcome
      \/ step' = "done" /\ outcome' \in {"answered", "error"}
         /\ UNCHANGED <<round, asked, pending, messages>>
  BY DEF Chat, End
<1>3. CASE step' = "done" /\ outcome' \in {"answered", "error"}
           /\ UNCHANGED <<round, asked, pending, messages>>
  BY <1>1, <1>3 DEF Waiting
<1>4. CASE /\ round < MaxToolCallRounds
           /\ \E answer \in Answers :
                 LET ids == [i \in DOMAIN answer |-> Len(asked) + i]
                 IN  /\ Len(asked) + Len(answer) <= MaxAsked
                     /\ asked' = asked \o answer
                     /\ pending' = ids
                     /\ messages' = Append(messages, [role |-> "assistant", calls |-> ids])
           /\ round' = round + 1 /\ step' = "call"
           /\ UNCHANGED outcome
  <2>1. PICK answer \in Answers :
              /\ asked' = asked \o answer
              /\ pending' = [i \in DOMAIN answer |-> Len(asked) + i]
              /\ messages' = Append(messages, [role |-> "assistant",
                                               calls |-> [i \in DOMAIN answer |-> Len(asked) + i]])
    BY <1>4
  <2>2. Asking(answer)
    BY <1>1, <1>4, <2>1 DEF Asking, vars
  <2> QED
    BY <2>2
<1> QED
  BY <1>2, <1>3, <1>4

\* The call that is being handled.
LEMMA CurrentCall ==
    ASSUME TalkInv, step \in {"call", "risk"}
    PROVE  /\ Head(pending) = Done + 1 /\ Done \in Nat /\ Done + 1 \in 1..Len(asked)
           /\ Current = asked[Done + 1] /\ Current \in Asks
<1>1. Len(asked) \in Nat /\ pending \in Seq(Nat) /\ asked \in Seq(Asks)
  BY DEF TalkInv, TalkTypes
<1>2. pending # <<>> /\ Len(pending) <= Len(asked)
  BY DEF TalkInv, Counters
<1>3. Len(pending) \in Nat \ {0}
  BY <1>1, <1>2, EmptySeq
<1>4. Head(pending) = Done + 1
  <2>1. pending[1] = Done + 1
    BY <1>3 DEF TalkInv, Counters
  <2> QED
    BY <1>1, <1>2, <2>1
<1>5. Done \in Nat /\ Done + 1 \in 1..Len(asked)
  BY <1>1, <1>2, <1>3 DEF Done
<1>6. asked[Done + 1] \in Asks
  BY <1>1, <1>5, ElementOfSeq
<1> QED
  BY <1>4, <1>5, <1>6 DEF Current

LEMMA CallToolCases ==
    ASSUME TalkInv, CallTool
    PROVE  /\ step = "call" /\ Current.tool # "execute_trade" /\ UNCHANGED <<vars, verdicts>>
           /\ \/ /\ Current.tool \notin Tools \/ route[Current.tool] = None
                 /\ Settling("not found", None)
              \/ /\ Current.tool \in Tools /\ route[Current.tool] # None
                 /\ \E content \in {"result", "error"} : Settling(content, route[Current.tool])
<1>1. route \in [Tools -> Servers \cup {None}]
  BY DEF TalkInv, TalkTypes
<1>2. step = "call" /\ Current.tool # "execute_trade" /\ UNCHANGED <<vars, verdicts>>
  BY DEF CallTool
<1>3. CASE Current.tool \notin Tools \/ route[Current.tool] = None
  <2>1. Settle("not found", None)
    BY <1>3 DEF CallTool
  <2> QED
    BY <1>2, <1>3, <2>1 DEF Settling, Contents
<1>4. CASE Current.tool \in Tools /\ route[Current.tool] # None
  <2>1. PICK content \in {"result", "error"} : Settle(content, route[Current.tool])
    BY <1>4 DEF CallTool
  <2>2. route[Current.tool] \in Servers \cup {None}
    BY <1>1, <1>4
  <2>3. Settling(content, route[Current.tool])
    BY <1>2, <2>1, <2>2 DEF Settling, Contents
  <2> QED
    BY <1>2, <1>4, <2>3
<1> QED
  BY <1>2, <1>3, <1>4

LEMMA CallTradeCases ==
    ASSUME TalkInv, CallTrade
    PROVE  /\ step = "call" /\ Current.tool = "execute_trade" /\ UNCHANGED verdicts
           /\ \/ ~Acceptable(Decoded(Current.args)) /\ Settling("error", None) /\ UNCHANGED vars
              \/ /\ Acceptable(Decoded(Current.args)) /\ step' = "risk" /\ Waiting
                 /\ \E p \in ParamSets, s \in States : Enter(Decoded(Current.args), p, s)
                 /\ UNCHANGED <<route, fastVars, outcome>>
<1>1. /\ step = "call" /\ Current.tool = "execute_trade" /\ UNCHANGED verdicts
      /\ \/ ~Acceptable(Decoded(Current.args)) /\ Settle("error", None) /\ UNCHANGED vars
         \/ /\ Acceptable(Decoded(Current.args)) /\ step' = "risk"
            /\ \E p \in ParamSets, s \in States : Enter(Decoded(Current.args), p, s)
            /\ UNCHANGED <<route, fastVars, round, asked, pending, messages,
                           toolCalls, outcome>>
  BY DEF CallTrade
<1> QED
  BY <1>1 DEF Settling, Contents, Waiting

LEMMA ReportTradeCases ==
    ASSUME ReportTrade
    PROVE  step = "risk" /\ returned # "no" /\ Settling(Verdict, None)
<1>1. Verdict \in Contents
  BY DEF Verdict, Contents
<1> QED
  BY <1>1 DEF ReportTrade, Settling

\* The conversation moves on in one of three ways.
LEMMA TalkCases ==
    ASSUME TalkInv, CycleNext
    PROVE  \/ \E answer \in Answers : Asking(answer)
           \/ \E content, from : Settling(content, from)
           \/ Waiting
<1>1. CASE GetTools
  BY <1>1 DEF GetTools, End, Waiting, talkVars
<1>2. CASE Evaluate
  BY <1>2 DEF Evaluate, End, Waiting, talkVars
<1>3. CASE Chat
  BY <1>3, ChatCases
<1>4. CASE CallTool
  BY <1>4, CallToolCases
<1>5. CASE CallTrade
  BY <1>5, CallTradeCases
<1>6. CASE Validate
  BY <1>6 DEF Validate, cycleVars, talkVars, Waiting
<1>7. CASE ReportTrade
  BY <1>7, ReportTradeCases
<1> QED
  BY <1>1, <1>2, <1>3, <1>4, <1>5, <1>6, <1>7 DEF CycleNext

LEMMA CountersNext ==
    ASSUME TalkInv, CycleNext
    PROVE  Counters'
<1>1. /\ Len(asked) \in Nat /\ round \in Nat /\ Len(messages) \in Nat /\ Len(toolCalls) \in Nat
      /\ Counters
  BY CycleBounds DEF TalkInv, TalkTypes
<1>2. ASSUME NEW answer \in Answers, Asking(answer)
      PROVE  Counters'
  <2>1. /\ Len(pending) = 0 /\ Done = Len(asked) /\ Done' = Len(asked)
        /\ Len(asked') = Len(asked) + Len(answer)
        /\ Len(pending') = Len(answer) /\ Len(answer) \in Nat \ {0}
        /\ \A i \in 1..Len(answer) : pending'[i] = Len(asked) + i
        /\ Len(messages') = Len(messages) + 1
        /\ pending' \in Seq(Nat)
    BY <1>2, AskingFacts
  <2>2. step' = "call" /\ round' = round + 1 /\ toolCalls' = toolCalls
    BY <1>2 DEF Asking
  <2>3. pending' # <<>>
    BY <2>1, EmptySeq
  <2>4. Len(pending') <= Len(asked') /\ \A i \in 1..Len(pending') : pending'[i] = Done' + i
    BY <1>1, <2>1
  <2>5. Len(messages') = round' + Done' /\ Len(toolCalls') = Done'
    <3>1. Len(messages) = round + Done /\ Len(toolCalls) = Done
      BY <1>1 DEF Counters
    <3> QED
      BY <1>1, <2>1, <2>2, <3>1
  <2>6. step' \in {"call", "risk"} /\ pending' # <<>>
    BY <2>2, <2>3
  <2> QED
    BY <2>4, <2>5, <2>6 DEF Counters
<1>3. ASSUME NEW content, NEW from, Settling(content, from)
      PROVE  Counters'
  <2>1. /\ Len(pending) \in Nat \ {0} /\ Done' = Done + 1
        /\ Done \in Nat /\ Done + 1 <= Len(asked) /\ asked' = asked
        /\ pending' \in Seq(Nat) /\ Len(pending') = Len(pending) - 1
        /\ \A i \in 1..Len(pending') : pending'[i] = pending[i + 1]
        /\ Len(messages') = Len(messages) + 1
        /\ Len(toolCalls') = Len(toolCalls) + 1
    BY <1>3, SettlingFacts
  <2>2. round' = round /\ step' = IF Len(pending) = 1 THEN "chat" ELSE "call"
    BY <1>3 DEF Settling, Settle
  <2>3. step' \in {"call", "risk"} <=> pending' # <<>>
    <3>1. pending' # <<>> => Len(pending') # 0
      BY <2>1, EmptySeq
    <3>2. pending' = <<>> => Len(pending') = 0
      BY EmptySeq
    <3> QED
      BY <2>1, <2>2, <3>1, <3>2
  <2>4. \A i \in 1..Len(pending') : pending'[i] = Done' + i
    BY <1>1, <2>1 DEF Counters
  <2>5. Len(messages') = round' + Done' /\ Len(toolCalls') = Done'
    BY <1>1, <2>1, <2>2 DEF Counters
  <2>6. step' \in {"call", "risk"} <=> pending' # <<>>
    BY <2>3
  <2>7. Len(pending') <= Len(asked')
    BY <1>1, <2>1 DEF Counters
  <2> QED
    BY <2>4, <2>5, <2>6, <2>7 DEF Counters
<1>4. CASE Waiting
  BY <1>1, <1>4 DEF Waiting, Counters, Done
<1> QED
  BY <1>2, <1>3, <1>4, TalkCases

\* Of the servers with a tool there is a last one.
LEMMA LastOfSome ==
    ASSUME NEW n \in Nat, NEW with \in SUBSET (1..n), with # {}
    PROVE  \E i \in with : \A j \in with : j <= i
<1> DEFINE Below == {n - i : i \in with}
<1>1. Below \subseteq Nat /\ Below # {}
  <2>1. \A i \in with : n - i \in Nat
    OBVIOUS
  <2> QED
    BY <2>1
<1>2. PICK x \in Below : \A y \in Below : <<y, x>> \notin OpToRel(<, Nat)
  <2> HIDE DEF Below
  <2> QED
    BY <1>1, WFMin, NatLessThanWellFounded
<1>3. PICK i \in with : x = n - i
  <2>1. x \in Below
    BY <1>2
  <2> QED
    BY <2>1
<1>4. ASSUME NEW j \in with
      PROVE  j <= i
  <2>1. n - j \in Below
    OBVIOUS
  <2>2. <<n - j, x>> \notin OpToRel(<, Nat)
    BY <1>2, <2>1
  <2>3. ~(n - j < x)
    BY <1>1, <2>1, <2>2 DEF OpToRel
  <2> QED
    BY <1>3, <2>3
<1> QED
  BY <1>3, <1>4

\* An order lists every server.
LEMMA OrderListsAll ==
    ASSUME NEW order \in Orders
    PROVE  /\ Cardinality(Servers) \in Nat /\ DOMAIN order = 1..Cardinality(Servers)
           /\ \A i \in DOMAIN order : order[i] \in Servers
           /\ \A s \in Servers : \E i \in DOMAIN order : order[i] = s
<1> DEFINE n == Cardinality(Servers)
<1>1. IsFiniteSet(Servers) /\ n \in Nat
  BY ToolsAssumption, FS_CardinalityType
<1>2. /\ order \in [1..n -> Servers]
      /\ \A i, j \in DOMAIN order : order[i] = order[j] => i = j
  BY DEF Orders
<1>3. IsFiniteSet(1..n) /\ Cardinality(1..n) = n
  <2>1. IsFiniteSet(1..n) /\ Cardinality(1..n) = IF 1 > n THEN 0 ELSE n - 1 + 1
    BY <1>1, FS_Interval
  <2> QED
    BY <1>1, <2>1
<1>4. order \in Injection(1..n, Servers)
  BY <1>2 DEF Injection, IsInjective
<1>5. order \in Surjection(1..n, Servers)
  BY <1>1, <1>3, <1>4, FS_Injection
<1> QED
  BY <1>1, <1>2, <1>5 DEF Surjection

LEMMA MapIsRight ==
    ASSUME NEW order \in Orders
    PROVE  /\ buildToolServerMap(order) \in [Tools -> Servers \cup {None}]
           /\ \A t \in Tools : buildToolServerMap(order)[t] # None =>
                 t \in Provides[buildToolServerMap(order)[t]]
           /\ \A t \in Tools : buildToolServerMap(order)[t] = None =>
                 \A s \in Servers : t \notin Provides[s]
<1> DEFINE With(t) == {i \in DOMAIN order : t \in Provides[order[i]]}
           Last(t) == CHOOSE i \in With(t) : \A j \in With(t) : j <= i
<1>1. /\ Cardinality(Servers) \in Nat /\ DOMAIN order = 1..Cardinality(Servers)
      /\ \A i \in DOMAIN order : order[i] \in Servers
      /\ \A s \in Servers : \E i \in DOMAIN order : order[i] = s
  BY OrderListsAll
<1>2. ASSUME NEW t \in Tools, With(t) # {}
      PROVE  Last(t) \in DOMAIN order /\ t \in Provides[order[Last(t)]]
  <2>1. \E i \in With(t) : \A j \in With(t) : j <= i
    BY <1>1, <1>2, LastOfSome
  <2>2. Last(t) \in With(t)
    BY <2>1
  <2> QED
    BY <2>2
<1>3. buildToolServerMap(order) =
        [t \in Tools |-> IF With(t) = {} THEN None ELSE order[Last(t)]]
  BY DEF buildToolServerMap
<1>4. ASSUME NEW t \in Tools, With(t) = {}
      PROVE  /\ buildToolServerMap(order)[t] = None
             /\ \A s \in Servers : t \notin Provides[s]
  <2>1. ASSUME NEW s \in Servers
        PROVE  t \notin Provides[s]
    <3>1. PICK i \in DOMAIN order : order[i] = s
      BY <1>1
    <3> QED
      BY <1>4, <3>1
  <2> QED
    BY <1>3, <1>4, <2>1
<1>5. ASSUME NEW t \in Tools, With(t) # {}
      PROVE  /\ buildToolServerMap(order)[t] \in Servers
             /\ t \in Provides[buildToolServerMap(order)[t]]
  <2>1. buildToolServerMap(order)[t] = order[Last(t)]
    BY <1>3, <1>5
  <2>2. Last(t) \in DOMAIN order /\ t \in Provides[order[Last(t)]]
    BY <1>2, <1>5
  <2> HIDE DEF Last, With
  <2> QED
    BY <1>1, <2>1, <2>2
<1>6. \A t \in Tools : buildToolServerMap(order)[t] \in Servers \cup {None}
  BY <1>4, <1>5
<1>7. buildToolServerMap(order) = [t \in Tools |-> buildToolServerMap(order)[t]]
  BY <1>3
<1>8. buildToolServerMap(order) \in [Tools -> Servers \cup {None}]
  BY <1>6, <1>7
<1> HIDE DEF With
<1>9. \A t \in Tools : buildToolServerMap(order)[t] # None =>
         t \in Provides[buildToolServerMap(order)[t]]
  BY <1>4, <1>5
<1>10. \A t \in Tools : buildToolServerMap(order)[t] = None =>
          \A s \in Servers : t \notin Provides[s]
  BY <1>4, <1>5, NoneCycleAssumption
<1> QED
  BY <1>8, <1>9, <1>10

LEMMA TypesNext ==
    ASSUME TalkInv, CycleNext
    PROVE  TalkTypes'
<1>1. TalkTypes /\ round \in Nat /\ MaxToolCallRounds \in Nat
  BY CycleBounds DEF TalkInv, TalkTypes
<1>2. /\ round' \in 0..MaxToolCallRounds /\ asked' \in Seq(Asks) /\ pending' \in Seq(Nat)
      /\ messages' \in Seq(Assistant \cup Told)
      /\ toolCalls' \in Seq([call : Nat, error : BOOLEAN])
  <2>1. ASSUME NEW answer \in Answers, Asking(answer)
        PROVE  <1>2!:
    <3>1. /\ asked' \in Seq(Asks) /\ pending' \in Seq(Nat)
          /\ messages' \in Seq(Assistant \cup Told)
      BY <2>1, AskingFacts
    <3>2. toolCalls' = toolCalls /\ round' = round + 1 /\ round < MaxToolCallRounds
      BY <2>1 DEF Asking
    <3> QED
      BY <1>1, <3>1, <3>2 DEF TalkTypes
  <2>2. ASSUME NEW content, NEW from, Settling(content, from)
        PROVE  <1>2!:
    <3>1. /\ pending' \in Seq(Nat) /\ asked' = asked
          /\ messages' \in Seq(Assistant \cup Told)
          /\ toolCalls' \in Seq([call : Nat, error : BOOLEAN])
      BY <2>2, SettlingFacts
    <3>2. round' = round
      BY <2>2 DEF Settling, Settle
    <3> QED
      BY <1>1, <3>1, <3>2 DEF TalkTypes
  <2>3. CASE Waiting
    BY <1>1, <2>3 DEF Waiting, TalkTypes
  <2> QED
    BY <2>1, <2>2, <2>3, TalkCases
<1>3. /\ step' \in {"tools", "fast", "chat", "call", "risk", "done"}
      /\ route' \in [Tools -> Servers \cup {None}]
      /\ outcome' \in {"none", "skipped", "answered", "error"}
  <2>1. CASE GetTools
    <3>1. CASE step' = "done" /\ outcome' = "error" /\ route' = route
      BY <1>1, <3>1 DEF TalkTypes
    <3>2. CASE /\ \E order \in Orders : route' = buildToolServerMap(order)
               /\ step' = IF strategy = <<>> THEN "chat" ELSE "fast"
               /\ outcome' = outcome
      BY <1>1, <3>2, MapIsRight DEF TalkTypes
    <3> QED
      BY <2>1, <3>1, <3>2 DEF GetTools, End
  <2>2. CASE Evaluate
    BY <1>1, <2>2 DEF Evaluate, TalkTypes, End
  <2>3. CASE Chat
    BY <1>1, <2>3, ChatCases DEF TalkTypes, Asking
  <2>4. CASE CallTool
    BY <1>1, <2>4, CallToolCases DEF TalkTypes, Settling, Settle
  <2>5. CASE CallTrade
    BY <1>1, <2>5, CallTradeCases DEF TalkTypes, Settling, Settle
  <2>6. CASE Validate
    BY <1>1, <2>6 DEF Validate, TalkTypes, cycleVars
  <2>7. CASE ReportTrade
    BY <1>1, <2>7, ReportTradeCases DEF TalkTypes, Settling, Settle
  <2> QED
    BY <2>1, <2>2, <2>3, <2>4, <2>5, <2>6, <2>7 DEF CycleNext
<1> QED
  BY <1>2, <1>3 DEF TalkTypes

\* While risk control runs, it runs on the trade the current call asks for.
Risking ==
    step = "risk" =>
        /\ asked[Done + 1].tool = "execute_trade"
        /\ trade = Decoded(asked[Done + 1].args)
        /\ Acceptable(trade)

CycleInv == TalkInv /\ RiskInv /\ Risking

\* A trade that is accepted is one Validate may be called with.
LEMMA AcceptedTrade ==
    ASSUME NEW a \in Asks, a.tool = "execute_trade", Acceptable(Decoded(a.args))
    PROVE  /\ Decoded(a.args) \in Trades /\ a.args # Malformed
           /\ Decoded(a.args).action = a.args.action
           /\ Decoded(a.args).amount = Float64[a.args.amount]
           /\ Decoded(a.args).amount \in 1..MaxInt64
           /\ a.args.amount \in Int
           /\ a.args.amount <= MaxExact => Decoded(a.args).amount = a.args.amount
<1> DEFINE n == a.args.amount
           f == Float64[n]
           t == Decoded(a.args)
<1>1. a.args # Malformed
  BY DEF Acceptable, Decoded
<1>2. t = [action |-> a.args.action, amount |-> f]
  BY <1>1 DEF Decoded
<1>3. n \in Int /\ f \in Int
  BY <1>1, Float64Assumption
<1>4. (n \in 0..MaxExact => f = n) /\ (n < 0 => f < 0) /\ MaxExact \in Nat /\ MaxInt64 \in Nat
  BY <1>1, Float64Assumption, CycleBounds, MaxInt64Assumption
<1>5. t.action # "" /\ t.amount > 0 /\ t.amount <= MaxInt64
  BY DEF Acceptable
<1> HIDE DEF n, f, t
<1>6. t.amount = f /\ t.action = a.args.action
  BY <1>2
<1>7. f \in 1..MaxInt64
  <2>1. f > 0 /\ f <= MaxInt64
    BY <1>5, <1>6, Zenon
  <2> QED
    BY <1>3, <1>4, <2>1
<1>8. t.amount \in 1..MaxInt64
  BY <1>6, <1>7
<1>9. t \in Trades
  BY <1>5, <1>8, TradesAssumption DEF t
<1>10. n <= MaxExact => f = n
  BY <1>3, <1>4, <1>7
<1> QED
  BY <1>1, <1>3, <1>6, <1>8, <1>9, <1>10 DEF n, f, t

LEMMA CycleNextKeepsInv ==
    ASSUME CycleInv, CycleNext
    PROVE  CycleInv'
<1>1. TalkInv'
  BY CountersNext, TypesNext DEF TalkInv, CycleInv
<1>2. RiskInv' /\ Risking'
  <2>1. CASE GetTools
    <3>1. UNCHANGED vars /\ step' # "risk"
      BY <2>1 DEF GetTools, End
    <3> QED
      BY <3>1, RiskFrame DEF CycleInv, Risking
  <2>2. CASE Evaluate
    <3>1. UNCHANGED vars /\ step' # "risk"
      BY <2>2 DEF Evaluate, End
    <3> QED
      BY <3>1, RiskFrame DEF CycleInv, Risking
  <2>3. CASE Chat
    <3>1. UNCHANGED vars /\ step' # "risk"
      BY <2>3 DEF Chat, End
    <3> QED
      BY <3>1, RiskFrame DEF CycleInv, Risking
  <2>4. CASE CallTool
    <3>1. UNCHANGED vars /\ step' # "risk"
      BY <2>4, CallToolCases DEF Settling, Settle, CycleInv
    <3> QED
      BY <3>1, RiskFrame DEF CycleInv, Risking
  <2>5. CASE CallTrade
    <3>1. CASE Settling("error", None) /\ UNCHANGED vars
      <4>1. step' # "risk"
        BY <3>1 DEF Settling, Settle
      <4> QED
        BY <3>1, <4>1, RiskFrame DEF CycleInv, Risking
    <3>2. CASE /\ Acceptable(Decoded(Current.args)) /\ Waiting
               /\ \E p \in ParamSets, s \in States : Enter(Decoded(Current.args), p, s)
      <4>1. /\ Current = asked[Done + 1] /\ Current \in Asks /\ Current.tool = "execute_trade"
        BY <2>5, CurrentCall, CallTradeCases DEF CycleInv
      <4>2. Decoded(Current.args) \in Trades
        BY <3>2, <4>1, AcceptedTrade
      <4>3. PICK p \in ParamSets, s \in States : Enter(Decoded(Current.args), p, s)
        BY <3>2
      <4>4. RiskInv'
        BY <4>2, <4>3, EnterRisk
      <4>5. trade' = Decoded(Current.args)
        BY <4>3 DEF Enter
      <4>6. asked' = asked /\ Done' = Done
        BY <3>2 DEF Waiting, Done
      <4>7. asked'[Done' + 1] = Current
        BY <4>1, <4>6
      <4>8. Risking'
        BY <3>2, <4>1, <4>5, <4>7 DEF Risking, Acceptable
      <4> QED
        BY <4>4, <4>8
    <3> QED
      BY <2>5, <3>1, <3>2, CallTradeCases DEF CycleInv
  <2>6. CASE Validate
    <3>1. RiskInv'
      BY <2>6, ValidateKeepsRisk DEF Validate, CycleInv
    <3>2. UNCHANGED <<trade, step, asked, pending>>
      BY <2>6 DEF Validate, Next, RunRule, LogDecision, args, cycleVars, talkVars
    <3>3. Risking'
      BY <3>2 DEF Risking, CycleInv, Done, Acceptable
    <3> QED
      BY <3>1, <3>3
  <2>7. CASE ReportTrade
    <3>1. AnyTrade \in Trades /\ AnyParams \in ParamSets /\ AnyState \in States
      BY InputsAssumption DEF AnyTrade, AnyParams, AnyState
    <3>2. Enter(AnyTrade, AnyParams, AnyState) /\ step' # "risk"
      BY <2>7 DEF ReportTrade, Settle
    <3>3. RiskInv'
      BY <3>1, <3>2, EnterRisk
    <3> QED
      BY <3>2, <3>3 DEF Risking
  <2> QED
    BY <2>1, <2>2, <2>3, <2>4, <2>5, <2>6, <2>7 DEF CycleNext, CycleInv
<1> QED
  BY <1>1, <1>2 DEF CycleInv

LEMMA CycleInitInv == CycleInit => CycleInv
<1> SUFFICES ASSUME CycleInit
             PROVE  CycleInv
  OBVIOUS
<1>1. AnyTrade \in Trades /\ AnyParams \in ParamSets /\ AnyState \in States
  BY InputsAssumption DEF AnyTrade, AnyParams, AnyState
<1>2. RiskInv
  BY <1>1 DEF CycleInit, RiskInv, TypeOK, RuleLoop, Decisions
<1>3. TalkTypes
  BY CycleBounds DEF CycleInit, TalkTypes
<1>4. Done = 0 /\ Len(pending) = 0
  BY EmptySeq DEF CycleInit, Done
<1>5. Counters
  BY <1>4 DEF CycleInit, Counters
<1>6. Risking
  BY DEF CycleInit, Risking
<1> QED
  BY <1>2, <1>3, <1>5, <1>6 DEF CycleInv, TalkInv

LEMMA CycleStutters ==
    ASSUME CycleInv, UNCHANGED <<vars, cycleVars>>
    PROVE  CycleInv'
<1>1. RiskInv'
  BY RiskFrame DEF CycleInv
<1>2. UNCHANGED <<step, route, round, asked, pending, messages, toolCalls, outcome, trade>>
  BY DEF cycleVars, talkVars, vars
<1>3. TalkInv'
  BY <1>2 DEF CycleInv, TalkInv, TalkTypes, Counters, Done
<1>4. Risking'
  BY <1>2 DEF CycleInv, Risking, Done, Acceptable
<1> QED
  BY <1>1, <1>3, <1>4 DEF CycleInv

\* The conversation and risk control keep in step, whatever the model does.
THEOREM CycleInvariant == CycleSpec => []CycleInv
<1>1. CycleInit => CycleInv
  BY CycleInitInv
<1>2. CycleInv /\ [CycleNext]_<<vars, cycleVars>> => CycleInv'
  BY CycleNextKeepsInv, CycleStutters
<1> QED
  BY <1>1, <1>2, PTL DEF CycleSpec

\* Every approval in a cycle is within the limits of its call, and every
\* rejection is beyond one (ApprovedIffWithinLimits; risk.go).
THEOREM ApprovalsAreRight == CycleSpec => []ApprovedIffWithinLimits
<1>1. CycleInv => ApprovedIffWithinLimits
  BY RiskApproves DEF CycleInv
<1> QED
  BY <1>1, CycleInvariant, PTL

\* Running the rules one after the other, and stopping at the first that is
\* violated, decides as the chain does when it is taken at once, which is how
\* Engine has it (risk.go:85, Validate, and risk.go:192, ValidatePure).
THEOREM RulesDecideAsChain ==
    CycleSpec => [](returned # "no" => decision = ValidatePure(trade, params, state))
<1>1. CycleInv => (returned # "no" => decision = ValidatePure(trade, params, state))
  BY LoopIsChain DEF CycleInv, RiskInv, RuleLoop
<1> QED
  BY <1>1, CycleInvariant, PTL

\* No decision reaches the cycle that is not stored (ReturnedDecisionIsLogged;
\* risk.go, logDecision).
THEOREM DecisionsAreStored == CycleSpec => []ReturnedDecisionIsLogged
<1>1. CycleInv => ReturnedDecisionIsLogged
  BY RiskLogs DEF CycleInv
<1> QED
  BY <1>1, CycleInvariant, PTL

-----------------------------------------------------------------------------
(* The fast path.                                                          *)

MetUpTo(n) == \A i \in 1..n : Holds(strategy[i], readings[i])

\* While conditions are read all that were read are met; nothing has been
\* decided before the model is asked.
FastInv ==
    /\ strategy \in Strategies /\ readings \in Seq(Numbers \cup {Bad}) /\ hit \in BOOLEAN
    /\ step = "tools" => readings = <<>> /\ ~hit
    /\ step = "fast" => ~hit /\ Len(readings) < Len(strategy) /\ MetUpTo(Len(readings))
    /\ step # "done" => outcome = "none"
    /\ FastPathDecides

\* After the fast path nothing more is read.
LEMMA FastKept ==
    ASSUME FastInv, UNCHANGED fastVars, step \in {"chat", "call", "risk"},
           step' \in {"chat", "call", "risk", "done"},
           outcome' # "skipped", step' # "done" => outcome' = outcome
    PROVE  FastInv'
<1>1. outcome = "none" /\ UNCHANGED <<strategy, readings, hit>>
  BY DEF FastInv, fastVars
<1>2. FastPathDecides'
  BY <1>1 DEF FastInv, FastPathDecides, Holds, compare
<1> QED
  BY <1>1, <1>2 DEF FastInv, MetUpTo, Holds, compare

LEMMA EvaluateKeepsFast ==
    ASSUME FastInv, Evaluate
    PROVE  FastInv'
<1> DEFINE n == Len(readings)
           c == strategy[n + 1]
<1>1. /\ step = "fast" /\ hit = FALSE /\ outcome = "none" /\ n < Len(strategy) /\ MetUpTo(n)
      /\ strategy \in Strategies /\ readings \in Seq(Numbers \cup {Bad})
      /\ strategy' = strategy
  BY DEF Evaluate, FastInv
<1>2. n \in Nat /\ Len(strategy) \in Nat
  BY <1>1, StrategiesAssumption
<1>3. PICK v \in Numbers \cup {Bad} :
         /\ readings' = Append(readings, v)
         /\ \/ Proceeds(c, v) /\ UNCHANGED <<step, hit, outcome>>
            \/ /\ v = Bad
               /\ step' = "chat" /\ UNCHANGED <<hit, outcome>>
            \/ /\ v # Bad /\ compare(v, c.op, c.threshold) /\ ~Proceeds(c, v)
               /\ step' = "chat" /\ hit' = TRUE /\ UNCHANGED outcome
            \/ /\ v # Bad /\ ~compare(v, c.op, c.threshold)
               /\ End("skipped") /\ hit' = TRUE
  BY DEF Evaluate
<1>4. /\ readings' \in Seq(Numbers \cup {Bad}) /\ Len(readings') = n + 1
      /\ \A i \in 1..n : readings'[i] = readings[i]
      /\ readings'[n + 1] = v
      /\ DOMAIN readings' = 1..(n + 1) /\ readings' # <<>>
  BY <1>1, <1>2, <1>3, AppendProperties
<1>5. \A i \in 1..n : Holds(strategy'[i], readings'[i])
  BY <1>1, <1>4 DEF MetUpTo
<1>6. Holds(strategy'[n + 1], readings'[n + 1]) <=> v # Bad /\ compare(v, c.op, c.threshold)
  BY <1>1, <1>4 DEF Holds
<1>7. Proceeds(c, v) <=> v # Bad /\ compare(v, c.op, c.threshold) /\ n + 1 < Len(strategy)
  BY DEF Proceeds
<1> HIDE DEF c
<1>8. \A i \in DOMAIN readings' : i < Len(readings') => Holds(strategy'[i], readings'[i])
  BY <1>2, <1>4, <1>5
<1>9. \A i \in 1..(n + 1) : i \in 1..n \/ i = n + 1
  BY <1>2
<1> DEFINE held == Holds(strategy'[n + 1], readings'[n + 1])
<1>10. CASE Proceeds(c, v) /\ UNCHANGED <<step, hit, outcome>>
  <2>1. /\ held /\ Len(readings') < Len(strategy')
        /\ step' = "fast" /\ hit' = FALSE /\ outcome' = "none"
    BY <1>1, <1>4, <1>6, <1>7, <1>10
  <2>2. MetUpTo(Len(readings))'
    BY <1>4, <1>5, <1>9, <2>1 DEF MetUpTo
  <2>3. FastPathDecides'
    BY <1>4, <1>8, <2>1 DEF FastPathDecides
  <2> QED
    BY <1>1, <1>4, <2>1, <2>2, <2>3 DEF FastInv
<1>11. CASE v = Bad /\ step' = "chat" /\ UNCHANGED <<hit, outcome>>
  <2>1. FastPathDecides'
    BY <1>1, <1>4, <1>8, <1>11 DEF FastPathDecides
  <2> QED
    BY <1>1, <1>4, <1>11, <2>1 DEF FastInv
<1>12. CASE /\ v # Bad /\ compare(v, c.op, c.threshold) /\ ~Proceeds(c, v)
            /\ step' = "chat" /\ hit' = TRUE /\ UNCHANGED outcome
  <2>1. held /\ n + 1 = Len(strategy)
    BY <1>1, <1>2, <1>6, <1>7, <1>12
  <2>2. \A i \in DOMAIN readings' : Holds(strategy'[i], readings'[i])
    BY <1>4, <1>5, <1>9, <2>1
  <2>3. FastPathDecides'
    BY <1>1, <1>4, <1>8, <1>12, <2>1, <2>2 DEF FastPathDecides
  <2> QED
    BY <1>1, <1>4, <1>12, <2>3 DEF FastInv
<1>13. CASE /\ v # Bad /\ ~compare(v, c.op, c.threshold)
            /\ End("skipped") /\ hit' = TRUE
  <2>1. ~held /\ step' = "done" /\ outcome' = "skipped"
    BY <1>6, <1>13 DEF End
  <2>2. FastPathDecides'
    BY <1>4, <1>8, <1>13, <2>1 DEF FastPathDecides
  <2> QED
    BY <1>1, <1>4, <1>13, <2>1, <2>2 DEF FastInv
<1> QED
  BY <1>3, <1>10, <1>11, <1>12, <1>13

LEMMA FastNext ==
    ASSUME CycleInv, FastInv, CycleNext
    PROVE  FastInv'
<1>1. TalkInv /\ TalkTypes
  BY DEF CycleInv, TalkInv
<1>2. CASE GetTools
  <2>1. /\ step = "tools" /\ readings = <<>> /\ ~hit /\ outcome = "none"
        /\ UNCHANGED <<strategy, readings, hit>> /\ strategy \in Strategies
    BY <1>2 DEF GetTools, fastVars, FastInv
  <2>2. Len(readings) = 0 /\ DOMAIN readings = {}
    BY <2>1
  <2>3. strategy \in Seq([tool : Tools, op : {"<", "<=", ">", ">=", "=="}, threshold : Int])
    BY <2>1, StrategiesAssumption
  <2>4. strategy # <<>> => 0 < Len(strategy)
    BY <2>3, EmptySeq
  <2>5. \/ step' = "done" /\ outcome' = "error"
        \/ step' \in {"chat", "fast"} /\ outcome' = "none" /\ (step' = "fast" => strategy # <<>>)
    BY <1>2, <2>1 DEF GetTools, End
  <2>6. FastPathDecides'
    BY <2>1, <2>2, <2>5 DEF FastPathDecides
  <2>7. MetUpTo(Len(readings))'
    BY <2>1, <2>2 DEF MetUpTo
  <2> QED
    BY <2>1, <2>2, <2>4, <2>5, <2>6, <2>7 DEF FastInv
<1>3. CASE Evaluate
  BY <1>3, EvaluateKeepsFast
<1>4. ASSUME NEW content, NEW from, Settling(content, from)
      PROVE  FastInv'
  <2>1. /\ step' \in {"chat", "call"} /\ outcome' = outcome /\ UNCHANGED fastVars
        /\ step \in {"call", "risk"}
    BY <1>4 DEF Settling, Settle
  <2> QED
    BY <2>1, FastKept DEF FastInv
<1>5. CASE Chat
  <2>1. /\ step = "chat" /\ UNCHANGED fastVars
        /\ \/ step' = "call" /\ outcome' = outcome
           \/ step' = "done" /\ outcome' \in {"answered", "error"}
    BY <1>5 DEF Chat, End
  <2> QED
    BY <2>1, FastKept DEF FastInv
<1>6. CASE CallTool
  BY <1>1, <1>4, <1>6, CallToolCases
<1>7. CASE CallTrade
  <2>1. CASE step' = "risk" /\ UNCHANGED <<fastVars, outcome>>
    BY <1>1, <1>7, <2>1, CallTradeCases, FastKept DEF FastInv
  <2> QED
    BY <1>1, <1>4, <1>7, <2>1, CallTradeCases
<1>8. CASE Validate
  BY <1>8, FastKept DEF Validate, cycleVars, FastInv
<1>9. CASE ReportTrade
  BY <1>4, <1>9, ReportTradeCases
<1> QED
  BY <1>2, <1>3, <1>5, <1>6, <1>7, <1>8, <1>9 DEF CycleNext

LEMMA FastInvariant == CycleSpec => []FastInv
<1>1. CycleInit => FastInv
  <2> SUFFICES ASSUME CycleInit
               PROVE  FastInv
    OBVIOUS
  <2>1. /\ readings = <<>> /\ DOMAIN readings = {} /\ hit = FALSE /\ outcome = "none"
        /\ step = "tools" /\ strategy \in Strategies
    BY DEF CycleInit
  <2>2. FastPathDecides
    BY <2>1 DEF FastPathDecides
  <2>3. readings \in Seq(Numbers \cup {Bad})
    BY <2>1
  <2> QED
    BY <2>1, <2>2, <2>3 DEF FastInv
<1>2. CycleInv /\ FastInv /\ [CycleNext]_<<vars, cycleVars>> => FastInv'
  <2> SUFFICES ASSUME CycleInv, FastInv, UNCHANGED <<vars, cycleVars>>
               PROVE  FastInv'
    BY FastNext
  <2> QED
    BY DEF cycleVars, fastVars, FastInv, FastPathDecides, MetUpTo, Holds, compare
<1> QED
  BY <1>1, <1>2, CycleInvariant, PTL DEF CycleSpec

\* The fast path ends a cycle, or hands it to the model, for the reason its
\* conditions give (FastPathDecides; fastpath.go, engine.go:215-242).
THEOREM FastPathIsRight == CycleSpec => []FastPathDecides
<1>1. FastInv => FastPathDecides
  BY DEF FastInv
<1> QED
  BY <1>1, FastInvariant, PTL

-----------------------------------------------------------------------------
(* The decisions and what the model is told of them.                       *)

\* The decision is on what the call says.
Faithful(v, call) ==
    /\ call.tool = "execute_trade" /\ call.args # Malformed
    /\ v.trade.action = call.args.action
    /\ v.trade.amount \in 1..MaxInt64
    /\ call.args.amount <= MaxExact => v.trade.amount = call.args.amount

Decided(m, among) ==
    (m.role = "tool" /\ m.content \in {"executed", "rejected"}) =>
        \E v \in among : /\ v.call = m.call
                         /\ v.approved <=> m.content = "executed"

VerdictInv ==
    /\ \A v \in verdicts : v.call \in 1..Done /\ Faithful(v, asked[v.call])
    /\ \A k \in 1..Len(messages) : Decided(messages[k], verdicts)
    /\ \A v, w \in verdicts : v.call = w.call => v = w

LEMMA VerdictsMean ==
    ASSUME TalkInv, VerdictInv
    PROVE  TradesAsAsked
<1>1. DOMAIN messages = 1..Len(messages)
  BY DEF TalkInv, TalkTypes
<1>2. \A v \in verdicts : Faithful(v, asked[v.call])
  BY DEF VerdictInv
<1>3. \A k \in DOMAIN messages : Decided(messages[k], verdicts)
  BY <1>1 DEF VerdictInv
<1>4. \A v, w \in verdicts : v.call = w.call => v = w
  BY DEF VerdictInv
<1>5. TradesAsAsked!1
  BY <1>2 DEF Faithful
<1>6. TradesAsAsked!2
  BY <1>3 DEF Decided
<1> QED
  BY <1>4, <1>5, <1>6 DEF TradesAsAsked

\* A call is settled without a decision.
LEMMA SettledUndecided ==
    ASSUME TalkInv, VerdictInv, NEW content, NEW from, Settling(content, from),
           content \notin {"executed", "rejected"}, verdicts' = verdicts
    PROVE  VerdictInv'
<1>1. /\ Done \in Nat /\ Done' = Done + 1 /\ asked' = asked
      /\ Len(messages') = Len(messages) + 1 /\ Len(messages) \in Nat
      /\ \A k \in 1..Len(messages) : messages'[k] = messages[k]
      /\ messages'[Len(messages) + 1] = [role |-> "tool", call |-> Done + 1,
                                         content |-> content, from |-> from]
  <2>1. Len(messages) \in Nat
    BY DEF TalkInv, TalkTypes
  <2> QED
    BY <2>1, SettlingFacts
<1>2. ASSUME NEW v \in verdicts'
      PROVE  v.call \in 1..Done' /\ Faithful(v, asked'[v.call])
  <2>1. v.call \in 1..Done /\ Faithful(v, asked[v.call])
    BY <1>2 DEF VerdictInv
  <2>2. v.call \in 1..Done'
    BY <1>1, <2>1
  <2> QED
    BY <1>1, <2>1, <2>2
<1>3. \A k \in 1..Len(messages') : Decided(messages'[k], verdicts')
  <2>1. \A k \in 1..Len(messages) : Decided(messages'[k], verdicts')
    BY <1>1 DEF VerdictInv, Decided
  <2>2. Decided(messages'[Len(messages) + 1], verdicts')
    BY <1>1 DEF Decided
  <2> QED
    BY <1>1, <2>1, <2>2
<1> QED
  BY <1>2, <1>3 DEF VerdictInv, Faithful

LEMMA DecisionIsBoolean ==
    ASSUME NEW d \in Decisions
    PROVE  d.approved \in BOOLEAN
<1>1. CASE d = Approval
  BY <1>1 DEF Approval
<1>2. ASSUME NEW rule, d = Rejection(rule)
      PROVE  d.approved = FALSE
  BY <1>2 DEF Rejection
<1> QED
  BY <1>1, <1>2 DEF Decisions

\* A call is settled with the decision Validate has returned.
LEMMA SettledDecided ==
    ASSUME CycleInv, VerdictInv, ReportTrade
    PROVE  VerdictInv'
<1>1. TalkInv /\ step = "risk" /\ Settling(Verdict, None)
  BY ReportTradeCases DEF CycleInv
<1>2. CASE returned = "error"
  <2>1. Verdict = "error" /\ verdicts' = verdicts
    BY <1>2 DEF Verdict, ReportTrade
  <2> QED
    BY <1>1, <2>1, SettledUndecided
<1>3. CASE returned # "error"
  <2> DEFINE new == [call |-> Done + 1, trade |-> trade, approved |-> decision.approved]
             call == asked[Done + 1]
             m == [role |-> "tool", call |-> Done + 1, content |-> Verdict, from |-> None]
  <2>1. Head(pending) = Done + 1 /\ call \in Asks
    BY <1>1, CurrentCall
  <2>2. verdicts' = verdicts \cup {new}
    BY <1>3, <2>1 DEF ReportTrade
  <2>3. /\ Done \in Nat /\ Done' = Done + 1 /\ asked' = asked
        /\ Len(messages') = Len(messages) + 1 /\ Len(messages) \in Nat
        /\ \A k \in 1..Len(messages) : messages'[k] = messages[k]
        /\ messages'[Len(messages) + 1] = m
    <3>1. Len(messages) \in Nat
      BY <1>1 DEF TalkInv, TalkTypes
    <3> QED
      BY <1>1, <3>1, SettlingFacts
  <2>4. Faithful(new, call)
    <3>1. call.tool = "execute_trade" /\ trade = Decoded(call.args) /\ Acceptable(trade)
      BY <1>1 DEF CycleInv, Risking
    <3> HIDE DEF call
    <3>2. /\ call.args # Malformed
          /\ trade.action = call.args.action
          /\ trade.amount \in 1..MaxInt64
          /\ call.args.amount <= MaxExact => trade.amount = call.args.amount
      BY <2>1, <3>1, AcceptedTrade
    <3>3. new.trade = trade
      OBVIOUS
    <3> QED
      BY <3>1, <3>2, <3>3 DEF Faithful
  <2>5. decision.approved \in BOOLEAN
    BY DecisionIsBoolean DEF CycleInv, RiskInv, TypeOK
  <2>6. new.call = Done + 1 /\ (new.approved <=> Verdict = "executed")
    BY <1>3, <2>5 DEF Verdict
  <2>7. asked'[new.call] = call
    BY <2>3, <2>6
  <2> HIDE DEF new, call
  <2>8. ASSUME NEW v \in verdicts'
        PROVE  v.call \in 1..Done' /\ Faithful(v, asked'[v.call])
    <3>1. CASE v = new
      BY <2>3, <2>4, <2>6, <2>7, <3>1
    <3>2. CASE v \in verdicts
      <4>1. v.call \in 1..Done /\ Faithful(v, asked[v.call])
        BY <3>2 DEF VerdictInv
      <4>2. v.call \in 1..Done'
        BY <2>3, <4>1
      <4> QED
        BY <2>3, <4>1, <4>2
    <3> QED
      BY <2>2, <2>8, <3>1, <3>2
  <2>9. \A v, w \in verdicts' : v.call = w.call => v = w
    BY <2>2, <2>3, <2>6 DEF VerdictInv
  <2>10. \A k \in 1..Len(messages') : Decided(messages'[k], verdicts')
    <3>1. \A k \in 1..Len(messages) : Decided(messages'[k], verdicts')
      BY <2>2, <2>3 DEF VerdictInv, Decided
    <3>2. m.call = Done + 1 /\ m.content = Verdict
      OBVIOUS
    <3> HIDE DEF m
    <3>3. Decided(messages'[Len(messages) + 1], verdicts')
      BY <2>2, <2>3, <2>6, <3>2 DEF Decided
    <3> QED
      BY <2>3, <3>1, <3>3
  <2> QED
    BY <2>8, <2>9, <2>10 DEF VerdictInv, Faithful
<1> QED
  BY <1>2, <1>3

\* The conversation is as it was.
LEMMA VerdictFrame ==
    ASSUME VerdictInv, UNCHANGED <<asked, pending, messages, verdicts>>
    PROVE  VerdictInv'
BY DEF VerdictInv, Decided, Done, Faithful

LEMMA VerdictNext ==
    ASSUME CycleInv, VerdictInv, CycleNext
    PROVE  VerdictInv'
<1>1. TalkInv
  BY DEF CycleInv
<1>2. ASSUME NEW answer \in Answers, Asking(answer)
      PROVE  VerdictInv'
  <2>1. /\ Done = Len(asked) /\ Done' = Len(asked) /\ verdicts' = verdicts
        /\ \A i \in 1..Len(asked) : asked'[i] = asked[i]
        /\ Len(messages') = Len(messages) + 1 /\ Len(messages) \in Nat
        /\ \A k \in 1..Len(messages) : messages'[k] = messages[k]
        /\ messages'[Len(messages) + 1] = [role |-> "assistant", calls |-> pending']
    <3>1. Len(messages) \in Nat
      BY <1>1 DEF TalkInv, TalkTypes
    <3>2. verdicts' = verdicts
      BY <1>2 DEF Asking
    <3> QED
      BY <1>1, <1>2, <3>1, <3>2, AskingFacts
  <2>2. ASSUME NEW v \in verdicts'
        PROVE  v.call \in 1..Done' /\ Faithful(v, asked'[v.call])
    <3>1. v.call \in 1..Done /\ Faithful(v, asked[v.call])
      BY <2>1, <2>2 DEF VerdictInv
    <3>2. v.call \in 1..Done' /\ asked'[v.call] = asked[v.call]
      BY <2>1, <3>1
    <3> QED
      BY <3>1, <3>2
  <2>3. \A k \in 1..Len(messages') : Decided(messages'[k], verdicts')
    <3>1. \A k \in 1..Len(messages) : Decided(messages'[k], verdicts')
      BY <2>1 DEF VerdictInv, Decided
    <3>2. Decided(messages'[Len(messages) + 1], verdicts')
      BY <2>1 DEF Decided
    <3> QED
      BY <2>1, <3>1, <3>2
  <2> QED
    BY <2>1, <2>2, <2>3 DEF VerdictInv, Faithful
<1>3. CASE GetTools
  BY <1>3, VerdictFrame DEF GetTools, talkVars
<1>4. CASE Evaluate
  BY <1>4, VerdictFrame DEF Evaluate, talkVars
<1>5. CASE Chat
  BY <1>2, <1>5, ChatCases, VerdictFrame DEF Waiting
<1>6. CASE CallTool
  BY <1>1, <1>6, CallToolCases, SettledUndecided
<1>7. CASE CallTrade
  BY <1>1, <1>7, CallTradeCases, SettledUndecided, VerdictFrame DEF Waiting
<1>8. CASE Validate
  BY <1>8, VerdictFrame DEF Validate, cycleVars, talkVars
<1>9. CASE ReportTrade
  BY <1>9, SettledDecided
<1> QED
  BY <1>3, <1>4, <1>5, <1>6, <1>7, <1>8, <1>9 DEF CycleNext

LEMMA VerdictInvariant == CycleSpec => []VerdictInv
<1>1. CycleInit => VerdictInv
  BY DEF CycleInit, VerdictInv
<1>2. CycleInv /\ VerdictInv /\ [CycleNext]_<<vars, cycleVars>> => VerdictInv'
  BY VerdictNext, VerdictFrame DEF cycleVars, talkVars
<1> QED
  BY <1>1, <1>2, CycleInvariant, PTL DEF CycleSpec

\* Every decision is on what a well-formed call asks for, and the model is told
\* of each as it was taken (TradesAsAsked; engine.go, handleTradeToolCall).
THEOREM TradesAreAsAsked == CycleSpec => []TradesAsAsked
<1>1. CycleInv /\ VerdictInv => TradesAsAsked
  BY VerdictsMean DEF CycleInv
<1> QED
  BY <1>1, CycleInvariant, VerdictInvariant, PTL

-----------------------------------------------------------------------------
(* The conversation is well-formed.                                        *)

\* Once the tools are listed, the map misses only what no server provides.
RouteInv ==
    /\ \A t \in Tools : route[t] # None => t \in Provides[route[t]]
    /\ step \in {"fast", "chat", "call", "risk"} =>
          \A t \in Tools : route[t] = None => \A s \in Servers : t \notin Provides[s]

\* Who answers a call of this tool, and when there is nobody.
FromWhom(content, from, tool) ==
    /\ from # None => tool \in Provides[from]
    /\ content = "not found" => \A s \in Servers : tool \notin Provides[s]

Record(id, content) == [call |-> id, error |-> content \in {"error", "not found"}]

\* Message m and record r are the answer to call id.
Right(m, r, id, call) ==
    /\ m.role = "tool" /\ m.call = id
    /\ r = Record(id, m.content)
    /\ FromWhom(m.content, m.from, call.tool)

\* The place of a call's answer is fixed when the call is made: calls are
\* answered in order, one message each.
CallInPlace(place, id) ==
    /\ id \in 1..Len(asked)
    /\ id > Done => place = Len(messages) + id - Done
    /\ id <= Done => /\ place \in 1..Len(messages)
                     /\ Right(messages[place], toolCalls[id], id, asked[id])

InPlace ==
    \A k \in 1..Len(messages) : messages[k].role = "assistant" =>
        \A i \in 1..Len(messages[k].calls) : CallInPlace(k + i, messages[k].calls[i])

AnswerInv == RouteInv /\ InPlace

\* Only the model's messages hold calls.
LEMMA CallsOfMessage ==
    ASSUME TalkTypes, NEW k \in 1..Len(messages), messages[k].role = "assistant"
    PROVE  /\ messages[k].calls \in Seq(Nat)
           /\ DOMAIN messages[k].calls = 1..Len(messages[k].calls)
           /\ \A i \in 1..Len(messages[k].calls) : messages[k].calls[i] \in Nat
<1>1. messages[k] \in Assistant \cup Told
  BY ElementOfSeq DEF TalkTypes
<1>2. messages[k] \in Assistant
  BY <1>1 DEF Told
<1>3. messages[k].calls \in Seq(Nat)
  BY <1>2 DEF Assistant
<1> QED
  BY <1>3, LenProperties, ElementOfSeq

LEMMA PlacesMean ==
    ASSUME TalkInv, InPlace
    PROVE  CallsAnswered
<1> SUFFICES ASSUME step = "chat"
             PROVE  CallsAnswered
  BY DEF CallsAnswered
<1>1. TalkTypes /\ pending = <<>> /\ Len(pending) = 0
  BY EmptySeq DEF TalkInv, Counters
<1>2. Done = Len(asked) /\ Len(asked) \in Nat
  BY <1>1 DEF Done, TalkTypes
<1>3. Len(messages) = round + Len(asked) /\ Len(toolCalls) = Len(asked)
  BY <1>2 DEF TalkInv, Counters
<1>4. ASSUME NEW k \in DOMAIN messages, messages[k].role = "assistant",
             NEW i \in DOMAIN messages[k].calls
      PROVE  Right(messages[k + i], toolCalls[messages[k].calls[i]],
                   messages[k].calls[i], asked[messages[k].calls[i]])
  <2>1. k \in 1..Len(messages)
    BY <1>1 DEF TalkTypes
  <2>2. i \in 1..Len(messages[k].calls) /\ messages[k].calls[i] \in Nat
    BY <1>1, <1>4, <2>1, CallsOfMessage
  <2>3. CallInPlace(k + i, messages[k].calls[i])
    BY <1>4, <2>1, <2>2 DEF InPlace
  <2>4. messages[k].calls[i] <= Done
    BY <1>2, <2>2, <2>3 DEF CallInPlace
  <2> QED
    BY <2>3, <2>4 DEF CallInPlace
<1> QED
  BY <1>3, <1>4 DEF CallsAnswered, Right, FromWhom, Record

LEMMA AskedInPlace ==
    ASSUME TalkInv, InPlace, NEW answer \in Answers, Asking(answer)
    PROVE  InPlace'
<1>1. /\ Done = Len(asked) /\ Done' = Len(asked)
      /\ Len(asked') = Len(asked) + Len(answer)
      /\ \A i \in 1..Len(asked) : asked'[i] = asked[i]
      /\ Len(pending') = Len(answer) /\ Len(answer) \in Nat \ {0}
      /\ \A i \in 1..Len(answer) : pending'[i] = Len(asked) + i
      /\ Len(messages') = Len(messages) + 1
      /\ \A k \in 1..Len(messages) : messages'[k] = messages[k]
      /\ messages'[Len(messages) + 1] = [role |-> "assistant", calls |-> pending']
  BY AskingFacts
<1>2. TalkTypes /\ Len(asked) \in Nat /\ Len(messages) \in Nat /\ toolCalls' = toolCalls
  BY DEF TalkInv, TalkTypes, Asking
<1>3. ASSUME NEW k \in 1..Len(messages'), messages'[k].role = "assistant",
             NEW i \in 1..Len(messages'[k].calls)
      PROVE  CallInPlace(k + i, messages[k].calls[i])'
  <2>1. CASE k \in 1..Len(messages)
    <3> DEFINE id == messages[k].calls[i]
    <3>1. messages'[k] = messages[k]
      BY <1>1, <2>1
    <3>2. CallInPlace(k + i, id) /\ id \in Nat
      BY <1>2, <1>3, <2>1, <3>1, CallsOfMessage DEF InPlace
    <3>6. id' = id
      BY <3>1
    <3> HIDE DEF id
    <3>3. /\ id \in 1..Len(asked) /\ k + i \in 1..Len(messages)
          /\ Right(messages[k + i], toolCalls[id], id, asked[id])
      BY <1>1, <1>2, <3>2 DEF CallInPlace
    <3>4. /\ id \in 1..Len(asked') /\ id <= Done' /\ k + i \in 1..Len(messages')
          /\ messages'[k + i] = messages[k + i] /\ asked'[id] = asked[id]
      BY <1>1, <1>2, <3>2, <3>3
    <3>5. CallInPlace(k + i, id)'
      BY <1>1, <1>2, <3>2, <3>3, <3>4, <3>6 DEF CallInPlace
    <3> QED
      BY <3>5 DEF id
  <2>2. CASE k = Len(messages) + 1
    <3>1. messages'[k].calls = pending'
      BY <1>1, <2>2
    <3>2. i \in 1..Len(answer)
      BY <1>1, <1>3, <3>1
    <3>3. messages'[k].calls[i] = Len(asked) + i
      BY <1>1, <3>1, <3>2
    <3> QED
      BY <1>1, <1>2, <2>2, <3>2, <3>3 DEF CallInPlace
  <2> QED
    BY <1>1, <1>2, <1>3, <2>1, <2>2
<1> QED
  BY <1>3 DEF InPlace

LEMMA SettledInPlace ==
    ASSUME TalkInv, InPlace, NEW content, NEW from, Settling(content, from),
           FromWhom(content, from, asked[Done + 1].tool)
    PROVE  InPlace'
<1>1. /\ Done \in Nat /\ Done' = Done + 1 /\ Done + 1 <= Len(asked) /\ asked' = asked
      /\ Len(asked) \in Nat
      /\ Len(messages') = Len(messages) + 1
      /\ \A k \in 1..Len(messages) : messages'[k] = messages[k]
      /\ messages'[Len(messages) + 1] = [role |-> "tool", call |-> Done + 1,
                                         content |-> content, from |-> from]
      /\ Len(toolCalls') = Len(toolCalls) + 1
      /\ \A k \in 1..Len(toolCalls) : toolCalls'[k] = toolCalls[k]
      /\ toolCalls'[Len(toolCalls) + 1] =
            Record(Done + 1, content)
  BY SettlingFacts DEF Record
<1>2. TalkTypes /\ Len(messages) \in Nat /\ Len(toolCalls) = Done
  BY DEF TalkInv, TalkTypes, Counters
<1>3. Right(messages'[Len(messages) + 1], toolCalls'[Done + 1], Done + 1, asked[Done + 1])
  BY <1>1, <1>2 DEF Right
<1>4. ASSUME NEW k \in 1..Len(messages'), messages'[k].role = "assistant",
             NEW i \in 1..Len(messages'[k].calls)
      PROVE  CallInPlace(k + i, messages[k].calls[i])'
  <2> DEFINE id == messages[k].calls[i]
  <2>1. k \in 1..Len(messages)
    <3>1. messages'[Len(messages) + 1].role = "tool"
      BY <1>1
    <3> QED
      BY <1>1, <1>2, <1>4, <3>1
  <2>2. messages'[k] = messages[k]
    BY <1>1, <2>1
  <2>3. CallInPlace(k + i, id) /\ id \in Nat /\ i \in Nat
    <3>1. messages[k].role = "assistant" /\ i \in 1..Len(messages[k].calls)
      BY <1>4, <2>2
    <3>2. CallInPlace(k + i, id)
      BY <2>1, <3>1 DEF InPlace
    <3>3. messages[k].calls \in Seq(Nat) /\ id \in Nat
      BY <1>2, <2>1, <3>1, CallsOfMessage
    <3>4. i \in Nat
      BY <3>1, <3>3
    <3> QED
      BY <3>2, <3>3, <3>4
  <2>8. id' = id
    BY <2>2
  <2> HIDE DEF id
  <2>4. id \in 1..Len(asked')
    BY <1>1, <2>3 DEF CallInPlace
  <2>5. CASE id > Done + 1
    <3>1. k + i = Len(messages) + id - Done
      BY <1>1, <2>3, <2>5 DEF CallInPlace
    <3>2. Len(messages') + id - Done' = Len(messages) + id - Done
      <4>1. \A a, b, c \in Nat : (a + 1) + b - (c + 1) = a + b - c
        OBVIOUS
      <4>2. Len(messages') = Len(messages) + 1 /\ Done' = Done + 1 /\ Done \in Nat
        BY <1>1
      <4>3. (Len(messages) + 1) + id - (Done + 1) = Len(messages) + id - Done
        BY <1>2, <2>3, <4>1, <4>2
      <4> QED
        BY <4>2, <4>3
    <3> QED
      BY <1>1, <2>3, <2>4, <2>8, <2>5, <3>1, <3>2 DEF CallInPlace, id
  <2>6. CASE id = Done + 1
    <3>1. k + i = Len(messages) + 1
      BY <1>1, <1>2, <2>3, <2>6 DEF CallInPlace
    <3>2. Right(messages'[k + i], toolCalls'[id], id, asked'[id])
      BY <1>1, <1>3, <2>6, <3>1
    <3>3. k + i \in 1..Len(messages')
      BY <1>1, <1>2, <3>1
    <3> QED
      BY <1>1, <2>3, <2>4, <2>8, <2>6, <3>2, <3>3 DEF CallInPlace, id
  <2>7. CASE id <= Done
    <3>1. k + i \in 1..Len(messages) /\ Right(messages[k + i], toolCalls[id], id, asked[id])
      BY <2>3, <2>7 DEF CallInPlace
    <3>2. id \in 1..Len(toolCalls)
      BY <1>2, <2>3, <2>7 DEF CallInPlace
    <3>3. messages'[k + i] = messages[k + i] /\ toolCalls'[id] = toolCalls[id]
      BY <1>1, <3>1, <3>2
    <3>4. k + i \in 1..Len(messages')
      BY <1>1, <1>2, <3>1
    <3> QED
      BY <1>1, <2>3, <2>4, <2>8, <2>7, <3>1, <3>3, <3>4 DEF CallInPlace, id
  <2> QED
    BY <1>1, <2>3, <2>5, <2>6, <2>7 DEF id
<1> QED
  BY <1>4 DEF InPlace

LEMMA PlaceFrame ==
    ASSUME InPlace, UNCHANGED <<asked, pending, messages, toolCalls>>
    PROVE  InPlace'
BY DEF InPlace, CallInPlace, Done

LEMMA RouteNext ==
    ASSUME TalkInv, RouteInv, CycleNext
    PROVE  RouteInv'
<1>1. CASE GetTools
  <2>1. CASE /\ \E order \in Orders : route' = buildToolServerMap(order)
    BY <2>1, MapIsRight DEF RouteInv
  <2>2. CASE step' = "done" /\ route' = route
    BY <2>2 DEF RouteInv
  <2> QED
    BY <1>1, <2>1, <2>2 DEF GetTools, End
<1>2. CASE step \in {"fast", "chat", "call", "risk"} /\ route' = route
  BY <1>2 DEF RouteInv
<1>3. ASSUME NEW content, NEW from, Settling(content, from)
      PROVE  RouteInv'
  BY <1>2, <1>3 DEF Settling, Settle
<1>4. CASE Evaluate
  BY <1>2, <1>4 DEF Evaluate
<1>5. CASE Chat
  BY <1>2, <1>5 DEF Chat
<1>6. CASE CallTool
  BY <1>3, <1>6, CallToolCases
<1>7. CASE CallTrade
  BY <1>2, <1>3, <1>7, CallTradeCases
<1>8. CASE Validate
  BY <1>2, <1>8 DEF Validate, cycleVars
<1>9. CASE ReportTrade
  BY <1>3, <1>9, ReportTradeCases
<1> QED
  BY <1>1, <1>4, <1>5, <1>6, <1>7, <1>8, <1>9 DEF CycleNext

LEMMA PlaceNext ==
    ASSUME TalkInv, AnswerInv, CycleNext
    PROVE  InPlace'
<1>1. InPlace /\ RouteInv /\ route \in [Tools -> Servers \cup {None}]
  BY DEF AnswerInv, TalkInv, TalkTypes
<1>2. CASE GetTools
  BY <1>1, <1>2, PlaceFrame DEF GetTools, talkVars
<1>3. CASE Evaluate
  BY <1>1, <1>3, PlaceFrame DEF Evaluate, talkVars
<1>4. CASE Chat
  BY <1>1, <1>4, ChatCases, AskedInPlace, PlaceFrame DEF Waiting
<1>5. CASE CallTool
  <2> DEFINE tool == Current.tool
  <2>1. step = "call" /\ Current = asked[Done + 1]
    BY <1>5, CurrentCall, CallToolCases
  <2>2. CASE (tool \notin Tools \/ route[tool] = None) /\ Settling("not found", None)
    <3>1. \A s \in Servers : tool \notin Provides[s]
      BY <1>1, <2>1, <2>2, ToolsAssumption DEF RouteInv
    <3>2. FromWhom("not found", None, tool)
      BY <3>1 DEF FromWhom
    <3> QED
      BY <1>1, <2>1, <2>2, <3>2, SettledInPlace
  <2>3. ASSUME NEW content \in {"result", "error"}, tool \in Tools, route[tool] # None,
               Settling(content, route[tool])
        PROVE  InPlace'
    <3>1. tool \in Provides[route[tool]]
      BY <1>1, <2>3 DEF RouteInv
    <3>2. FromWhom(content, route[tool], tool)
      BY <3>1 DEF FromWhom
    <3> QED
      BY <1>1, <2>1, <2>3, <3>2, SettledInPlace
  <2> QED
    BY <1>5, <2>2, <2>3, CallToolCases
<1>6. CASE CallTrade
  <2>1. \A tool : FromWhom("error", None, tool)
    BY DEF FromWhom
  <2> QED
    BY <1>1, <1>6, <2>1, CallTradeCases, SettledInPlace, PlaceFrame DEF Waiting
<1>7. CASE Validate
  BY <1>1, <1>7, PlaceFrame DEF Validate, cycleVars, talkVars
<1>8. CASE ReportTrade
  <2>1. Verdict # "not found"
    BY DEF Verdict
  <2>2. \A tool : FromWhom(Verdict, None, tool)
    BY <2>1 DEF FromWhom
  <2> QED
    BY <1>1, <1>8, <2>2, ReportTradeCases, SettledInPlace
<1> QED
  BY <1>2, <1>3, <1>4, <1>5, <1>6, <1>7, <1>8 DEF CycleNext

\* Whenever the model is asked, what it is sent is well-formed: each of its
\* calls has its one answer, in order, from a server that has the tool
\* (CallsAnswered; runCycleInner, engine.go:286-355).
THEOREM EveryCallAnswered == CycleSpec => []CallsAnswered
<1>1. CycleInit => AnswerInv
  BY DEF CycleInit, AnswerInv, RouteInv, InPlace
<1>2. CycleInv /\ AnswerInv /\ [CycleNext]_<<vars, cycleVars>> => AnswerInv'
  <2>1. ASSUME CycleInv, AnswerInv, CycleNext
        PROVE  AnswerInv'
    BY <2>1, RouteNext, PlaceNext DEF AnswerInv, CycleInv
  <2>2. ASSUME CycleInv, AnswerInv, UNCHANGED <<vars, cycleVars>>
        PROVE  AnswerInv'
    BY <2>2, PlaceFrame DEF AnswerInv, RouteInv, cycleVars, talkVars
  <2> QED
    BY <2>1, <2>2
<1>3. CycleInv /\ AnswerInv => CallsAnswered
  BY PlacesMean DEF CycleInv, AnswerInv
<1> QED
  BY <1>1, <1>2, <1>3, CycleInvariant, PTL DEF CycleSpec
-----------------------------------------------------------------------------
(* Every variable keeps its type.                                          *)

\* A message names calls among the first n.
Names(m, n) ==
    /\ m.role = "tool" => m.call \in 1..n
    /\ m.role = "assistant" => \A i \in 1..Len(m.calls) : m.calls[i] \in 1..n

\* What goes to the model and into the log names calls that were made.
NamesInv ==
    /\ \A k \in 1..Len(messages) : Names(messages[k], Len(asked))
    /\ \A k \in 1..Len(toolCalls) : toolCalls[k].call \in 1..Len(asked)
    /\ verdicts \subseteq [call : Nat, trade : Trades, approved : BOOLEAN]

\* A sequence is one over any set that holds its elements.
LEMMA SeqOver ==
    ASSUME NEW S, NEW T, NEW s \in Seq(S), \A i \in 1..Len(s) : s[i] \in T
    PROVE  s \in Seq(T)
<1>1. Len(s) \in Nat /\ s \in [1..Len(s) -> S]
  BY LenProperties
<1>2. s \in [1..Len(s) -> T]
  BY <1>1
<1> QED
  BY <1>1, <1>2

LEMMA NamesTyped ==
    ASSUME CycleInv, FastInv, VerdictInv, NamesInv
    PROVE  CycleTypeOK
<1> DEFINE n == Len(asked)
<1>1. /\ TalkTypes /\ Counters /\ TypeOK /\ n \in Nat /\ DOMAIN asked = 1..n
      /\ Len(pending) \in Nat
  BY DEF CycleInv, TalkInv, RiskInv, TalkTypes
<1>2. pending \in Seq(DOMAIN asked)
  <2>1. \A i \in 1..Len(pending) : pending[i] \in 1..n
    BY <1>1 DEF Counters, Done
  <2> QED
    BY <1>1, <2>1, SeqOver DEF TalkTypes
<1>3. ASSUME NEW k \in 1..Len(messages)
      PROVE  messages[k] \in
                [role : {"assistant"}, calls : Seq(DOMAIN asked)] \cup
                [role : {"tool"}, call : DOMAIN asked, from : Servers \cup {None},
                 content : {"result", "error", "not found", "executed", "rejected"}]
  <2> DEFINE m == messages[k]
  <2>1. m \in Assistant \cup Told /\ Names(m, n)
    BY <1>1, <1>3, ElementOfSeq DEF TalkTypes, NamesInv
  <2> HIDE DEF m
  <2>2. CASE m \in Assistant
    <3>1. m = [role |-> "assistant", calls |-> m.calls] /\ m.calls \in Seq(Nat)
      BY <2>2 DEF Assistant
    <3>2. \A i \in 1..Len(m.calls) : m.calls[i] \in 1..n
      BY <2>1, <3>1 DEF Names
    <3>3. m.calls \in Seq(1..n)
      BY <3>1, <3>2, SeqOver
    <3>4. m \in [role : {"assistant"}, calls : Seq(1..n)]
      BY <3>1, <3>3
    <3> QED
      BY <1>1, <3>4 DEF m
  <2>3. CASE m \in Told
    <3>1. m.role = "tool" /\ m.call \in 1..n
      BY <2>1, <2>3 DEF Told, Names
    <3>2. m \in [role : {"tool"}, call : 1..n, from : Servers \cup {None}, content : Contents]
      BY <2>3, <3>1 DEF Told
    <3> QED
      BY <1>1, <3>2 DEF m, Contents
  <2> QED
    BY <2>1, <2>2, <2>3
<1>4. messages \in Seq([role : {"assistant"}, calls : Seq(DOMAIN asked)] \cup
                       [role : {"tool"}, call : DOMAIN asked, from : Servers \cup {None},
                        content : {"result", "error", "not found", "executed", "rejected"}])
  BY <1>1, <1>3, SeqOver DEF TalkTypes
<1>5. toolCalls \in Seq([call : DOMAIN asked, error : BOOLEAN])
  <2>1. ASSUME NEW k \in 1..Len(toolCalls)
        PROVE  toolCalls[k] \in [call : DOMAIN asked, error : BOOLEAN]
    <3> DEFINE r == toolCalls[k]
    <3>1. r \in [call : Nat, error : BOOLEAN] /\ r.call \in 1..n
      BY <1>1, <2>1, ElementOfSeq DEF TalkTypes, NamesInv
    <3> HIDE DEF r
    <3>2. r \in [call : 1..n, error : BOOLEAN]
      BY <3>1
    <3> QED
      BY <1>1, <3>2 DEF r
  <2> QED
    BY <1>1, <2>1, SeqOver DEF TalkTypes
<1>6. verdicts \subseteq [call : DOMAIN asked, trade : Trades, approved : BOOLEAN]
  <2>1. ASSUME NEW v \in verdicts
        PROVE  v \in [call : DOMAIN asked, trade : Trades, approved : BOOLEAN]
    <3>1. v \in [call : Nat, trade : Trades, approved : BOOLEAN] /\ v.call \in 1..Done
      BY DEF NamesInv, VerdictInv
    <3>2. v.call \in 1..n
      BY <1>1, <3>1 DEF Counters, Done
    <3> QED
      BY <1>1, <3>1, <3>2
  <2> QED
    BY <2>1
<1> QED
  BY <1>1, <1>2, <1>4, <1>5, <1>6 DEF CycleTypeOK, TalkTypes, FastInv

LEMMA NamesNext ==
    ASSUME CycleInv, NamesInv, CycleNext
    PROVE  NamesInv'
<1>1. TalkInv /\ Len(asked) \in Nat /\ Len(messages) \in Nat /\ Len(toolCalls) \in Nat
  BY DEF CycleInv, TalkInv, TalkTypes
<1>2. /\ \A k \in 1..Len(messages') : Names(messages'[k], Len(asked'))
      /\ \A k \in 1..Len(toolCalls') : toolCalls'[k].call \in 1..Len(asked')
  <2>1. ASSUME NEW answer \in Answers, Asking(answer)
        PROVE  <1>2!:
    <3>1. /\ Len(answer) \in Nat \ {0} /\ Len(asked') = Len(asked) + Len(answer)
          /\ Len(pending') = Len(answer)
          /\ \A i \in 1..Len(answer) : pending'[i] = Len(asked) + i
          /\ Len(messages') = Len(messages) + 1
          /\ \A k \in 1..Len(messages) : messages'[k] = messages[k]
          /\ messages'[Len(messages) + 1] = [role |-> "assistant", calls |-> pending']
      BY <1>1, <2>1, AskingFacts
    <3>2. toolCalls' = toolCalls
      BY <2>1 DEF Asking
    <3>3. \A m : Names(m, Len(asked)) => Names(m, Len(asked'))
      BY <1>1, <3>1 DEF Names
    <3>4. \A k \in 1..Len(messages) : Names(messages'[k], Len(asked'))
      BY <3>1, <3>3 DEF NamesInv
    <3>5. Names(messages'[Len(messages) + 1], Len(asked'))
      <4> DEFINE m == [role |-> "assistant", calls |-> pending']
      <4>1. m.role = "assistant" /\ m.calls = pending'
        OBVIOUS
      <4> HIDE DEF m
      <4>2. \A i \in 1..Len(m.calls) : m.calls[i] \in 1..Len(asked')
        BY <1>1, <3>1, <4>1
      <4>3. Names(m, Len(asked'))
        BY <4>1, <4>2 DEF Names
      <4> QED
        BY <3>1, <4>3 DEF m
    <3>6. \A k \in 1..Len(toolCalls') : toolCalls'[k].call \in 1..Len(asked')
      BY <1>1, <3>1, <3>2 DEF NamesInv
    <3> QED
      BY <1>1, <3>1, <3>4, <3>5, <3>6
  <2>2. ASSUME NEW content, NEW from, Settling(content, from)
        PROVE  <1>2!:
    <3> DEFINE told == [role |-> "tool", call |-> Done + 1, content |-> content, from |-> from]
               rec == [call |-> Done + 1, error |-> content \in {"error", "not found"}]
    <3> HIDE DEF told, rec
    <3>0. /\ Done \in Nat /\ Done + 1 <= Len(asked) /\ asked' = asked
          /\ Len(messages') = Len(messages) + 1
          /\ \A k \in 1..Len(messages) : messages'[k] = messages[k]
          /\ messages'[Len(messages) + 1] = told
          /\ Len(toolCalls') = Len(toolCalls) + 1
          /\ \A k \in 1..Len(toolCalls) : toolCalls'[k] = toolCalls[k]
          /\ toolCalls'[Len(toolCalls) + 1] = rec
      BY <1>1, <2>2, SettlingFacts, Zenon DEF told, rec
    <3>1. /\ Done + 1 \in 1..Len(asked) /\ asked' = asked
          /\ Len(messages') = Len(messages) + 1
          /\ \A k \in 1..Len(messages) : messages'[k] = messages[k]
          /\ messages'[Len(messages) + 1] = told
          /\ Len(toolCalls') = Len(toolCalls) + 1
          /\ \A k \in 1..Len(toolCalls) : toolCalls'[k] = toolCalls[k]
          /\ toolCalls'[Len(toolCalls) + 1] = rec
      BY <1>1, <3>0
    <3>2. told.role = "tool" /\ told.call = Done + 1 /\ rec.call = Done + 1
      BY DEF told, rec
    <3>3. Names(told, Len(asked)) /\ rec.call \in 1..Len(asked)
      BY <3>1, <3>2 DEF Names
    <3>4. \A k \in 1..Len(messages') : Names(messages'[k], Len(asked'))
      BY <1>1, <3>1, <3>3 DEF NamesInv
    <3>5. \A k \in 1..Len(toolCalls') : toolCalls'[k].call \in 1..Len(asked')
      BY <1>1, <3>1, <3>3 DEF NamesInv
    <3> QED
      BY <3>4, <3>5
  <2>3. CASE Waiting
    BY <2>3 DEF Waiting, NamesInv
  <2> QED
    BY <1>1, <2>1, <2>2, <2>3, TalkCases
<1>3. verdicts' \subseteq [call : Nat, trade : Trades, approved : BOOLEAN]
  <2>1. CASE ReportTrade
    <3>1. Head(pending) \in Nat
      BY <1>1, <2>1, CurrentCall, ReportTradeCases
    <3>2. trade \in Trades /\ decision.approved \in BOOLEAN
      BY DecisionIsBoolean DEF CycleInv, RiskInv, TypeOK
    <3>3. [call |-> Head(pending), trade |-> trade, approved |-> decision.approved]
              \in [call : Nat, trade : Trades, approved : BOOLEAN]
      BY <3>1, <3>2
    <3> QED
      BY <2>1, <3>3 DEF ReportTrade, NamesInv
  <2>2. CASE ~ReportTrade
    <3>1. verdicts' = verdicts
      BY <2>2 DEF CycleNext, GetTools, Evaluate, Chat, CallTool, CallTrade, Validate,
                  cycleVars, talkVars
    <3> QED
      BY <3>1 DEF NamesInv
  <2> QED
    BY <2>1, <2>2
<1> QED
  BY <1>2, <1>3 DEF NamesInv

\* Every variable of a cycle keeps its type, whatever the tools, the limits and
\* the model's answers are; what is told and logged names calls that were made.
THEOREM CycleTypeCorrect == CycleSpec => []CycleTypeOK
<1>1. CycleInit => NamesInv
  BY DEF CycleInit, NamesInv
<1>2. CycleInv /\ NamesInv /\ [CycleNext]_<<vars, cycleVars>> => NamesInv'
  <2>1. ASSUME NamesInv, UNCHANGED <<vars, cycleVars>>
        PROVE  NamesInv'
    BY <2>1 DEF NamesInv, Names, cycleVars, talkVars
  <2> QED
    BY <2>1, NamesNext
<1>3. CycleInv /\ FastInv /\ VerdictInv /\ NamesInv => CycleTypeOK
  BY NamesTyped
<1> QED
  BY <1>1, <1>2, <1>3, CycleInvariant, FastInvariant, VerdictInvariant, PTL DEF CycleSpec
-----------------------------------------------------------------------------
(* The control of a cycle, as it is in Engine (LimitProofs).               *)

Approved == {v \in verdicts : v.approved}

ControlPlace ==
    CASE step \in {"tools", "fast"} -> "tools"
      [] step = "chat"              -> "chat"
      [] step \in {"call", "risk"}  -> "call"
      [] step = "done"              -> "over"

\* What is left of the cycle's counts means nothing when it is over.
ControlRound == IF step = "done" THEN 0 ELSE round
ControlCalls == IF step = "done" THEN 0 ELSE Len(pending)

Control == INSTANCE CycleControl WITH
    place  <- ControlPlace,
    round  <- ControlRound,
    calls  <- ControlCalls,
    trades <- Cardinality(Approved)

ControlInv ==
    /\ IsFiniteSet(verdicts)
    /\ step \in {"tools", "fast"} => round = 0

\* The cycle ends.
LEMMA ControlEnded ==
    ASSUME step \in {"tools", "fast", "chat"}, step' = "done", verdicts' = verdicts
    PROVE  Control!End
<1>1. ControlPlace # "over" /\ ControlPlace' = "over"
  BY DEF ControlPlace
<1>2. ControlRound' = 0 /\ ControlCalls' = 0 /\ Cardinality(Approved)' = Cardinality(Approved)
  BY DEF ControlRound, ControlCalls, Approved
<1> QED
  BY <1>1, <1>2 DEF Control!End

\* The cycle goes on to the model without a word said.
LEMMA ControlPrepared ==
    ASSUME step \in {"tools", "fast"}, step' = "chat",
           UNCHANGED <<round, pending, verdicts>>
    PROVE  Control!Prepare
<1>1. ControlPlace = "tools" /\ ControlPlace' = "chat"
  BY DEF ControlPlace
<1>2. ControlRound' = ControlRound /\ ControlCalls' = ControlCalls
      /\ Cardinality(Approved)' = Cardinality(Approved)
  BY DEF ControlRound, ControlCalls, Approved
<1> QED
  BY <1>1, <1>2 DEF Control!Prepare

\* One call, and at most one trade more.
LEMMA ControlSettled ==
    ASSUME TalkInv, NEW content, NEW from, Settling(content, from),
           Cardinality(Approved') \in {Cardinality(Approved), Cardinality(Approved) + 1}
    PROVE  Control!Settle
<1>1. /\ step \in {"call", "risk"} /\ Len(pending) \in Nat \ {0}
      /\ Len(pending') = Len(pending) - 1
  BY SettlingFacts DEF Settling
<1>2. round' = round /\ step' = IF Len(pending) = 1 THEN "chat" ELSE "call"
  BY DEF Settling, Settle
<1>3. ControlPlace = "call" /\ ControlCalls = Len(pending) /\ ControlRound = round
  BY <1>1 DEF ControlPlace, ControlCalls, ControlRound
<1>4. /\ ControlPlace' = IF Len(pending) = 1 THEN "chat" ELSE "call"
      /\ ControlCalls' = Len(pending) - 1 /\ ControlRound' = round
  BY <1>1, <1>2 DEF ControlPlace, ControlCalls, ControlRound
<1> QED
  BY <1>3, <1>4 DEF Control!Settle

\* A call without a decision.
LEMMA ControlUndecided ==
    ASSUME TalkInv, NEW content, NEW from, Settling(content, from), verdicts' = verdicts
    PROVE  Control!Settle
<1>1. Cardinality(Approved') = Cardinality(Approved)
  BY DEF Approved
<1> QED
  BY <1>1, ControlSettled

\* A decision adds at most one approved trade: no call is decided on twice.
LEMMA ControlDecided ==
    ASSUME CycleInv, VerdictInv, ControlInv, ReportTrade
    PROVE  Control!Settle /\ IsFiniteSet(verdicts')
<1>1. TalkInv /\ Settling(Verdict, None)
  BY ReportTradeCases DEF CycleInv
<1>2. CASE returned = "error"
  <2>1. verdicts' = verdicts
    BY <1>2 DEF ReportTrade
  <2> QED
    BY <1>1, <2>1, ControlUndecided DEF ControlInv
<1>3. CASE returned # "error"
  <2> DEFINE new == [call |-> Head(pending), trade |-> trade, approved |-> decision.approved]
  <2>1. verdicts' = verdicts \cup {new}
    BY <1>3 DEF ReportTrade
  <2>2. new.approved \in BOOLEAN
    BY DecisionIsBoolean DEF CycleInv, RiskInv, TypeOK
  <2>3. IsFiniteSet(verdicts) /\ IsFiniteSet(Approved)
    BY FS_Subset DEF ControlInv, Approved
  <2> HIDE DEF new
  <2>4. IsFiniteSet(verdicts')
    BY <2>1, <2>3, FS_AddElement
  <2>5. Approved' = Approved \/ Approved' = Approved \cup {new}
    BY <2>1, <2>2 DEF Approved
  <2>6. Cardinality(Approved') \in {Cardinality(Approved), Cardinality(Approved) + 1}
    BY <2>3, <2>5, FS_AddElement
  <2> QED
    BY <1>1, <2>4, <2>6, ControlSettled
<1> QED
  BY <1>2, <1>3

LEMMA ControlAsked ==
    ASSUME TalkInv, NEW answer \in Answers, Asking(answer)
    PROVE  Control!Ask
<1>1. Len(answer) \in 1..MaxCalls
  <2>1. PICK n \in 1..MaxCalls : answer \in [1..n -> Asks]
    BY DEF Answers
  <2>2. Len(answer) \in Nat \ {0} /\ DOMAIN answer = 1..Len(answer)
    BY AnswerIsCalls
  <2> DEFINE m == Len(answer)
  <2>3. n \in Nat \ {0} /\ m \in Nat \ {0} /\ 1..n = 1..m
    BY <2>1, <2>2, CycleBounds
  <2> HIDE DEF m
  <2>4. n \in 1..m /\ m \in 1..n
    <3>1. n \in 1..n /\ m \in 1..m
      BY <2>3
    <3> QED
      BY <2>3, <3>1, Zenon
  <2>5. m \in 1..MaxCalls
    BY <2>1, <2>3, <2>4, CycleBounds
  <2> QED
    BY <2>5 DEF m
<1>2. Len(pending) = 0 /\ Len(pending') = Len(answer)
  BY AskingFacts
<1>3. /\ step = "chat" /\ step' = "call" /\ verdicts' = verdicts
      /\ round < MaxToolCallRounds /\ round' = round + 1
  BY DEF Asking
<1>4. ControlPlace = "chat" /\ ControlPlace' = "call"
  BY <1>3 DEF ControlPlace
<1>5. ControlRound = round /\ ControlRound' = round + 1 /\ ControlCalls' = Len(answer)
  BY <1>2, <1>3 DEF ControlRound, ControlCalls
<1>6. Cardinality(Approved)' = Cardinality(Approved)
  BY <1>3 DEF Approved
<1> QED
  BY <1>1, <1>3, <1>4, <1>5, <1>6 DEF Control!Ask

\* Between the places of the control.
LEMMA ControlFrame ==
    ASSUME ControlPlace' = ControlPlace, ControlPlace # "over",
           step # "done", step' # "done",
           UNCHANGED <<round, pending, verdicts>>
    PROVE  UNCHANGED Control!vars
BY DEF Control!vars, ControlRound, ControlCalls, Approved

LEMMA ControlNext ==
    ASSUME CycleInv, VerdictInv, ControlInv, CycleNext
    PROVE  ControlInv' /\ [Control!Next]_(Control!vars)
<1> USE DEF Control!Next
<1>1. TalkInv /\ IsFiniteSet(verdicts)
  BY DEF CycleInv, ControlInv
<1>2. CASE GetTools
  <2>1. /\ step = "tools" /\ step' \in {"chat", "fast", "done"}
        /\ UNCHANGED <<round, pending, verdicts>>
    BY <1>2 DEF GetTools, End, talkVars
  <2>2. ControlInv'
    BY <2>1 DEF ControlInv
  <2>3. CASE step' = "fast"
    <3>1. ControlPlace' = ControlPlace /\ ControlPlace # "over"
      BY <2>1, <2>3 DEF ControlPlace
    <3> QED
      BY <2>1, <2>2, <2>3, <3>1, ControlFrame
  <2> QED
    BY <2>1, <2>2, <2>3, ControlPrepared, ControlEnded
<1>3. CASE Evaluate
  <2>1. /\ step = "fast" /\ step' \in {"chat", "fast", "done"}
        /\ UNCHANGED <<round, pending, verdicts>>
    BY <1>3 DEF Evaluate, End, talkVars
  <2>2. ControlInv'
    BY <2>1 DEF ControlInv
  <2>3. CASE step' = "fast"
    <3>1. ControlPlace' = ControlPlace /\ ControlPlace # "over"
      BY <2>1, <2>3 DEF ControlPlace
    <3> QED
      BY <2>1, <2>2, <2>3, <3>1, ControlFrame
  <2> QED
    BY <2>1, <2>2, <2>3, ControlPrepared, ControlEnded
<1>4. CASE Chat
  <2>1. ASSUME NEW answer \in Answers, Asking(answer)
        PROVE  ControlInv' /\ Control!Ask
    <3>1. step' = "call" /\ verdicts' = verdicts
      BY <2>1 DEF Asking
    <3>2. ControlInv'
      BY <1>1, <3>1 DEF ControlInv
    <3> QED
      BY <1>1, <2>1, <3>2, ControlAsked
  <2>2. CASE step = "chat" /\ step' = "done" /\ verdicts' = verdicts
    <3>1. ControlInv'
      BY <1>1, <2>2 DEF ControlInv
    <3> QED
      BY <2>2, <3>1, ControlEnded
  <2> QED
    BY <1>4, <2>1, <2>2, ChatCases
<1>5. ASSUME NEW content, NEW from, Settling(content, from), IsFiniteSet(verdicts')
      PROVE  ControlInv'
  <2>1. step' \notin {"tools", "fast"}
    BY <1>5 DEF Settling, Settle
  <2> QED
    BY <1>5, <2>1 DEF ControlInv
<1>6. CASE CallTool
  <2>1. PICK content, from : Settling(content, from) /\ verdicts' = verdicts
    BY <1>1, <1>6, CallToolCases
  <2> QED
    BY <1>1, <1>5, <2>1, ControlUndecided
<1>7. CASE CallTrade
  <2>1. CASE Settling("error", None) /\ verdicts' = verdicts
    BY <1>1, <1>5, <2>1, ControlUndecided
  <2>2. CASE step = "call" /\ step' = "risk" /\ Waiting /\ verdicts' = verdicts
    <3>1. ControlPlace' = ControlPlace /\ ControlPlace # "over"
      BY <2>2 DEF ControlPlace
    <3>2. ControlInv'
      BY <1>1, <2>2 DEF ControlInv
    <3> QED
      BY <2>2, <3>1, <3>2, ControlFrame DEF Waiting
  <2> QED
    BY <1>1, <1>7, <2>1, <2>2, CallTradeCases
<1>8. CASE Validate
  <2>1. step = "risk" /\ UNCHANGED <<step, round, pending, verdicts>>
    BY <1>8 DEF Validate, cycleVars, talkVars
  <2>2. ControlPlace' = ControlPlace /\ ControlPlace # "over"
    BY <2>1 DEF ControlPlace
  <2>3. ControlInv'
    BY <1>1, <2>1 DEF ControlInv
  <2> QED
    BY <2>1, <2>2, <2>3, ControlFrame
<1>9. CASE ReportTrade
  <2>1. Settling(Verdict, None)
    BY <1>9, ReportTradeCases
  <2> QED
    BY <1>5, <1>9, <2>1, ControlDecided
<1> QED
  BY <1>2, <1>3, <1>4, <1>6, <1>7, <1>8, <1>9 DEF CycleNext

\* A cycle goes through CycleControl, as the loops of Engine do, whatever it
\* reads, is told and asks risk control for: the model is not asked again while
\* a call is open, never more often than MaxToolCallRounds, and no call makes
\* more than one trade (runCycleInner, engine.go:264-360).
THEOREM CycleImplementsControl == CycleSpec => Control!Spec
<1>1. CycleInit => ControlInv /\ Control!Init
  <2> SUFFICES ASSUME CycleInit PROVE ControlInv /\ Control!Init
    OBVIOUS
  <2>1. step = "tools" /\ round = 0 /\ pending = <<>> /\ verdicts = {}
    BY DEF CycleInit
  <2>2. IsFiniteSet({}) /\ Cardinality({}) = 0
    BY FS_EmptySet
  <2>3. ControlPlace = "tools" /\ ControlRound = 0 /\ ControlCalls = 0 /\ Approved = {}
    BY <2>1 DEF ControlPlace, ControlRound, ControlCalls, Approved
  <2> QED
    BY <2>1, <2>2, <2>3 DEF ControlInv, Control!Init
<1>2. CycleInv /\ VerdictInv /\ ControlInv /\ [CycleNext]_<<vars, cycleVars>>
          => ControlInv' /\ [Control!Next]_(Control!vars)
  <2>1. ASSUME ControlInv, UNCHANGED <<vars, cycleVars>>
        PROVE  ControlInv' /\ UNCHANGED Control!vars
    BY <2>1 DEF ControlInv, Control!vars, ControlPlace, ControlRound, ControlCalls,
                Approved, cycleVars, talkVars
  <2> QED
    BY <2>1, ControlNext
<1> QED
  BY <1>1, <1>2, CycleInvariant, VerdictInvariant, PTL DEF CycleSpec, Control!Spec
=============================================================================
