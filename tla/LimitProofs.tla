---------------------------- MODULE LimitProofs ----------------------------
(***************************************************************************)
(* Proofs about what bounds the trades of an agent: the position, a sum    *)
(* over its pairs, and how one trade changes it; how many trades a cycle   *)
(* can make; and, from both, the limits an approved trade keeps.           *)
(***************************************************************************)
EXTENDS EngineProofs, FiniteSetTheorems, WellFoundedInduction

-----------------------------------------------------------------------------
(* The sum over the pairs.  currentPosition folds over a set by a recursive *)
(* function, which the provers see as the choice of a function that obeys   *)
(* the recursion: that one exists, and what it returns, is by induction,    *)
(* stated here for a set of the arguments for which the claim is good.      *)

\* The pair that the fold takes out of a set first.
First(s) == CHOOSE p \in s : TRUE

\* What a pair adds to the position.
Held(hold, p) == IF hold[p] > 0 THEN hold[p] ELSE 0

\* iter obeys the fold's recursion on the sets T.
Adds(hold, T, iter) ==
    \A s \in T : iter[s] = IF s = {} THEN 0
                           ELSE Held(hold, First(s)) + iter[s \ {First(s)}]

\* The function the fold defines.
Sums(hold) == CHOOSE iter : iter = [s \in SUBSET Pairs |->
    IF s = {} THEN 0 ELSE Held(hold, First(s)) + iter[s \ {First(s)}]]

LEMMA PositionIsASum ==
    ASSUME NEW hold
    PROVE  currentPosition(hold) = Sums(hold)[Pairs]
BY DEF currentPosition, MapThenSumSet, MapThenFoldSet, Sums, Held, First

LEMMA NatSetInduction ==
    ASSUME NEW Good \in SUBSET Nat, 0 \in Good, \A n \in Good : n + 1 \in Good
    PROVE  Good = Nat
<1> SUFFICES ASSUME Nat \ Good # {} PROVE FALSE
  OBVIOUS
<1>1. PICK n \in Nat \ Good : \A m \in Nat \ Good : <<m, n>> \notin OpToRel(<, Nat)
  BY WFMin, NatLessThanWellFounded
<1>2. n # 0 /\ n - 1 \in Nat
  OBVIOUS
<1>3. n - 1 \notin Good
  BY <1>2
<1>4. <<n - 1, n>> \in OpToRel(<, Nat)
  BY <1>2 DEF OpToRel
<1> QED
  BY <1>1, <1>2, <1>3, <1>4

\* A claim about sets of pairs that holds of the empty set, and of a set when
\* it holds of it without its first element, holds of every set of pairs.
LEMMA PairSetInduction ==
    ASSUME NEW Good \in SUBSET SUBSET Pairs, {} \in Good,
           \A s \in SUBSET Pairs : s # {} /\ s \ {First(s)} \in Good => s \in Good
    PROVE  Good = SUBSET Pairs
<1> SUFFICES ASSUME (SUBSET Pairs) \ Good # {} PROVE FALSE
  OBVIOUS
<1> DEFINE R == StrictSubsetOrdering(Pairs)
<1>1. IsWellFoundedOn(R, SUBSET Pairs)
  <2>1. IsWellFoundedOn(R, FiniteSubsetsOf(Pairs))
    BY FS_StrictSubsetOrderingWellFounded
  <2>2. FiniteSubsetsOf(Pairs) = SUBSET Pairs
    BY FS_FiniteSubsetsOfFinite, PairsAssumption
  <2> QED
    BY <2>1, <2>2, Zenon
<1>2. PICK s \in (SUBSET Pairs) \ Good : \A t \in (SUBSET Pairs) \ Good : <<t, s>> \notin R
  <2> DEFINE T == (SUBSET Pairs) \ Good
  <2>1. T \subseteq SUBSET Pairs /\ T # {}
    OBVIOUS
  <2> HIDE DEF R, T
  <2>2. \E s \in T : \A t \in T : ~(<<t, s>> \in R)
    BY <1>1, <2>1, WFMin
  <2> QED
    BY <2>2 DEF T
<1>3. s # {} /\ First(s) \in s
  <2>1. s # {}
    BY <1>2
  <2> QED
    BY <2>1 DEF First
<1>4. s \ {First(s)} \in (SUBSET Pairs) \ Good
  BY <1>2, <1>3
<1>5. <<s \ {First(s)}, s>> \in R
  BY <1>3 DEF StrictSubsetOrdering
<1> QED
  BY <1>2, <1>4, <1>5

\* A function that obeys the recursion exists, for sets up to any size.
LEMMA SumsExistUpTo ==
    ASSUME NEW hold, NEW n \in Nat
    PROVE  \E iter : Adds(hold, {s \in SUBSET Pairs : Cardinality(s) <= n}, iter)
<1> DEFINE Upto(m) == {s \in SUBSET Pairs : Cardinality(s) <= m}
           Good == {m \in Nat : \E iter : Adds(hold, Upto(m), iter)}
<1>1. 0 \in Good
  <2> DEFINE iter == [s \in {{}} |-> 0]
  <2>1. Upto(0) \subseteq {{}}
    <3> SUFFICES ASSUME NEW s \in SUBSET Pairs, Cardinality(s) <= 0 PROVE s = {}
      OBVIOUS
    <3>1. IsFiniteSet(s) /\ Cardinality(s) \in Nat
      BY PairsAssumption, FS_Subset, FS_CardinalityType
    <3> QED
      BY <3>1, FS_EmptySet
  <2>2. Adds(hold, Upto(0), iter)
    BY <2>1 DEF Adds
  <2> QED
    BY <2>2
<1>2. ASSUME NEW m \in Good
      PROVE  m + 1 \in Good
  <2>1. PICK iter : Adds(hold, Upto(m), iter)
    BY <1>2
  <2> DEFINE next == [s \in SUBSET Pairs |->
                        IF s = {} THEN 0 ELSE Held(hold, First(s)) + iter[s \ {First(s)}]]
  <2>2. ASSUME NEW s \in Upto(m + 1), s # {}
        PROVE  next[s \ {First(s)}] = iter[s \ {First(s)}]
    <3>1. First(s) \in s
      BY <2>2 DEF First
    <3>2. IsFiniteSet(s) /\ Cardinality(s) \in Nat
      BY PairsAssumption, FS_Subset, FS_CardinalityType
    <3>3. Cardinality(s \ {First(s)}) = Cardinality(s) - 1
      BY <3>1, <3>2, FS_RemoveElement
    <3>4. s \ {First(s)} \in Upto(m)
      BY <3>2, <3>3
    <3> QED
      BY <2>1, <3>4 DEF Adds
  <2>3. Adds(hold, Upto(m + 1), next)
    BY <2>2 DEF Adds
  <2>4. m + 1 \in Nat
    OBVIOUS
  <2> HIDE DEF next, Upto
  <2> QED
    BY <2>3, <2>4
<1>3. Good = Nat
  <2> HIDE DEF Good
  <2>1. Good \subseteq Nat
    BY DEF Good
  <2> QED
    BY <1>1, <1>2, <2>1, NatSetInduction
<1> QED
  BY <1>3

\* So the fold obeys its recursion.
LEMMA SumsUnfold ==
    ASSUME NEW hold
    PROVE  Adds(hold, SUBSET Pairs, Sums(hold))
<1>1. Cardinality(Pairs) \in Nat
  BY PairsAssumption, FS_CardinalityType
<1>2. \A s \in SUBSET Pairs : Cardinality(s) <= Cardinality(Pairs)
  BY PairsAssumption, FS_Subset
<1>3. {s \in SUBSET Pairs : Cardinality(s) <= Cardinality(Pairs)} = SUBSET Pairs
  BY <1>2
<1>4. PICK iter : Adds(hold, SUBSET Pairs, iter)
  BY <1>1, <1>3, SumsExistUpTo
<1> DEFINE g == [s \in SUBSET Pairs |-> iter[s]]
<1>5. g = [s \in SUBSET Pairs |->
             IF s = {} THEN 0 ELSE Held(hold, First(s)) + g[s \ {First(s)}]]
  BY <1>4 DEF Adds
<1>6. Sums(hold) = [s \in SUBSET Pairs |->
             IF s = {} THEN 0 ELSE Held(hold, First(s)) + Sums(hold)[s \ {First(s)}]]
  <2> HIDE DEF g
  <2> QED
    BY <1>5 DEF Sums
<1> QED
  BY <1>6 DEF Adds

LEMMA EmptySum ==
    ASSUME NEW hold
    PROVE  Sums(hold)[{}] = 0
<1>1. {} \in SUBSET Pairs
  OBVIOUS
<1> QED
  BY <1>1, SumsUnfold DEF Adds

\* The sum over a set of pairs is a natural number.
LEMMA SumsType ==
    ASSUME NEW hold \in [Pairs -> Int], NEW s \in SUBSET Pairs
    PROVE  Sums(hold)[s] \in Nat
<1> DEFINE Good == {t \in SUBSET Pairs : Sums(hold)[t] \in Nat}
<1>1. {} \in Good
  BY EmptySum
<1>2. ASSUME NEW t \in SUBSET Pairs, t # {}, t \ {First(t)} \in Good
      PROVE  t \in Good
  <2>1. First(t) \in t
    BY <1>2 DEF First
  <2>2. Held(hold, First(t)) \in Nat
    BY <2>1 DEF Held
  <2>3. Sums(hold)[t] = Held(hold, First(t)) + Sums(hold)[t \ {First(t)}]
    BY <1>2, SumsUnfold DEF Adds
  <2> QED
    BY <1>2, <2>2, <2>3
<1>3. Good = SUBSET Pairs
  <2> HIDE DEF Good
  <2>1. Good \subseteq SUBSET Pairs
    BY DEF Good
  <2> QED
    BY <1>1, <1>2, <2>1, PairSetInduction
<1> QED
  BY <1>3

\* Changing what is held of one pair changes every sum over a set with that
\* pair by the difference, and no other sum.
LEMMA SumsChange ==
    ASSUME NEW hold \in [Pairs -> Int], NEW after \in [Pairs -> Int], NEW p \in Pairs,
           \A q \in Pairs \ {p} : after[q] = hold[q], NEW s \in SUBSET Pairs
    PROVE  Sums(after)[s] = Sums(hold)[s]
               + (IF p \in s THEN Held(after, p) - Held(hold, p) ELSE 0)
<1> DEFINE D(t) == IF p \in t THEN Held(after, p) - Held(hold, p) ELSE 0
           Good == {t \in SUBSET Pairs : Sums(after)[t] = Sums(hold)[t] + D(t)}
<1>1. {} \in Good
  BY EmptySum
<1>2. ASSUME NEW t \in SUBSET Pairs, t # {}, t \ {First(t)} \in Good
      PROVE  t \in Good
  <2> DEFINE q == First(t)
             u == t \ {q}
  <2>1. q \in t
    BY <1>2 DEF First
  <2>2. Held(hold, q) \in Int /\ Held(after, q) \in Int
        /\ Held(hold, p) \in Int /\ Held(after, p) \in Int
    BY <2>1 DEF Held
  <2>3. Sums(hold)[t] = Held(hold, q) + Sums(hold)[u]
        /\ Sums(after)[t] = Held(after, q) + Sums(after)[u]
    BY <1>2, SumsUnfold DEF Adds
  <2>4. Sums(hold)[u] \in Int /\ Sums(after)[u] \in Int
    BY SumsType
  <2>5. Sums(after)[u] = Sums(hold)[u] + D(u)
    BY <1>2
  <2>6. CASE q = p
    <3>1. D(u) = 0 /\ D(t) = Held(after, q) - Held(hold, q)
      BY <2>1, <2>6
    <3> HIDE DEF D, q, u
    <3> QED
      BY <2>2, <2>3, <2>4, <2>5, <3>1
  <2>7. CASE q # p
    <3>1. D(u) = D(t) /\ D(t) \in Int
      BY <2>2, <2>7
    <3>2. Held(after, q) = Held(hold, q)
      BY <2>1, <2>7 DEF Held
    <3> HIDE DEF D, q, u
    <3> QED
      BY <2>2, <2>3, <2>4, <2>5, <3>1, <3>2
  <2> QED
    BY <2>6, <2>7
<1>3. Good = SUBSET Pairs
  <2> HIDE DEF Good
  <2>1. Good \subseteq SUBSET Pairs
    BY DEF Good
  <2> QED
    BY <1>1, <1>2, <2>1, PairSetInduction
<1> QED
  BY <1>3

\* The position of a well-formed state is a natural number.
LEMMA PositionType ==
    ASSUME NEW hold \in [Pairs -> Int]
    PROVE  currentPosition(hold) \in Nat
BY PositionIsASum, SumsType

-----------------------------------------------------------------------------
(* How many trades a cycle can make.                                       *)

\* The calls that the rounds after this one may still bring.
LaterCalls(l) == (MaxToolCallRounds - round[l]) * MaxCalls

\* The calls loop l may still handle in its cycle.
CallsLeft(l) ==
    CASE pc[l] = "tools" -> TradesPerCycle
      [] pc[l] = "chat"  -> LaterCalls(l)
      [] pc[l] \in {"call", "log", "pauseDB", "pause"} -> LaterCalls(l) + calls[l]
      [] OTHER -> 0

\* The trades of a state do not exceed what its cycles allow.
WithinCycles(s) == s.trades <= s.cycle * TradesPerCycle /\ s.cycle <= MaxCycles

\* Neither the trades a loop has made and may still make in its cycle do nor
\* those of a state that is persisted or may still be by a late statement.
CycleBudget ==
    /\ \A l \in Loops : /\ mem[l].trades + CallsLeft(l) <= mem[l].cycle * TradesPerCycle
                         /\ mem[l].cycle <= MaxCycles
    /\ \A a \in Agents : WithinCycles(dbState[a])
    /\ \A s \in late : WithinCycles(s.state)

LEMMA RoundsArithmetic ==
    ASSUME NEW r \in 0..MaxToolCallRounds
    PROVE  /\ TradesPerCycle \in Nat
           /\ (MaxToolCallRounds - r) * MaxCalls \in 0..TradesPerCycle
           /\ r < MaxToolCallRounds =>
                 (MaxToolCallRounds - (r + 1)) * MaxCalls
                     = (MaxToolCallRounds - r) * MaxCalls - MaxCalls
<1>1. MaxToolCallRounds \in Nat /\ MaxCalls \in Nat /\ r \in Nat
  BY BoundsAssumption
<1>2. (MaxToolCallRounds - r) * MaxCalls = MaxToolCallRounds * MaxCalls - r * MaxCalls
  BY <1>1
<1>3. r * MaxCalls \in Nat /\ MaxToolCallRounds * MaxCalls \in Nat
  BY <1>1
<1>4. (MaxToolCallRounds - r) * MaxCalls \in Nat
  BY <1>1
<1>5. (MaxToolCallRounds - (r + 1)) * MaxCalls = MaxToolCallRounds * MaxCalls - (r + 1) * MaxCalls
  BY <1>1
<1>6. (r + 1) * MaxCalls = r * MaxCalls + MaxCalls
  BY <1>1
<1> QED
  BY <1>1, <1>2, <1>3, <1>4, <1>5, <1>6 DEF TradesPerCycle

LEMMA CallsLeftType ==
    ASSUME TypeInv, NEW l \in Loops
    PROVE  CallsLeft(l) \in Nat /\ LaterCalls(l) \in 0..TradesPerCycle /\ TradesPerCycle \in Nat
<1>1. LaterCalls(l) \in 0..TradesPerCycle /\ TradesPerCycle \in Nat
  BY RoundsArithmetic DEF TypeInv, TypeOK, LaterCalls
<1>2. calls[l] \in Nat
  BY BoundsAssumption DEF TypeInv, TypeOK
<1> QED
  BY <1>1, <1>2 DEF CallsLeft

CallsLeftNat == \A l \in Loops : CallsLeft(l) \in Nat

LEMMA CallsLeftNow == TypeInv => CallsLeftNat
BY CallsLeftType DEF CallsLeftNat

LEMMA CallsLeftNext == TypeInv' => CallsLeftNat'
BY CallsLeftNow, PTL

\* The handling of one call uses up one.
LEMMA OnwardUses ==
    ASSUME TypeInv, NEW l \in Loops, pc[l] \in {"call", "log", "pause"},
           Onward(l), round' = round
    PROVE  CallsLeft(l)' = CallsLeft(l) - 1
<1>1. calls[l] \in Nat \ {0} /\ calls'[l] = calls[l] - 1
      /\ pc'[l] = IF calls[l] > 1 THEN "call" ELSE "chat"
  BY BoundsAssumption DEF Onward, TypeInv, TypeOK, LocalsOK
<1>2. LaterCalls(l)' = LaterCalls(l) /\ LaterCalls(l) \in Int
  BY CallsLeftType DEF LaterCalls
<1>3. CallsLeft(l) = LaterCalls(l) + calls[l]
  BY DEF CallsLeft
<1>4. CASE calls[l] > 1
  BY <1>1, <1>2, <1>3, <1>4 DEF CallsLeft
<1>5. CASE calls[l] = 1
  BY <1>1, <1>2, <1>3, <1>5 DEF CallsLeft
<1> QED
  BY <1>1, <1>4, <1>5

\* What a step may do to loop l's state, its order and the calls it has left:
\* nothing but use calls up or drop the order,
KeepsState(l) ==
    /\ mem'[l] = mem[l] /\ CallsLeft(l)' <= CallsLeft(l)
    /\ order'[l] = NoOrder \/ (order'[l] = order[l] /\ conf'[l] = conf[l])

\* take the persisted state,
LoadsState(l) ==
    /\ pc[l] = "free"
    /\ mem'[l] = dbState[owner[l]] /\ CallsLeft(l)' = 0 /\ order'[l] = NoOrder

\* begin a cycle,
CountsCycle(l) ==
    /\ pc[l] = "idle"
    /\ mem[l].cycle < MaxCycles /\ mem'[l] = [mem[l] EXCEPT !.cycle = @ + 1]
    /\ CallsLeft(l) = 0 /\ CallsLeft(l)' = TradesPerCycle
    /\ order'[l] = NoOrder

\* take a decision, or carry it out.
Decides(l, t) ==
    /\ t.amount > 0 /\ CallsLeft(l) > 0
    /\ mem'[l] = mem[l] /\ conf'[l] = conf[l] /\ CallsLeft(l)' = CallsLeft(l)
    /\ order'[l].trade = t /\ order'[l].decision = Decision(l, t)

CarriesOut(l) ==
    /\ order[l] # NoOrder /\ order'[l] = NoOrder
    /\ mem'[l] = Applied(mem[l], order[l])
    /\ CallsLeft(l)' <= CallsLeft(l)
    /\ order[l].decision.approved => CallsLeft(l)' = CallsLeft(l) - 1

StateStep(l) ==
    \/ KeepsState(l) \/ LoadsState(l) \/ CountsCycle(l)
    \/ (\E t \in Trades : Decides(l, t)) \/ CarriesOut(l)

LEMMA FrameStep ==
    ASSUME TypeInv, NEW l \in Loops,
           mem'[l] = mem[l], pc'[l] = pc[l], round'[l] = round[l], calls'[l] = calls[l],
           order'[l] = NoOrder \/ (order'[l] = order[l] /\ conf'[l] = conf[l])
    PROVE  StateStep(l)
<1>1. CallsLeft(l)' = CallsLeft(l) /\ CallsLeft(l) \in Nat
  BY CallsLeftType DEF CallsLeft, LaterCalls
<1> QED
  BY <1>1 DEF StateStep, KeepsState

\* The steps that are none of a goroutine's.
LEMMA SchedulerStateStep ==
    ASSUME TypeInv, NEW l \in Loops, UNCHANGED vars \/ Scheduling
    PROVE  StateStep(l)
<1>1. CASE UNCHANGED loopVars \/ UNCHANGED <<pc, owner, mem, round, calls, order, conf>>
  BY <1>1, FrameStep DEF loopVars
<1>2. CASE \/ UNCHANGED vars \/ RestoreAgents \/ RestoreEnds
           \/ \E a \in Agents : RestoreTake(a) \/ RestoreSkip(a) \/ PauseAgent(a) \/ Serve(a)
           \/ \E s \in late : Commit(s)
           \/ \E m \in Loops : CallerEnds(m)
  BY <1>1, <1>2 DEF vars, RestoreAgents, RestoreEnds, RestoreTake, RestoreSkip, CannotRestore,
                    PauseAgent, Serve, Commit, CallerEnds
<1>3. CASE Stop
  BY <1>1, <1>3 DEF Stop
<1>4. CASE Crash
  <2>1. /\ mem' = mem /\ order'[l] = NoOrder
        /\ pc'[l] = IF pc[l] = "free" THEN "free" ELSE "exited"
    BY <1>4 DEF Crash
  <2>2. CallsLeft(l)' = 0 /\ CallsLeft(l) \in Nat
    BY <2>1, CallsLeftType DEF CallsLeft
  <2> QED
    BY <2>1, <2>2 DEF StateStep, KeepsState
<1>5. ASSUME NEW a \in Agents, NEW m \in Loops, LoadAgent(a, m)
      PROVE  StateStep(l)
  <2>1. CASE l = m
    <3>1. /\ mem'[l] = dbState[owner[l]] /\ pc[l] = "free" /\ pc'[l] = "loaded"
          /\ order'[l] = order[l] /\ order[l] = NoOrder
      BY <1>5, <2>1 DEF LoadAgent, TypeInv, TypeOK, LocalsOK
    <3>2. CallsLeft(l)' = 0
      BY <3>1 DEF CallsLeft
    <3> QED
      BY <3>1, <3>2 DEF StateStep, LoadsState
  <2>2. CASE l # m
    BY <1>5, <2>2, FrameStep DEF LoadAgent, TypeInv, TypeOK
  <2> QED
    BY <2>1, <2>2
<1>6. ASSUME NEW m \in Loops, InstallLoop(m)
      PROVE  StateStep(l)
  <2>1. /\ mem' = mem /\ order' = order /\ conf' = conf /\ round' = round /\ calls' = calls
        /\ pc'[l] = pc[l] \/ (pc[l] = "loaded" /\ pc'[l] = "idle")
    BY <1>6 DEF InstallLoop, TypeInv, TypeOK
  <2>2. CASE pc'[l] = pc[l]
    BY <2>1, <2>2, FrameStep
  <2>3. CASE pc[l] = "loaded" /\ pc'[l] = "idle"
    BY <2>1, <2>3 DEF StateStep, KeepsState, CallsLeft
  <2> QED
    BY <2>1, <2>2, <2>3
<1> QED
  BY <1>2, <1>3, <1>4, <1>5, <1>6 DEF Scheduling, Restoring, RestoreLoad, StartAgent

LEMMA DecisionStep ==
    ASSUME TypeInv, NEW l \in Loops, NEW t \in Trades, ValidateTrade(l, t)
    PROVE  StateStep(l)
<1> DEFINE d == Decision(l, t)
<1>1. /\ t.amount > 0 /\ pc[l] = "call" /\ mem' = mem /\ conf' = conf /\ round' = round
  BY DEF ValidateTrade
<1>2. CASE /\ order' = [order EXCEPT
                   ![l] = [trade |-> t, decision |-> d, event |-> approvals'[owner[l]]]]
           /\ Goto(l, "log") /\ UNCHANGED calls
  <2>1. order'[l].trade = t /\ order'[l].decision = d /\ pc'[l] = "log"
    BY <1>2 DEF Goto, TypeInv, TypeOK
  <2>2. CallsLeft(l)' = CallsLeft(l) /\ CallsLeft(l) = LaterCalls(l) + calls[l]
    BY <1>1, <1>2, <2>1 DEF CallsLeft, LaterCalls
  <2>3. calls[l] \in Nat \ {0} /\ LaterCalls(l) \in Nat
    BY <1>1, BoundsAssumption, CallsLeftType DEF TypeInv, TypeOK, LocalsOK
  <2>4. Decides(l, t)
    <3> HIDE DEF d
    <3>1. CallsLeft(l) > 0
      BY <2>2, <2>3
    <3> QED
      BY <1>1, <2>1, <2>2, <3>1 DEF Decides, d
  <2> QED
    BY <2>4 DEF StateStep
<1>3. CASE NextCall(l) /\ UNCHANGED order
  <2>1. CallsLeft(l)' = CallsLeft(l) - 1 /\ CallsLeft(l) \in Nat
    BY <1>1, <1>3, OnwardUses, CallsLeftType DEF NextCall
  <2> QED
    BY <1>1, <1>3, <2>1 DEF StateStep, KeepsState
<1> QED
  BY <1>2, <1>3 DEF ValidateTrade

LEMMA CarryOutStep ==
    ASSUME TypeInv, NEW l \in Loops, LogTrade(l)
    PROVE  StateStep(l)
<1> DEFINE d == order[l].decision
<1>1. /\ pc[l] = "log" /\ order[l].trade \in Trades /\ round' = round
      /\ order[l] \in [trade : Trades, decision : Decisions, event : Nat]
  BY NoneAssumption DEF LogTrade, TypeInv, TypeOK, LocalsOK, Orders, NoOrder
<1>2. order'[l] = NoOrder /\ mem'[l] = Applied(mem[l], order[l])
  BY DEF LogTrade, TypeInv, TypeOK
<1>3. order[l] # NoOrder
  BY <1>1, NoneAssumption DEF NoOrder
<1>4. d.approved => ~d.pause
  BY <1>1 DEF Decisions, Approval, Rejection
<1>5. CallsLeft(l) = LaterCalls(l) + calls[l] /\ CallsLeft(l) \in Nat
  BY <1>1, CallsLeftType DEF CallsLeft
<1>6. CASE d.pause /\ Goto(l, "pauseDB") /\ UNCHANGED calls
  <2>1. pc'[l] = "pauseDB"
    BY <1>6 DEF Goto, TypeInv, TypeOK
  <2>2. CallsLeft(l)' = CallsLeft(l)
    BY <1>1, <1>5, <1>6, <2>1 DEF CallsLeft, LaterCalls
  <2> QED
    BY <1>2, <1>3, <1>4, <1>5, <1>6, <2>2 DEF StateStep, CarriesOut
<1>7. CASE NextCall(l)
  <2>1. CallsLeft(l)' = CallsLeft(l) - 1
    BY <1>1, <1>7, OnwardUses DEF NextCall
  <2> QED
    BY <1>2, <1>3, <1>5, <2>1 DEF StateStep, CarriesOut
<1> QED
  BY <1>6, <1>7 DEF LogTrade

\* The other steps of a goroutine.
LEMMA GoroutineStateStep ==
    ASSUME TypeInv, NEW l \in Loops, Looping(l)
    PROVE  StateStep(l)
<1> USE DEF procVars, TypeInv, TypeOK
<1>1. CASE BeginCycle(l)
  <2>1. /\ pc[l] = "idle" /\ pc'[l] = "tools" /\ mem[l].cycle < MaxCycles
        /\ mem'[l] = [mem[l] EXCEPT !.cycle = @ + 1]
        /\ order'[l] = NoOrder
    BY <1>1 DEF BeginCycle, Goto, LocalsOK
  <2> QED
    BY <2>1 DEF StateStep, CountsCycle, CallsLeft
<1>2. CASE ExitLoop(l) \/ Panic(l) \/ GetTools(l) \/ PersistCycle(l) \/ PersistState(l)
  <2>1. /\ mem' = mem /\ order' = order /\ conf' = conf /\ round' = round /\ calls' = calls
        /\ \/ pc'[l] \in {"exited", "persistLog", "persistState", "idle"}
           \/ pc[l] = "tools" /\ pc'[l] = "chat"
    BY <1>2 DEF ExitLoop, Panic, GetTools, PersistCycle, PersistState, Goto
  <2>2. CallsLeft(l)' <= CallsLeft(l)
    <3>1. CallsLeft(l) \in Nat /\ LaterCalls(l) \in 0..TradesPerCycle
          /\ LaterCalls(l)' = LaterCalls(l)
      BY <2>1, CallsLeftType DEF LaterCalls
    <3>2. CASE pc'[l] \in {"exited", "persistLog", "persistState", "idle"}
      BY <3>1, <3>2 DEF CallsLeft
    <3>3. CASE pc[l] = "tools" /\ pc'[l] = "chat"
      BY <3>1, <3>3 DEF CallsLeft
    <3> QED
      BY <2>1, <3>2, <3>3
  <2> QED
    BY <2>1, <2>2 DEF StateStep, KeepsState
<1>3. CASE Chat(l)
  <2>1. /\ mem' = mem /\ order' = order /\ conf' = conf /\ pc[l] = "chat"
    BY <1>3 DEF Chat
  <2>2. CallsLeft(l) = LaterCalls(l) /\ CallsLeft(l) \in Nat
    BY <2>1, CallsLeftType DEF CallsLeft
  <2>3. CASE pc'[l] = "persistLog"
    BY <2>1, <2>2, <2>3 DEF StateStep, KeepsState, CallsLeft
  <2>4. CASE /\ round[l] < MaxToolCallRounds
             /\ \E n \in 1..MaxCalls : calls' = [calls EXCEPT ![l] = n]
             /\ round' = [round EXCEPT ![l] = @ + 1]
             /\ Goto(l, "call")
    <3>1. round[l] \in 0..MaxToolCallRounds /\ round'[l] = round[l] + 1
          /\ pc'[l] = "call" /\ calls'[l] \in 1..MaxCalls
      BY <2>4 DEF Goto
    <3>2. LaterCalls(l)' = LaterCalls(l) - MaxCalls
      BY <2>4, <3>1, RoundsArithmetic DEF LaterCalls
    <3>3. CallsLeft(l)' = LaterCalls(l)' + calls'[l]
      BY <3>1 DEF CallsLeft
    <3>4. CallsLeft(l)' <= CallsLeft(l)
      BY <2>2, <3>1, <3>2, <3>3, BoundsAssumption
    <3> QED
      BY <2>1, <3>4 DEF StateStep, KeepsState
  <2> QED
    BY <1>3, <2>3, <2>4 DEF Chat, Goto
<1>4. CASE OtherCall(l) \/ RiskPause(l)
  <2>1. CallsLeft(l)' = CallsLeft(l) - 1 /\ CallsLeft(l) \in Nat
    BY <1>4, OnwardUses, CallsLeftType DEF OtherCall, RiskPause, NextCall
  <2> QED
    BY <1>4, <2>1 DEF OtherCall, RiskPause, StateStep, KeepsState
<1>5. CASE PauseInDB(l)
  <2>1. /\ mem' = mem /\ order' = order /\ conf' = conf /\ round' = round /\ calls' = calls
        /\ pc[l] = "pauseDB" /\ pc'[l] = "pause"
    BY <1>5 DEF PauseInDB, Goto
  <2>2. CallsLeft(l)' = CallsLeft(l) /\ CallsLeft(l) \in Nat
    BY <2>1, CallsLeftType DEF CallsLeft, LaterCalls
  <2> QED
    BY <2>1, <2>2 DEF StateStep, KeepsState
<1> QED
  BY <1>1, <1>2, <1>3, <1>4, <1>5, DecisionStep, CarryOutStep DEF Looping, RunCycle

\* A goroutine's step does nothing to another loop's state.
LEMMA OtherLoopStep ==
    ASSUME TypeInv, NEW l \in Loops, NEW m \in Loops \ {l}, Looping(l)
    PROVE  StateStep(m)
<1> USE DEF TypeInv, TypeOK, Goto, NextCall, Onward, procVars
<1> SUFFICES /\ mem'[m] = mem[m] /\ pc'[m] = pc[m] /\ round'[m] = round[m] /\ calls'[m] = calls[m]
             /\ order'[m] = order[m] /\ conf'[m] = conf[m]
  BY FrameStep
<1>1. CASE BeginCycle(l) \/ ExitLoop(l) \/ Panic(l)
  BY <1>1 DEF BeginCycle, ExitLoop, Panic
<1>2. CASE GetTools(l) \/ Chat(l) \/ OtherCall(l)
  BY <1>2 DEF GetTools, Chat, OtherCall
<1>3. CASE \E t \in Trades : ValidateTrade(l, t)
  BY <1>3 DEF ValidateTrade
<1>4. CASE LogTrade(l)
  BY <1>4 DEF LogTrade
<1>5. CASE PauseInDB(l) \/ RiskPause(l) \/ PersistCycle(l) \/ PersistState(l)
  BY <1>5 DEF PauseInDB, RiskPause, PersistCycle, PersistState
<1> QED
  BY <1>1, <1>2, <1>3, <1>4, <1>5 DEF Looping, RunCycle

LEMMA EveryStateStep ==
    ASSUME TypeInv, [Next]_vars, NEW l \in Loops
    PROVE  StateStep(l)
<1>1. CASE \E m \in Loops : Looping(m)
  BY <1>1, GoroutineStateStep, OtherLoopStep
<1> QED
  BY <1>1, SchedulerStateStep, NextParts

\* The persisted state of an agent is kept, or a loop stores its own, or a late
\* statement stores the one it was sent with.
StoresState(a) ==
    \/ dbState'[a] = dbState[a]
    \/ \E l \in Loops : dbState'[a] = mem[l]
    \/ \E s \in late : s.at = "persistState" /\ dbState'[a] = s.state

LEMMA ExecutesState ==
    ASSUME TypeInv, NEW s \in Statements, Executes(s), NEW a \in Agents
    PROVE  dbState'[a] = dbState[a] \/ (s.at = "persistState" /\ dbState'[a] = s.state)
<1>1. CASE UNCHANGED dbState
  BY <1>1
<1>2. CASE s.at = "persistState" /\ dbState' = [dbState EXCEPT ![owner[s.loop]] = s.state]
  BY <1>2 DEF TypeInv, TypeOK
<1> QED
  BY <1>1, <1>2 DEF Executes

LEMMA StoredStates ==
    ASSUME TypeInv, [Next]_vars, NEW a \in Agents
    PROVE  StoresState(a)
<1>1. CASE LateGrows \/ \E b \in Agents : Serve(b)
  BY <1>1 DEF LateGrows, tables, Serve, StoresState
<1>2. ASSUME NEW s \in late, LateRuns(s) PROVE StoresState(a)
  <2>1. s \in Statements
    BY DEF TypeInv, TypeOK
  <2> QED
    BY <1>2, <2>1, ExecutesState DEF LateRuns, StoresState
<1>3. ASSUME NEW l \in Loops, LoopRuns(l) PROVE StoresState(a)
  <2>1. PICK s \in Issuable(l) : Executes(s)
    BY <1>3 DEF LoopRuns
  <2>2. s \in Statements /\ s.state = mem[l]
    BY <1>3, <2>1, IssuableType DEF LoopRuns
  <2> QED
    BY <2>1, <2>2, ExecutesState DEF StoresState
<1> QED
  BY <1>1, <1>2, <1>3, DbStepNext DEF DbStep

\* A statement that becomes late carries its loop's state.
LEMMA LateStates ==
    ASSUME TypeInv, [Next]_vars, NEW s \in late'
    PROVE  s \in late \/ (s.loop \in Loops /\ s.state = mem[s.loop])
<1>1. late' \subseteq late \/ LateGrows
  BY DbStepNext DEF DbStep, LateRuns, LoopRuns, Serve
<1>2. ASSUME NEW l \in Loops, s \in InFlight(l)
      PROVE  s.loop = l /\ s.state = mem[l]
  BY <1>2, InFlightType, IssuableType
<1> QED
  BY <1>1, <1>2 DEF LateGrows

LEMMA BudgetInit == Init => CycleBudget
<1> SUFFICES ASSUME Init PROVE CycleBudget
  OBVIOUS
<1>1. \A a \in Agents : dbState[a].trades = 0 /\ dbState[a].cycle = 0
  BY DEF Init, FreshState
<1>2. \A l \in Loops : mem[l].trades = 0 /\ mem[l].cycle = 0 /\ CallsLeft(l) = 0
  BY <1>1 DEF Init, CallsLeft
<1>3. 0 * TradesPerCycle = 0 /\ MaxCycles \in Nat
  BY BoundsAssumption DEF TradesPerCycle
<1> QED
  BY <1>1, <1>2, <1>3 DEF CycleBudget, WithinCycles, Init

LEMMA BudgetNext == TypeInv /\ CycleBudget /\ [Next]_vars => CycleBudget'
<1> SUFFICES ASSUME TypeInv, CycleBudget, [Next]_vars PROVE CycleBudget'
  OBVIOUS
<1> DEFINE K == TradesPerCycle
<1>1. K \in Nat /\ MaxCycles \in Nat
  BY BoundsAssumption DEF TradesPerCycle
<1>2. ASSUME NEW l \in Loops
      PROVE  /\ mem'[l].trades + CallsLeft(l)' <= mem'[l].cycle * K
             /\ mem'[l].cycle <= MaxCycles
  <2>1. /\ mem[l] \in AgentStates /\ dbState[owner[l]] \in AgentStates
        /\ mem'[l] \in AgentStates
        /\ CallsLeft(l) \in Nat /\ CallsLeft(l)' \in Nat
    <3>1. TypeInv'
      BY TypeNext
    <3>3. CallsLeft(l)' \in Nat
      BY <3>1, CallsLeftNext DEF CallsLeftNat
    <3>4. CallsLeft(l) \in Nat
      BY CallsLeftType
    <3> QED
      BY <3>1, <3>3, <3>4 DEF TypeInv, TypeOK
  <2>2. /\ mem[l].trades + CallsLeft(l) <= mem[l].cycle * K
        /\ mem[l].cycle <= MaxCycles
        /\ dbState[owner[l]].trades <= dbState[owner[l]].cycle * K
        /\ dbState[owner[l]].cycle <= MaxCycles
    BY DEF CycleBudget, WithinCycles, TypeInv, TypeOK
  <2>3. /\ mem[l].trades \in Nat /\ mem[l].cycle \in Nat /\ mem[l].cycle * K \in Nat
        /\ dbState[owner[l]].trades \in Nat /\ dbState[owner[l]].cycle * K \in Nat
    BY <1>1, <2>1 DEF AgentStates
  <2> HIDE DEF K
  <2>4. CASE KeepsState(l)
    BY <2>1, <2>2, <2>3, <2>4 DEF KeepsState
  <2>5. CASE LoadsState(l)
    BY <2>1, <2>2, <2>3, <2>5 DEF LoadsState
  <2>6. CASE CountsCycle(l)
    <3>1. /\ mem'[l].trades = mem[l].trades /\ mem'[l].cycle = mem[l].cycle + 1
          /\ CallsLeft(l)' = K /\ CallsLeft(l) = 0 /\ mem[l].cycle < MaxCycles
      BY <2>1, <2>6 DEF CountsCycle, AgentStates, K
    <3>2. (mem[l].cycle + 1) * K = mem[l].cycle * K + K
      BY <1>1, <2>3
    <3> QED
      BY <1>1, <2>2, <2>3, <3>1, <3>2
  <2>7. ASSUME NEW t \in Trades, Decides(l, t)
        PROVE  mem'[l] = mem[l] /\ CallsLeft(l)' = CallsLeft(l)
    BY <2>7 DEF Decides
  <2>8. CASE CarriesOut(l)
    <3>1. /\ mem'[l] = Applied(mem[l], order[l]) /\ CallsLeft(l)' <= CallsLeft(l)
          /\ order[l].decision.approved => CallsLeft(l)' = CallsLeft(l) - 1
          /\ order[l].trade \in Trades
      BY <2>8 DEF CarriesOut, TypeInv, LocalsOK
    <3>2. CASE order[l].decision.approved
      <4>1. mem'[l].trades = mem[l].trades + 1 /\ mem'[l].cycle = mem[l].cycle
        BY <2>1, <3>1, <3>2, ExecuteType DEF Applied
      <4> QED
        BY <2>1, <2>2, <2>3, <3>1, <3>2, <4>1
    <3>3. CASE ~order[l].decision.approved
      BY <2>1, <2>2, <2>3, <3>1, <3>3 DEF Applied
    <3> QED
      BY <3>2, <3>3
  <2> QED
    BY <2>2, <2>4, <2>5, <2>6, <2>7, <2>8, EveryStateStep DEF StateStep
<1>3. ASSUME NEW l \in Loops
      PROVE  WithinCycles(mem[l])
  <2>1. mem[l] \in AgentStates /\ CallsLeft(l) \in Nat
    BY CallsLeftType DEF TypeInv, TypeOK
  <2>2. mem[l].trades \in Nat /\ mem[l].cycle * K \in Nat
    BY <1>1, <2>1 DEF AgentStates
  <2>3. mem[l].trades + CallsLeft(l) <= mem[l].cycle * K /\ mem[l].cycle <= MaxCycles
    BY DEF CycleBudget
  <2> HIDE DEF K
  <2>4. mem[l].trades <= mem[l].cycle * K
    BY <2>1, <2>2, <2>3
  <2> QED
    BY <2>3, <2>4 DEF WithinCycles, K
<1>4. ASSUME NEW a \in Agents
      PROVE  WithinCycles(dbState'[a])
  BY <1>3, StoredStates DEF StoresState, CycleBudget
<1>5. ASSUME NEW s \in late'
      PROVE  WithinCycles(s.state)
  BY <1>3, LateStates DEF CycleBudget
<1> QED
  BY <1>2, <1>4, <1>5 DEF CycleBudget, WithinCycles

\* An agent never makes more trades than its cycles times the rounds of a cycle
\* times the calls of an answer, over restarts, replaced loops and lost writes:
\* no step hands a cycle calls it did not have (the loop of RunCycle).
THEOREM BudgetHolds == Spec => []CycleBudget
BY TypeInit, TypeNext, BudgetInit, BudgetNext, PTL DEF Spec

-----------------------------------------------------------------------------
(* The position limit.                                                     *)

\* One trade raises the position by its amount at most, a SELL not at all.
LEMMA ExecutePosition ==
    ASSUME NEW s \in AgentStates, NEW t \in Trades, t.amount > 0
    PROVE  currentPosition(Execute(s, t).hold) <= currentPosition(s.hold) + t.amount
<1> DEFINE p == t.pair
           after == Execute(s, t).hold
<1>1. /\ p \in Pairs /\ t.amount \in Int /\ s.hold \in [Pairs -> Int]
  BY TradesAssumption DEF AgentStates
<1>2. after \in [Pairs -> Int]
  BY ExecuteType DEF AgentStates
<1>3. /\ \A q \in Pairs \ {p} : after[q] = s.hold[q]
      /\ after[p] = CASE t.action = "BUY"  -> s.hold[p] + t.amount
                       [] t.action = "SELL" -> s.hold[p] - t.amount
                       [] OTHER             -> s.hold[p]
  BY <1>1 DEF Execute, AgentStates
<1>4. after[p] <= s.hold[p] + t.amount /\ after[p] \in Int /\ s.hold[p] \in Int
  <2> HIDE DEF after
  <2>1. after[p] \in Int /\ s.hold[p] \in Int
    BY <1>1, <1>2
  <2> QED
    BY <1>1, <1>3, <2>1
<1>5. Held(after, p) - Held(s.hold, p) <= t.amount
      /\ Held(after, p) \in Int /\ Held(s.hold, p) \in Int
  <2> HIDE DEF after
  <2> QED
    BY <1>1, <1>4 DEF Held
<1>6. /\ currentPosition(after) = currentPosition(s.hold) + (Held(after, p) - Held(s.hold, p))
      /\ currentPosition(s.hold) \in Nat
  <2> HIDE DEF after
  <2> QED
    BY <1>1, <1>2, <1>3, PositionIsASum, PositionType, SumsChange
<1> HIDE DEF after, p
<1> QED
  BY <1>1, <1>5, <1>6 DEF after

PositionFits(s, M) == currentPosition(s.hold) <= s.trades * M

\* A position is at most what its trades may have bought, an order is for a
\* positive amount, and one that is approved keeps the position limit.
PositionInv(M) ==
    /\ \A l \in Loops : PositionFits(mem[l], M)
    /\ \A a \in Agents : PositionFits(dbState[a], M)
    /\ \A s \in late : PositionFits(s.state, M)
    /\ \A l \in Loops : order[l].trade # None => order[l].trade.amount > 0
    /\ \A l \in Loops : Pending(l) = 1 => PositionLimitKept(l)

\* The part of it that is about one loop.
LoopPosition(l, M) ==
    /\ PositionFits(mem[l], M)
    /\ order[l].trade # None => order[l].trade.amount > 0
    /\ Pending(l) = 1 => PositionLimitKept(l)

LEMMA WrapInRange ==
    ASSUME NEW n \in Nat, n <= MaxInt64
    PROVE  Wrap64(n) = n
<1> DEFINE m == n + MaxInt64 + 1
           w == 2 * (MaxInt64 + 1)
<1>1. m \in 0..(w - 1) /\ w \in Nat \ {0}
  BY MaxInt64Assumption
<1>2. m % w = m
  <2> HIDE DEF m, w
  <2> QED
    BY <1>1
<1> QED
  BY <1>2, MaxInt64Assumption DEF Wrap64

LEMMA PositionInit ==
    ASSUME NEW M \in Nat
    PROVE  Init => PositionInv(M)
<1> SUFFICES ASSUME Init PROVE PositionInv(M)
  OBVIOUS
<1> DEFINE none == [p \in Pairs |-> 0]
<1>1. /\ \A a \in Agents : dbState[a].trades = 0 /\ dbState[a].hold = none
      /\ \A l \in Loops : mem[l].trades = 0 /\ mem[l].hold = none
      /\ \A l \in Loops : order[l] = NoOrder
  BY DEF Init, FreshState
<1>2. currentPosition(none) = 0
  <2> DEFINE Good == {t \in SUBSET Pairs : Sums(none)[t] = 0}
  <2>1. {} \in Good
    BY EmptySum
  <2>2. ASSUME NEW t \in SUBSET Pairs, t # {}, t \ {First(t)} \in Good
        PROVE  t \in Good
    <3>1. First(t) \in t
      BY <2>2 DEF First
    <3>2. Held(none, First(t)) = 0
      BY <3>1 DEF Held
    <3>3. Sums(none)[t] = Held(none, First(t)) + Sums(none)[t \ {First(t)}]
      BY <2>2, SumsUnfold DEF Adds
    <3> QED
      BY <2>2, <3>2, <3>3
  <2>3. Good = SUBSET Pairs
    <3> HIDE DEF Good
    <3>1. Good \subseteq SUBSET Pairs
      BY DEF Good
    <3> QED
      BY <2>1, <2>2, <3>1, PairSetInduction
  <2> QED
    BY <2>3, PositionIsASum
<1>3. 0 * M = 0
  OBVIOUS
<1> HIDE DEF none
<1> QED
  BY <1>1, <1>2, <1>3 DEF PositionInv, PositionFits, Pending, NoOrder, Init

\* A step of loop l's that leaves what its order was decided on alone.
LEMMA PositionFrame ==
    ASSUME NEW M \in Nat, PositionInv(M), NEW l \in Loops, mem'[l] = mem[l],
           order'[l] = NoOrder \/ (order'[l] = order[l] /\ conf'[l] = conf[l])
    PROVE  LoopPosition(l, M)'
<1>1. CASE order'[l] = NoOrder
  BY <1>1 DEF PositionInv, LoopPosition, PositionFits, Pending, NoOrder
<1>2. CASE order'[l] = order[l] /\ conf'[l] = conf[l]
  BY <1>2 DEF PositionInv, LoopPosition, PositionFits, Pending, PositionLimitKept, Execute
<1> QED
  BY <1>1, <1>2

\* What is approved leaves room for its amount, in the range of an int64.
LEMMA PositionApproved ==
    ASSUME NEW M \in Nat, AmountsFit(M), TypeInv, CycleBudget, PositionInv(M),
           NEW l \in Loops, NEW t \in Trades, Decides(l, t)
    PROVE  LoopPosition(l, M)'
<1> DEFINE s == mem[l]
           pos == currentPosition(s.hold)
           d == Decision(l, t)
<1>1. /\ t.amount > 0 /\ CallsLeft(l) > 0 /\ mem'[l] = s /\ conf'[l] = conf[l]
      /\ order'[l].trade = t /\ order'[l].decision = d
  BY DEF Decides
<1>2. s \in AgentStates /\ conf[l] \in Confs /\ t.amount \in Int /\ CallsLeft(l) \in Nat
  BY TradesAssumption, CallsLeftType DEF TypeInv, TypeOK
<1>3. /\ s.trades \in Nat /\ s.cycle \in Nat /\ s.hold \in [Pairs -> Int]
      /\ TradesPerCycle \in Nat /\ MaxCycles \in Nat
  BY <1>2, BoundsAssumption DEF AgentStates, TradesPerCycle
<1>4. pos \in Nat /\ pos <= s.trades * M
  BY <1>3, PositionType DEF PositionInv, PositionFits
<1>5. s.trades + 1 <= MaxCycles * TradesPerCycle
  <2>1. s.trades + CallsLeft(l) <= s.cycle * TradesPerCycle /\ s.cycle <= MaxCycles
    BY DEF CycleBudget
  <2>2. s.cycle * TradesPerCycle <= MaxCycles * TradesPerCycle
    BY <1>3, <2>1
  <2>3. s.cycle * TradesPerCycle \in Nat /\ MaxCycles * TradesPerCycle \in Nat
    BY <1>3
  <2> HIDE DEF s
  <2> QED
    BY <1>1, <1>2, <1>3, <2>1, <2>2, <2>3
<1>6. pos + t.amount <= MaxInt64
  <2>1. t.amount <= M /\ MaxCycles * TradesPerCycle * M <= MaxInt64
    BY DEF AmountsFit
  <2> DEFINE n == MaxCycles * TradesPerCycle
  <2>2. n \in Nat
    BY <1>3
  <2>3. (s.trades + 1) * M <= n * M
    <3> HIDE DEF n, s
    <3> QED
      BY <1>3, <1>5, <2>2 DEF n
  <2>4. (s.trades + 1) * M = s.trades * M + M
    BY <1>3
  <2>5. s.trades * M \in Nat /\ n * M \in Nat
    BY <1>3, <2>2
  <2> HIDE DEF n, s, pos
  <2> QED
    BY <1>2, <1>4, <2>1, <2>3, <2>4, <2>5, MaxInt64Assumption DEF n
<1>7. Wrap64(pos + t.amount) = pos + t.amount
  <2> HIDE DEF pos
  <2>1. pos + t.amount \in Nat
    BY <1>1, <1>2, <1>4
  <2> QED
    BY <1>6, <2>1, WrapInRange
<1>8. ASSUME d.approved, conf[l].risk.maxRatio > 0, conf[l].aum > 0
      PROVE  100 * currentPosition(Execute(s, t).hold) <= conf[l].risk.maxRatio * conf[l].aum
  <2>1. ~Violates("position_ratio", t, conf[l].risk, riskState(conf[l], s))
    BY <1>8, ApprovedBreaksNoRule DEF rules, Decision
  <2>2. ~(100 * (pos + t.amount) > conf[l].risk.maxRatio * conf[l].aum)
    BY <1>7, <1>8, <2>1 DEF Violates, checkPositionRatio, riskState
  <2>3. currentPosition(Execute(s, t).hold) <= pos + t.amount
    BY <1>1, <1>2, ExecutePosition
  <2>4. currentPosition(Execute(s, t).hold) \in Nat
    BY <1>2, ExecuteType, PositionType DEF AgentStates
  <2>5. conf[l].risk.maxRatio * conf[l].aum \in Int
    BY <1>2, ConfsTyped
  <2> DEFINE after == currentPosition(Execute(s, t).hold)
             limit == conf[l].risk.maxRatio * conf[l].aum
  <2> HIDE DEF after, limit, pos, s
  <2> QED
    BY <1>2, <1>4, <2>2, <2>3, <2>4, <2>5 DEF after, limit
<1>9. PositionFits(mem[l], M)'
  BY <1>1 DEF PositionInv, PositionFits
<1>10. (Pending(l) = 1 => PositionLimitKept(l))'
  <2> HIDE DEF d
  <2>1. ASSUME Pending(l)' = 1 PROVE d.approved
    BY <1>1, <2>1 DEF Pending
  <2> QED
    BY <1>1, <1>8, <2>1 DEF PositionLimitKept, Execute
<1>11. (order[l].trade # None => order[l].trade.amount > 0)'
  BY <1>1
<1> QED
  BY <1>9, <1>10, <1>11 DEF LoopPosition

\* A trade that is carried out adds at most its amount.
LEMMA PositionCarriedOut ==
    ASSUME NEW M \in Nat, AmountsFit(M), TypeInv, PositionInv(M),
           NEW l \in Loops, CarriesOut(l)
    PROVE  LoopPosition(l, M)'
<1> DEFINE s == mem[l]
           t == order[l].trade
<1>1. /\ mem'[l] = Applied(s, order[l]) /\ order'[l] = NoOrder /\ order[l] # NoOrder
  BY DEF CarriesOut
<1>2. t \in Trades /\ t # None /\ s \in AgentStates
  BY <1>1, NoneAssumption DEF TypeInv, TypeOK, LocalsOK
<1>3. t.amount > 0 /\ t.amount <= M /\ t.amount \in Int
  BY <1>2, TradesAssumption DEF PositionInv, AmountsFit
<1>4. PositionFits(mem[l], M)'
  <2>1. CASE order[l].decision.approved
    <3>1. mem'[l] = Execute(s, t) /\ Execute(s, t).trades = s.trades + 1
      BY <1>1, <1>2, <2>1, ExecuteType DEF Applied
    <3>2. currentPosition(Execute(s, t).hold) <= currentPosition(s.hold) + t.amount
      BY <1>2, <1>3, ExecutePosition
    <3>3. currentPosition(s.hold) <= s.trades * M
      BY DEF PositionInv, PositionFits
    <3>4. /\ currentPosition(s.hold) \in Nat /\ s.trades \in Nat
          /\ currentPosition(Execute(s, t).hold) \in Nat
      BY <1>2, ExecuteType, PositionType DEF AgentStates
    <3>5. (s.trades + 1) * M = s.trades * M + M /\ s.trades * M \in Nat
      BY <3>4
    <3>6. currentPosition(Execute(s, t).hold) <= (s.trades + 1) * M
      <4> HIDE DEF s, t
      <4> QED
        BY <1>3, <3>2, <3>3, <3>4, <3>5
    <3> QED
      BY <3>1, <3>6 DEF PositionFits
  <2>2. CASE ~order[l].decision.approved
    BY <1>1, <2>2 DEF Applied, PositionInv, PositionFits
  <2> QED
    BY <2>1, <2>2
<1> QED
  BY <1>1, <1>4 DEF LoopPosition, Pending, NoOrder

LEMMA PositionNext ==
    ASSUME NEW M \in Nat, AmountsFit(M)
    PROVE  TypeInv /\ CycleBudget /\ PositionInv(M) /\ [Next]_vars => PositionInv(M)'
<1> SUFFICES ASSUME TypeInv, CycleBudget, PositionInv(M), [Next]_vars
             PROVE  PositionInv(M)'
  OBVIOUS
<1>1. ASSUME NEW l \in Loops
      PROVE  LoopPosition(l, M)'
  <2>1. CASE KeepsState(l)
    BY <2>1, PositionFrame DEF KeepsState
  <2>2. CASE LoadsState(l)
    BY <2>2 DEF LoadsState, PositionInv, LoopPosition, PositionFits, Pending, NoOrder, TypeInv, TypeOK
  <2>3. CASE CountsCycle(l)
    <3>1. mem'[l].trades = mem[l].trades /\ mem'[l].hold = mem[l].hold /\ order'[l] = NoOrder
      BY <2>3 DEF CountsCycle, TypeInv, TypeOK, AgentStates
    <3> QED
      BY <3>1 DEF PositionInv, LoopPosition, PositionFits, Pending, NoOrder
  <2>4. ASSUME NEW t \in Trades, Decides(l, t)
        PROVE  LoopPosition(l, M)'
    BY <2>4, PositionApproved
  <2>5. CASE CarriesOut(l)
    BY <2>5, PositionCarriedOut
  <2> QED
    BY <2>1, <2>2, <2>3, <2>4, <2>5, EveryStateStep DEF StateStep
<1>2. \A a \in Agents : PositionFits(dbState[a], M)'
  BY StoredStates DEF StoresState, PositionInv, PositionFits
<1>3. \A s \in late' : PositionFits(s.state, M)
  BY LateStates DEF PositionInv, PositionFits
<1> QED
  BY <1>1, <1>2, <1>3 DEF PositionInv, PositionFits, LoopPosition

\* No approved trade takes its loop past the hourly limit or the position limit
\* it was decided under, whatever happened between the decision and its
\* execution, to the row or to the other loops, as long as an agent cannot
\* move more than an int64 holds.
THEOREM LimitsHold ==
    ASSUME NEW M \in Nat, AmountsFit(M)
    PROVE  Spec => []LimitsKept
<1>1. Init => PositionInv(M)
  BY PositionInit
<1>2. TypeInv /\ CycleBudget /\ PositionInv(M) /\ [Next]_vars => PositionInv(M)'
  BY PositionNext
<1>3. HourlyLimits /\ PositionInv(M) => LimitsKept
  BY DEF HourlyLimits, PositionInv, LimitsKept
<1> QED
  BY <1>1, <1>2, <1>3, TypeInit, TypeNext, BudgetInit, BudgetNext, HourlyInit, HourlyNext,
     PTL DEF Spec

-----------------------------------------------------------------------------
(* A cycle comes to its end: the part of it that is not about fairness.    *)

\* What a round may cost in steps: its Chat, and four for each of its calls.
RoundCost == 4 * MaxCalls + 1

LaterCost(l) == (MaxToolCallRounds - round[l]) * RoundCost

\* An upper bound on the steps loop l still takes in its cycle.
Rank(l) ==
    CASE pc[l] = "tools"        -> MaxToolCallRounds * RoundCost + 4
      [] pc[l] = "chat"         -> LaterCost(l) + 3
      [] pc[l] = "call"         -> LaterCost(l) + 4 * calls[l] + 3
      [] pc[l] = "log"          -> LaterCost(l) + 4 * calls[l] + 2
      [] pc[l] = "pauseDB"      -> LaterCost(l) + 4 * calls[l] + 1
      [] pc[l] = "pause"        -> LaterCost(l) + 4 * calls[l]
      [] pc[l] = "persistLog"   -> 2
      [] pc[l] = "persistState" -> 1
      [] OTHER                  -> 0

LEMMA CostArithmetic ==
    ASSUME NEW r \in 0..MaxToolCallRounds
    PROVE  /\ RoundCost \in Nat /\ MaxToolCallRounds * RoundCost \in Nat
           /\ (MaxToolCallRounds - r) * RoundCost \in Nat
           /\ (MaxToolCallRounds - r) * RoundCost <= MaxToolCallRounds * RoundCost
           /\ (MaxToolCallRounds - (r + 1)) * RoundCost
                   = (MaxToolCallRounds - r) * RoundCost - RoundCost
<1>1. MaxToolCallRounds \in Nat /\ RoundCost \in Nat /\ r \in Nat
  BY BoundsAssumption DEF RoundCost
<1>2. (MaxToolCallRounds - r) * RoundCost = MaxToolCallRounds * RoundCost - r * RoundCost
  BY <1>1
<1>3. r * RoundCost \in Nat /\ MaxToolCallRounds * RoundCost \in Nat
  BY <1>1
<1>4. (MaxToolCallRounds - r) * RoundCost \in Nat
  BY <1>1
<1>5. (MaxToolCallRounds - (r + 1)) * RoundCost = MaxToolCallRounds * RoundCost - (r + 1) * RoundCost
  BY <1>1
<1>6. (r + 1) * RoundCost = r * RoundCost + RoundCost
  BY <1>1
<1> QED
  BY <1>1, <1>2, <1>3, <1>4, <1>5, <1>6

LEMMA RankType ==
    ASSUME TypeInv, NEW l \in Loops
    PROVE  /\ Rank(l) \in Nat /\ LaterCost(l) \in Nat /\ calls[l] \in Nat
           /\ LaterCost(l) <= MaxToolCallRounds * RoundCost
           /\ MaxToolCallRounds * RoundCost \in Nat
<1>1. /\ LaterCost(l) \in Nat /\ MaxToolCallRounds * RoundCost \in Nat
      /\ LaterCost(l) <= MaxToolCallRounds * RoundCost
  BY CostArithmetic DEF TypeInv, TypeOK, LaterCost
<1>2. calls[l] \in Nat
  BY BoundsAssumption DEF TypeInv, TypeOK
<1> QED
  BY <1>1, <1>2 DEF Rank

RankNat == \A l \in Loops : Rank(l) \in Nat

LEMMA RankNow == TypeInv => RankNat
BY RankType DEF RankNat

LEMMA RankNext == TypeInv' => RankNat'
BY RankNow, PTL

\* Every step of RunCycle lowers the rank of its loop,
LEMMA RunCycleLowers ==
    ASSUME TypeInv, NEW l \in Loops, RunCycle(l)
    PROVE  Rank(l)' < Rank(l)
<1> DEFINE later == LaterCost(l)
<1>1. /\ later \in Nat /\ calls[l] \in Nat /\ later <= MaxToolCallRounds * RoundCost
      /\ MaxToolCallRounds * RoundCost \in Nat
  BY RankType
<1>2. ASSUME round' = round, pc[l] \in {"call", "log", "pause"}, Onward(l)
      PROVE  Rank(l)' < Rank(l)
  <2>1. /\ calls[l] # 0 /\ calls'[l] = calls[l] - 1
        /\ pc'[l] = IF calls[l] > 1 THEN "call" ELSE "chat"
    BY <1>2 DEF Onward, TypeInv, TypeOK, LocalsOK
  <2>2. LaterCost(l)' = later
    BY <1>2 DEF LaterCost
  <2>3. Rank(l) >= later + 4 * calls[l]
    BY <1>1, <1>2 DEF Rank
  <2>4. Rank(l)' <= later + 4 * (calls[l] - 1) + 3
    <3> HIDE DEF later
    <3>1. CASE calls[l] > 1
      BY <1>1, <2>1, <2>2, <3>1 DEF Rank
    <3>2. CASE calls[l] = 1
      BY <1>1, <2>1, <2>2, <3>2 DEF Rank
    <3> QED
      BY <1>1, <2>1, <3>1, <3>2
  <2>5. Rank(l)' \in Nat /\ Rank(l) \in Nat
    <3>1. Rank(l) \in Nat
      BY RankType
    <3> HIDE DEF later
    <3>2. Rank(l)' \in Nat
      BY <1>1, <2>1, <2>2 DEF Rank
    <3> QED
      BY <3>1, <3>2
  <2> HIDE DEF later
  <2> QED
    BY <1>1, <2>3, <2>4, <2>5
<1>3. CASE GetTools(l)
  <2>1. pc[l] = "tools" /\ pc'[l] \in {"chat", "persistLog"} /\ round' = round
    BY <1>3 DEF GetTools, Goto, TypeInv, TypeOK
  <2>2. LaterCost(l)' = later
    BY <2>1 DEF LaterCost
  <2> HIDE DEF later
  <2> QED
    BY <1>1, <2>1, <2>2 DEF Rank
<1>4. CASE Chat(l)
  <2>1. pc[l] = "chat" /\ Rank(l) = later + 3
    BY <1>4 DEF Chat, Rank
  <2>2. CASE pc'[l] = "persistLog"
    <3>1. Rank(l)' = 2
      BY <2>2 DEF Rank
    <3> HIDE DEF later
    <3> QED
      BY <1>1, <2>1, <3>1
  <2>3. CASE /\ round[l] < MaxToolCallRounds
             /\ \E n \in 1..MaxCalls : calls' = [calls EXCEPT ![l] = n]
             /\ round' = [round EXCEPT ![l] = @ + 1]
             /\ Goto(l, "call")
    <3>1. round[l] \in 0..MaxToolCallRounds /\ round'[l] = round[l] + 1
          /\ pc'[l] = "call" /\ calls'[l] \in 1..MaxCalls
      BY <2>3 DEF Goto, TypeInv, TypeOK
    <3>2. LaterCost(l)' = later - RoundCost
      BY <3>1, CostArithmetic DEF LaterCost
    <3>3. Rank(l)' = LaterCost(l)' + 4 * calls'[l] + 3
      BY <3>1 DEF Rank
    <3> HIDE DEF later
    <3> QED
      BY <1>1, <2>1, <3>1, <3>2, <3>3, BoundsAssumption DEF RoundCost
  <2> QED
    BY <1>4, <2>2, <2>3 DEF Chat, Goto, TypeInv, TypeOK
<1>5. CASE OtherCall(l) \/ RiskPause(l)
  BY <1>2, <1>5 DEF OtherCall, RiskPause, NextCall
<1>6. ASSUME NEW t \in Trades, ValidateTrade(l, t)
      PROVE  Rank(l)' < Rank(l)
  <2>1. pc[l] = "call" /\ round' = round
    BY <1>6 DEF ValidateTrade
  <2>2. CASE Goto(l, "log") /\ UNCHANGED calls
    <3>1. pc'[l] = "log" /\ LaterCost(l)' = later /\ calls' = calls
      BY <2>1, <2>2 DEF Goto, LaterCost, TypeInv, TypeOK
    <3> HIDE DEF later
    <3>2. Rank(l)' = later + 4 * calls[l] + 2
      BY <3>1 DEF Rank
    <3>3. Rank(l) = later + 4 * calls[l] + 3
      BY <2>1 DEF Rank, later
    <3> QED
      BY <1>1, <3>2, <3>3
  <2> QED
    BY <1>2, <1>6, <2>1, <2>2 DEF ValidateTrade, NextCall
<1>7. CASE LogTrade(l)
  <2>1. pc[l] = "log" /\ round' = round
    BY <1>7 DEF LogTrade
  <2>2. CASE Goto(l, "pauseDB") /\ UNCHANGED calls
    <3>1. pc'[l] = "pauseDB" /\ LaterCost(l)' = later /\ calls' = calls
      BY <2>1, <2>2 DEF Goto, LaterCost, TypeInv, TypeOK
    <3> HIDE DEF later
    <3>2. Rank(l)' = later + 4 * calls[l] + 1
      BY <3>1 DEF Rank
    <3>3. Rank(l) = later + 4 * calls[l] + 2
      BY <2>1 DEF Rank, later
    <3> QED
      BY <1>1, <3>2, <3>3
  <2> QED
    BY <1>2, <1>7, <2>1, <2>2 DEF LogTrade, NextCall
<1>8. CASE PauseInDB(l)
  <2>1. pc[l] = "pauseDB" /\ pc'[l] = "pause" /\ LaterCost(l)' = later /\ calls' = calls
    BY <1>8 DEF PauseInDB, Goto, LaterCost, TypeInv, TypeOK
  <2> HIDE DEF later
  <2>2. Rank(l)' = later + 4 * calls[l]
    BY <2>1 DEF Rank
  <2>3. Rank(l) = later + 4 * calls[l] + 1
    BY <2>1 DEF Rank, later
  <2> QED
    BY <1>1, <2>2, <2>3
<1>9. CASE PersistCycle(l)
  BY <1>9 DEF PersistCycle, Goto, Rank, TypeInv, TypeOK
<1>10. CASE PersistState(l)
  BY <1>10 DEF PersistState, Goto, Rank, TypeInv, TypeOK
<1> QED
  BY <1>3, <1>4, <1>5, <1>6, <1>7, <1>8, <1>9, <1>10 DEF RunCycle

\* and no step of anyone else raises it while the loop is in its cycle.
LEMMA NothingRaises ==
    ASSUME TypeInv, [Next]_vars, NEW l \in Loops, pc[l] \in InCycle
    PROVE  Rank(l)' <= Rank(l)
<1> DEFINE Stays == pc'[l] = pc[l] /\ round'[l] = round[l] /\ calls'[l] = calls[l]
<1>1. Rank(l) \in Nat
  BY RankType
<1>2. ASSUME Stays PROVE Rank(l)' = Rank(l)
  BY <1>2 DEF Rank, LaterCost
<1>3. ASSUME pc'[l] = "exited" PROVE Rank(l)' = 0
  BY <1>3 DEF Rank
<1>4. CASE RunCycle(l)
  <2>1. Rank(l)' < Rank(l)
    BY <1>4, RunCycleLowers
  <2>2. Rank(l)' \in Nat
    BY TypeNext, RankNext DEF RankNat
  <2> QED
    BY <1>1, <2>1, <2>2
<1>5. ASSUME NEW m \in Loops \ {l}, Looping(m)
      PROVE  Stays
  <2> USE DEF TypeInv, TypeOK, Goto, NextCall, Onward, procVars
  <2>1. CASE BeginCycle(m) \/ ExitLoop(m) \/ Panic(m)
    BY <1>5, <2>1 DEF BeginCycle, ExitLoop, Panic
  <2>2. CASE GetTools(m) \/ Chat(m) \/ OtherCall(m)
    BY <1>5, <2>2 DEF GetTools, Chat, OtherCall
  <2>3. CASE LogTrade(m) \/ \E t \in Trades : ValidateTrade(m, t)
    BY <1>5, <2>3 DEF LogTrade, ValidateTrade
  <2>4. CASE PauseInDB(m) \/ RiskPause(m) \/ PersistCycle(m) \/ PersistState(m)
    BY <1>5, <2>4 DEF PauseInDB, RiskPause, PersistCycle, PersistState
  <2> QED
    BY <1>5, <2>1, <2>2, <2>3, <2>4 DEF Looping, RunCycle
<1>6. CASE BeginCycle(l) \/ ExitLoop(l) \/ Panic(l)
  <2>1. pc'[l] = "exited"
    BY <1>6 DEF BeginCycle, ExitLoop, Panic, Goto, InCycle, TypeInv, TypeOK
  <2> QED
    BY <1>1, <1>3, <2>1
<1>7. CASE Crash
  <2>1. pc'[l] = "exited"
    BY <1>7 DEF Crash, InCycle
  <2> QED
    BY <1>1, <1>3, <2>1
<1>8. ASSUME NEW a \in Agents, NEW m \in Loops, RestoreLoad(a, m) \/ StartAgent(a, m)
      PROVE  Stays
  <2>1. LoadAgent(a, m)
    BY <1>8 DEF RestoreLoad, StartAgent
  <2> QED
    BY <2>1 DEF LoadAgent, InCycle, TypeInv, TypeOK
<1>9. CASE \E m \in Loops : InstallLoop(m)
  <2>1. Stays
    BY <1>9 DEF InstallLoop, InCycle, TypeInv, TypeOK
  <2> QED
    BY <1>1, <1>2, <2>1
<1>10. CASE \/ UNCHANGED vars \/ RestoreAgents \/ RestoreEnds \/ Stop
            \/ \E a \in Agents : RestoreTake(a) \/ RestoreSkip(a) \/ PauseAgent(a) \/ Serve(a)
            \/ (\E m \in Loops : CallerEnds(m)) \/ \E s \in late : Commit(s)
  <2>1. Stays
    BY <1>10 DEF vars, loopVars, RestoreAgents, RestoreEnds, Stop, RestoreTake, RestoreSkip,
                 CannotRestore, PauseAgent, Serve, CallerEnds, Commit
  <2> QED
    BY <1>1, <1>2, <2>1
<1> QED
  BY <1>1, <1>2, <1>4, <1>5, <1>6, <1>7, <1>8, <1>9, <1>10, NextParts
     DEF Scheduling, Restoring, Looping

\* A cycle cannot go on for ever: whatever the model answers and whatever
\* fails, each of its steps lowers a natural number that nobody else raises.
\* With the weak fairness of RunCycle this is why CycleTerminates holds.
CycleProgress ==
    \A l \in Loops : pc[l] \in InCycle =>
        /\ Rank(l) \in Nat /\ Rank(l)' \in Nat
        /\ Rank(l)' <= Rank(l)
        /\ RunCycle(l) => Rank(l)' < Rank(l)

\* RunCycle takes at most Rank(l) steps: its rounds, the calls of each round
\* and its two writes are all limited (engine.go:264).
THEOREM CycleStepsBounded == Spec => [][CycleProgress]_vars
<1>1. TypeInv /\ [Next]_vars => CycleProgress
  BY RankType, TypeNext, RankNext, NothingRaises, RunCycleLowers DEF CycleProgress, RankNat
<1> QED
  BY <1>1, TypeInit, TypeNext, PTL DEF Spec

-----------------------------------------------------------------------------
(* The control of a cycle: each loop goes through CycleControl, as Cycle    *)
(* does (CycleProofs).                                                     *)

CyclePlace(l) ==
    CASE pc[l] \in {"tools", "chat"}                   -> pc[l]
      [] pc[l] \in {"call", "log", "pauseDB", "pause"} -> "call"
      [] OTHER                                         -> "over"

\* What is left of the last cycle's counts means nothing.
CycleRound(l) == IF CyclePlace(l) = "over" THEN 0 ELSE round[l]
CycleCalls(l) == IF CyclePlace(l) = "over" THEN 0 ELSE calls[l]

Control(l) == INSTANCE CycleControl WITH
    place  <- CyclePlace(l),
    round  <- CycleRound(l),
    calls  <- CycleCalls(l),
    trades <- mem[l].trades

\* Outside of a cycle that is under way, and before the model is first asked,
\* no round has begun; between two answers no call is left.
CountsReset ==
    \A l \in Loops :
        /\ pc[l] \in {"free", "loaded", "idle", "tools"} => round[l] = 0
        /\ pc[l] \in {"free", "loaded", "idle", "tools", "chat"} => calls[l] = 0
        /\ pc[l] \in {"persistLog", "persistState"} => round[l] = 0 /\ calls[l] = 0

\* A step that has nothing to do with loop l.
LEMMA ControlStutters ==
    ASSUME NEW l \in Loops, pc'[l] = pc[l], round'[l] = round[l],
           calls'[l] = calls[l], mem'[l].trades = mem[l].trades
    PROVE  UNCHANGED Control(l)!vars
BY DEF Control!vars, CyclePlace, CycleRound, CycleCalls

\* One that only ends what is going on in loop l, if anything is.
LEMMA ControlEnds ==
    ASSUME NEW l \in Loops, CyclePlace(l)' = "over", mem'[l].trades = mem[l].trades
    PROVE  [Control(l)!Next]_(Control(l)!vars)
<1>1. CycleRound(l)' = 0 /\ CycleCalls(l)' = 0
  BY DEF CycleRound, CycleCalls
<1>2. CASE CyclePlace(l) = "over"
  <2>1. CycleRound(l) = 0 /\ CycleCalls(l) = 0
    BY <1>2 DEF CycleRound, CycleCalls
  <2> QED
    BY <1>1, <1>2, <2>1 DEF Control!vars
<1>3. CASE CyclePlace(l) # "over"
  BY <1>1, <1>3 DEF Control!Next, Control!End
<1> QED
  BY <1>2, <1>3

\* The handling of one call.
LEMMA ControlSettles ==
    ASSUME TypeInv, CountsReset, NEW l \in Loops, CyclePlace(l) = "call", Onward(l),
           round' = round, mem'[l].trades \in {mem[l].trades, mem[l].trades + 1}
    PROVE  Control(l)!Next /\ CountsReset'
<1>1. /\ pc[l] \in {"call", "log", "pauseDB", "pause"}
      /\ calls[l] \in Nat \ {0}
  BY BoundsAssumption DEF CyclePlace, TypeInv, TypeOK, LocalsOK
<1>2. /\ pc'[l] = IF calls[l] > 1 THEN "call" ELSE "chat"
      /\ calls'[l] = calls[l] - 1 /\ round'[l] = round[l]
      /\ \A m \in Loops \ {l} : pc'[m] = pc[m] /\ calls'[m] = calls[m] /\ round'[m] = round[m]
  BY DEF Onward, TypeInv, TypeOK
<1>3. CycleRound(l) = round[l] /\ CycleCalls(l) = calls[l]
  BY DEF CycleRound, CycleCalls
<1>4. CyclePlace(l)' = IF calls[l] = 1 THEN "chat" ELSE "call"
  BY <1>1, <1>2 DEF CyclePlace
<1>5. CycleRound(l)' = round[l] /\ CycleCalls(l)' = calls[l] - 1
  BY <1>2, <1>4 DEF CycleRound, CycleCalls
<1>6. Control(l)!Settle
  BY <1>3, <1>4, <1>5 DEF Control!Settle
<1>7. CountsReset'
  BY <1>1, <1>2 DEF CountsReset
<1> QED
  BY <1>6, <1>7 DEF Control!Next

LEMMA ControlInit ==
    ASSUME Init
    PROVE  CountsReset /\ \A l \in Loops : Control(l)!Init
<1>1. CountsReset
  BY DEF Init, CountsReset
<1>2. ASSUME NEW l \in Loops PROVE Control(l)!Init
  <2>1. pc[l] = "free" /\ owner[l] \in Agents
    BY DEF Init
  <2>2. mem[l].trades = 0
    BY <2>1 DEF Init, FreshState
  <2>3. CyclePlace(l) = "over" /\ CycleRound(l) = 0 /\ CycleCalls(l) = 0
    BY <2>1 DEF CyclePlace, CycleRound, CycleCalls
  <2> QED
    BY <2>2, <2>3 DEF Control!Init
<1> QED
  BY <1>1, <1>2

\* The steps that are none of a goroutine's.
LEMMA SchedulerControl ==
    ASSUME TypeInv, CountsReset, UNCHANGED vars \/ Scheduling
    PROVE  CountsReset' /\ \A l \in Loops : [Control(l)!Next]_(Control(l)!vars)
<1>1. CASE UNCHANGED <<pc, round, calls, mem>>
  <2>1. CountsReset'
    BY <1>1 DEF CountsReset
  <2> QED
    BY <1>1, <2>1, ControlStutters
<1>2. CASE \/ UNCHANGED vars \/ RestoreAgents \/ RestoreEnds \/ Stop
           \/ \E a \in Agents : RestoreTake(a) \/ RestoreSkip(a) \/ PauseAgent(a) \/ Serve(a)
           \/ (\E m \in Loops : CallerEnds(m)) \/ \E s \in late : Commit(s)
  BY <1>1, <1>2 DEF vars, loopVars, RestoreAgents, RestoreEnds, Stop, RestoreTake, RestoreSkip,
                    CannotRestore, PauseAgent, Serve, CallerEnds, Commit
<1>3. CASE Crash
  <2>1. /\ mem' = mem /\ \A l \in Loops : round'[l] = 0 /\ calls'[l] = 0
        /\ \A l \in Loops : pc'[l] \in {"free", "exited"}
    BY <1>3 DEF Crash
  <2>2. CountsReset'
    BY <2>1 DEF CountsReset
  <2>3. \A l \in Loops : CyclePlace(l)' = "over"
    BY <2>1 DEF CyclePlace
  <2> QED
    BY <2>1, <2>2, <2>3, ControlEnds
<1>4. ASSUME NEW a \in Agents, NEW m \in Loops, LoadAgent(a, m)
      PROVE  CountsReset' /\ \A l \in Loops : [Control(l)!Next]_(Control(l)!vars)
  <2>1. /\ pc[m] = "free" /\ pc'[m] = "loaded" /\ mem'[m] = dbState[a]
        /\ \A l \in Loops \ {m} : pc'[l] = pc[l] /\ mem'[l] = mem[l]
        /\ UNCHANGED <<round, calls>>
    BY <1>4 DEF LoadAgent, TypeInv, TypeOK
  <2>2. CountsReset'
    BY <2>1 DEF CountsReset
  <2>3. Control(m)!Load
    <3>1. CyclePlace(m) = "over" /\ CyclePlace(m)' = "over"
      BY <2>1 DEF CyclePlace
    <3>2. mem'[m].trades \in Nat
      BY <2>1 DEF TypeInv, TypeOK, AgentStates
    <3> QED
      BY <3>1, <3>2 DEF Control!Load, CycleRound, CycleCalls
  <2>4. \A l \in Loops \ {m} : UNCHANGED Control(l)!vars
    BY <2>1, ControlStutters
  <2> QED
    BY <2>2, <2>3, <2>4 DEF Control!Next
<1>5. ASSUME NEW m \in Loops, InstallLoop(m)
      PROVE  CountsReset' /\ \A l \in Loops : [Control(l)!Next]_(Control(l)!vars)
  <2>1. /\ pc[m] = "loaded" /\ pc'[m] = "idle"
        /\ \A l \in Loops \ {m} : pc'[l] = pc[l]
        /\ UNCHANGED <<mem, round, calls>>
    BY <1>5 DEF InstallLoop, TypeInv, TypeOK
  <2>2. CountsReset'
    BY <2>1 DEF CountsReset
  <2>3. CyclePlace(m)' = "over"
    BY <2>1 DEF CyclePlace
  <2>4. [Control(m)!Next]_(Control(m)!vars)
    BY <2>1, <2>3, ControlEnds
  <2>5. \A l \in Loops \ {m} : UNCHANGED Control(l)!vars
    BY <2>1, ControlStutters
  <2> QED
    BY <2>2, <2>4, <2>5
<1> QED
  BY <1>2, <1>3, <1>4, <1>5 DEF Scheduling, Restoring, RestoreLoad, StartAgent

\* A goroutine's step, in the control of its own loop.
LEMMA LoopControl ==
    ASSUME TypeInv, CountsReset, NEW l \in Loops, Looping(l)
    PROVE  [Control(l)!Next]_(Control(l)!vars) /\ CountsReset'
<1> USE DEF procVars, TypeInv, TypeOK
<1>1. CASE BeginCycle(l)
  <2>1. /\ pc[l] = "idle" /\ pc'[l] = "tools" /\ mem'[l].trades = mem[l].trades
        /\ UNCHANGED <<round, calls>> /\ round[l] = 0 /\ calls[l] = 0
        /\ \A m \in Loops \ {l} : pc'[m] = pc[m]
    BY <1>1 DEF BeginCycle, Goto, CountsReset, AgentStates
  <2>2. CyclePlace(l) = "over" /\ CyclePlace(l)' = "tools"
    BY <2>1 DEF CyclePlace
  <2>3. Control(l)!Begin
    BY <2>1, <2>2 DEF Control!Begin, CycleRound, CycleCalls
  <2>4. CountsReset'
    BY <2>1 DEF CountsReset
  <2> QED
    BY <2>3, <2>4 DEF Control!Next
<1>2. CASE ExitLoop(l) \/ Panic(l) \/ PersistCycle(l) \/ PersistState(l)
  <2>1. /\ UNCHANGED <<mem, round, calls>>
        /\ \/ pc'[l] = "exited"
           \/ pc[l] = "persistLog" /\ pc'[l] = "persistState"
           \/ pc[l] = "persistState" /\ pc'[l] = "idle"
        /\ \A m \in Loops \ {l} : pc'[m] = pc[m]
    BY <1>2 DEF ExitLoop, Panic, PersistCycle, PersistState, Goto
  <2>2. CyclePlace(l)' = "over"
    BY <2>1 DEF CyclePlace
  <2>3. CountsReset'
    BY <2>1 DEF CountsReset
  <2> QED
    BY <2>1, <2>2, <2>3, ControlEnds
<1>3. CASE GetTools(l)
  <2>1. /\ UNCHANGED <<mem, round, calls>> /\ pc[l] = "tools"
        /\ \A m \in Loops \ {l} : pc'[m] = pc[m]
        /\ pc'[l] \in {"chat", "persistLog"}
    BY <1>3 DEF GetTools, Goto
  <2>2. CountsReset'
    BY <2>1 DEF CountsReset
  <2>3. CASE pc'[l] = "persistLog"
    <3>1. CyclePlace(l)' = "over"
      BY <2>3 DEF CyclePlace
    <3> QED
      BY <2>1, <2>2, <3>1, ControlEnds
  <2>4. CASE pc'[l] = "chat"
    <3>1. CyclePlace(l) = "tools" /\ CyclePlace(l)' = "chat"
      BY <2>1, <2>4 DEF CyclePlace
    <3>2. Control(l)!Prepare
      BY <2>1, <3>1 DEF Control!Prepare, CycleRound, CycleCalls
    <3> QED
      BY <2>2, <3>2 DEF Control!Next
  <2> QED
    BY <2>1, <2>3, <2>4
<1>4. CASE Chat(l)
  <2>1. pc[l] = "chat" /\ mem' = mem /\ calls[l] = 0
    BY <1>4 DEF Chat, CountsReset
  <2>2. CASE round' = [round EXCEPT ![l] = 0] /\ Goto(l, "persistLog") /\ UNCHANGED calls
    <3>1. /\ pc'[l] = "persistLog" /\ round'[l] = 0
          /\ \A m \in Loops \ {l} : pc'[m] = pc[m] /\ round'[m] = round[m]
      BY <2>2 DEF Goto
    <3>2. CyclePlace(l)' = "over"
      BY <3>1 DEF CyclePlace
    <3>3. CountsReset'
      BY <2>1, <2>2, <3>1 DEF CountsReset
    <3> QED
      BY <2>1, <3>2, <3>3, ControlEnds
  <2>3. CASE /\ round[l] < MaxToolCallRounds
             /\ \E n \in 1..MaxCalls : calls' = [calls EXCEPT ![l] = n]
             /\ round' = [round EXCEPT ![l] = @ + 1]
             /\ Goto(l, "call")
    <3>1. /\ pc'[l] = "call" /\ round'[l] = round[l] + 1 /\ calls'[l] \in 1..MaxCalls
          /\ \A m \in Loops \ {l} : pc'[m] = pc[m] /\ round'[m] = round[m] /\ calls'[m] = calls[m]
      BY <2>3 DEF Goto
    <3>2. CyclePlace(l) = "chat" /\ CyclePlace(l)' = "call"
      BY <2>1, <3>1 DEF CyclePlace
    <3>3. Control(l)!Ask
      BY <2>1, <2>3, <3>1, <3>2 DEF Control!Ask, CycleRound, CycleCalls
    <3>4. CountsReset'
      BY <3>1 DEF CountsReset
    <3> QED
      BY <3>3, <3>4 DEF Control!Next
  <2> QED
    BY <1>4, <2>2, <2>3 DEF Chat
<1>5. CASE OtherCall(l) \/ RiskPause(l)
  <2>1. /\ pc[l] \in {"call", "pause"} /\ Onward(l)
        /\ UNCHANGED <<mem, round>>
    BY <1>5 DEF OtherCall, RiskPause, NextCall
  <2>2. CyclePlace(l) = "call"
    BY <2>1 DEF CyclePlace
  <2> QED
    BY <2>1, <2>2, ControlSettles
<1>6. ASSUME NEW t \in Trades, ValidateTrade(l, t)
      PROVE  [Control(l)!Next]_(Control(l)!vars) /\ CountsReset'
  <2>1. pc[l] = "call" /\ UNCHANGED <<mem, round>>
    BY <1>6 DEF ValidateTrade
  <2>2. CyclePlace(l) = "call"
    BY <2>1 DEF CyclePlace
  <2>3. CASE NextCall(l)
    BY <2>1, <2>2, <2>3, ControlSettles DEF NextCall
  <2>4. CASE Goto(l, "log") /\ UNCHANGED calls
    <3>1. pc'[l] = "log" /\ \A m \in Loops \ {l} : pc'[m] = pc[m]
      BY <2>4 DEF Goto
    <3>2. CyclePlace(l)' = "call"
      BY <3>1 DEF CyclePlace
    <3>3. CountsReset'
      BY <2>1, <2>4, <3>1 DEF CountsReset
    <3> QED
      BY <2>1, <2>2, <2>4, <3>2, <3>3 DEF Control!vars, CycleRound, CycleCalls
  <2> QED
    BY <1>6, <2>3, <2>4 DEF ValidateTrade
<1>7. CASE LogTrade(l)
  <2> DEFINE d == order[l].decision
  <2>1. /\ pc[l] = "log" /\ order[l].trade \in Trades /\ round' = round
        /\ mem'[l] = Applied(mem[l], order[l])
        /\ d \in Decisions /\ mem[l] \in AgentStates
    BY <1>7, NoneAssumption DEF LogTrade, LocalsOK, Orders, NoOrder
  <2>2. CyclePlace(l) = "call"
    BY <2>1 DEF CyclePlace
  <2>3. d.pause => ~d.approved
    BY <2>1 DEF Decisions, Approval, Rejection
  <2>4. mem'[l].trades \in {mem[l].trades, mem[l].trades + 1}
        /\ (~d.approved => mem'[l] = mem[l])
    BY <2>1, ExecuteType DEF Applied
  <2>5. CASE d.pause /\ Goto(l, "pauseDB") /\ UNCHANGED calls
    <3>1. pc'[l] = "pauseDB" /\ \A m \in Loops \ {l} : pc'[m] = pc[m]
      BY <2>5 DEF Goto
    <3>2. CyclePlace(l)' = "call"
      BY <3>1 DEF CyclePlace
    <3>3. CountsReset'
      BY <2>1, <2>5, <3>1 DEF CountsReset
    <3> QED
      BY <2>1, <2>2, <2>3, <2>4, <2>5, <3>2, <3>3 DEF Control!vars, CycleRound, CycleCalls
  <2>6. CASE NextCall(l)
    BY <2>1, <2>2, <2>4, <2>6, ControlSettles DEF NextCall
  <2> QED
    BY <1>7, <2>5, <2>6 DEF LogTrade
<1>8. CASE PauseInDB(l)
  <2>1. /\ pc[l] = "pauseDB" /\ pc'[l] = "pause" /\ UNCHANGED <<mem, round, calls>>
        /\ \A m \in Loops \ {l} : pc'[m] = pc[m]
    BY <1>8 DEF PauseInDB, Goto
  <2>2. CyclePlace(l) = "call" /\ CyclePlace(l)' = "call"
    BY <2>1 DEF CyclePlace
  <2>3. CountsReset'
    BY <2>1 DEF CountsReset
  <2> QED
    BY <2>1, <2>2, <2>3 DEF Control!vars, CycleRound, CycleCalls
<1> QED
  BY <1>1, <1>2, <1>3, <1>4, <1>5, <1>6, <1>7, <1>8 DEF Looping, RunCycle

\* A goroutine's step, in the control of another loop.
LEMMA OtherLoopControl ==
    ASSUME TypeInv, CountsReset, NEW l \in Loops, NEW m \in Loops \ {l}, Looping(l)
    PROVE  UNCHANGED Control(m)!vars
<1> USE DEF TypeInv, TypeOK, Goto, NextCall, Onward, procVars
<1> SUFFICES /\ mem'[m] = mem[m] /\ pc'[m] = pc[m]
             /\ round'[m] = round[m] /\ calls'[m] = calls[m]
  BY ControlStutters
<1>1. CASE BeginCycle(l) \/ ExitLoop(l) \/ Panic(l)
  BY <1>1 DEF BeginCycle, ExitLoop, Panic
<1>2. CASE GetTools(l) \/ Chat(l) \/ OtherCall(l)
  BY <1>2 DEF GetTools, Chat, OtherCall
<1>3. CASE \E t \in Trades : ValidateTrade(l, t)
  BY <1>3 DEF ValidateTrade
<1>4. CASE LogTrade(l)
  BY <1>4 DEF LogTrade
<1>5. CASE PauseInDB(l) \/ RiskPause(l) \/ PersistCycle(l) \/ PersistState(l)
  BY <1>5 DEF PauseInDB, RiskPause, PersistCycle, PersistState
<1> QED
  BY <1>1, <1>2, <1>3, <1>4, <1>5 DEF Looping, RunCycle

LEMMA ControlNext ==
    ASSUME TypeInv, CountsReset, [Next]_vars
    PROVE  CountsReset' /\ \A l \in Loops : [Control(l)!Next]_(Control(l)!vars)
<1>1. ASSUME NEW m \in Loops, Looping(m)
      PROVE  CountsReset' /\ \A l \in Loops : [Control(l)!Next]_(Control(l)!vars)
  <2>1. CountsReset' /\ [Control(m)!Next]_(Control(m)!vars)
    BY <1>1, LoopControl
  <2>2. \A l \in Loops \ {m} : UNCHANGED Control(l)!vars
    BY <1>1, OtherLoopControl
  <2> QED
    BY <2>1, <2>2
<1> QED
  BY <1>1, SchedulerControl, NextParts

\* Every loop goes through its cycles as CycleControl says, whatever is
\* started, stopped, paused, restored or crashes around it: rounds and calls
\* one after the other, at most one trade for a call, nothing after the end
\* (RunCycle, runCycleInner).
THEOREM LoopsImplementControl ==
    ASSUME NEW l \in Loops
    PROVE  Spec => Control(l)!Spec
<1>1. Init => CountsReset /\ Control(l)!Init
  BY ControlInit
<1>2. TypeInv /\ CountsReset /\ [Next]_vars
          => CountsReset' /\ [Control(l)!Next]_(Control(l)!vars)
  BY ControlNext
<1> QED
  BY <1>1, <1>2, TypeInit, TypeNext, PTL DEF Spec, Control!Spec
=============================================================================
