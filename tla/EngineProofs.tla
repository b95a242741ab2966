---------------------------- MODULE EngineProofs ----------------------------
(***************************************************************************)
(* Proofs about Engine, for every set of agents, loops and trades and      *)
(* every bound: type correctness, the registration invariant with its two  *)
(* consequences, what the engine does to a row, the restart, the audit of  *)
(* trades, the history of cycles and the hourly limit.                     *)
(***************************************************************************)
EXTENDS Engine, TLAPS

\* The rule chain returns one of its five decisions.
LEMMA ValidatePureDecides ==
    ASSUME NEW trade, NEW params, NEW state
    PROVE  ValidatePure(trade, params, state) \in Decisions
<1> DEFINE V == {i \in 1..4 : Violates(rules[i], trade, params, state)}
<1>1. CASE V = {}
  BY <1>1 DEF ValidatePure, Decisions
<1>2. CASE V # {}
  <2> HIDE DEF V
  <2>1. V \subseteq 1..4
    BY DEF V
  <2>2. \E i \in V : \A j \in V : i <= j
    <3>1. CASE 1 \in V  BY <2>1, <3>1
    <3>2. CASE 1 \notin V /\ 2 \in V  BY <2>1, <3>2
    <3>3. CASE 1 \notin V /\ 2 \notin V /\ 3 \in V  BY <2>1, <3>3
    <3>4. CASE V \subseteq {4}
      <4>1. V = {4}  BY <1>2, <3>4
      <4> QED  BY <4>1
    <3> QED  BY <2>1, <3>1, <3>2, <3>3, <3>4
  <2>3. (CHOOSE i \in V : \A j \in V : i <= j) \in 1..4
    BY <2>1, <2>2
  <2>4. ValidatePure(trade, params, state)
          = Rejection(rules[CHOOSE i \in V : \A j \in V : i <= j])
    BY <1>2 DEF ValidatePure, V
  <2> QED
    BY <2>3, <2>4 DEF Decisions
<1> QED
  BY <1>1, <1>2

LEMMA DecisionsTyped == \A d \in Decisions : d.approved \in BOOLEAN /\ d.pause \in BOOLEAN
<1>1. Approval.approved = TRUE /\ Approval.pause = FALSE
  BY DEF Approval
<1>2. \A r : Rejection(r).approved = FALSE /\ Rejection(r).pause \in BOOLEAN
  BY Zenon DEF Rejection
<1> QED
  BY <1>1, <1>2, Zenon DEF Decisions

\* An approved trade leaves a well-formed agent state behind.
LEMMA ExecuteType ==
    ASSUME NEW s \in AgentStates, NEW t \in Trades
    PROVE  /\ Execute(s, t) \in AgentStates
           /\ Execute(s, t).trades = s.trades + 1
           /\ Execute(s, t).cycle = s.cycle
<1> DEFINE n == CASE t.action = "BUY"  -> s.hold[t.pair] + t.amount
                   [] t.action = "SELL" -> s.hold[t.pair] - t.amount
                   [] OTHER             -> s.hold[t.pair]
<1>1. t.pair \in Pairs /\ t.amount \in Int /\ s.hold \in [Pairs -> Int]
  BY TradesAssumption DEF AgentStates
<1>2. n \in Int
  BY <1>1
<1> HIDE DEF n
<1>3. Execute(s, t) = [s EXCEPT !.trades = @ + 1, !.hold[t.pair] = n]
  BY DEF Execute, n
<1>4. s.trades + 1 \in Nat
  BY DEF AgentStates
<1> DEFINE h == [s.hold EXCEPT ![t.pair] = n]
<1>5. h \in [Pairs -> Int]
  BY <1>1, <1>2
<1>6. Execute(s, t) = [s EXCEPT !.trades = @ + 1, !.hold = h]
  BY <1>3
<1> HIDE DEF h
<1> QED
  BY <1>4, <1>5, <1>6 DEF AgentStates

-----------------------------------------------------------------------------
(* Type correctness.                                                       *)

\* What pc says about a goroutine's locals: inside a call there is a call to
\* handle, an order exists exactly between Validate and the trade log, and
\* only where a statement is issued has one been sent.
LocalsOK ==
    \A l \in Loops :
        /\ pc[l] \in {"call", "log", "pauseDB", "pause"} => calls[l] # 0
        /\ pc[l] = "log" => order[l].trade \in Trades
        /\ pc[l] # "log" => order[l] = NoOrder
        /\ sent[l] => pc[l] \in Issuing

TypeInv == TypeOK /\ LocalsOK

ProcTyped ==
    /\ phase \in {"booting", "up"}
    /\ agents \in [Agents -> Loops \cup {None}]
    /\ stopped \in BOOLEAN
    /\ restore \in [todo : SUBSET Agents, now : Agents \cup {None}, at : Loops \cup {None},
                    loops : SUBSET Loops, over : BOOLEAN]

LoopsTyped ==
    /\ pc \in [Loops -> PCs]
    /\ owner \in [Loops -> Agents]
    /\ ctx \in [Loops -> {"live", "cancelled"}]
    /\ sent \in [Loops -> BOOLEAN]
    /\ mem \in [Loops -> AgentStates]
    /\ round \in [Loops -> 0..MaxToolCallRounds]
    /\ calls \in [Loops -> 0..MaxCalls]
    /\ order \in [Loops -> Orders]
    /\ conf \in [Loops -> Confs]

RowTyped == /\ dbLife \in [Agents -> {"alive", "deleted"}]
            /\ dbConf \in [Agents -> Confs]
            /\ dbUsed \in [Agents -> BOOLEAN]
            /\ dbStatus \in [Agents -> {"created", "running", "paused"}]

DbTyped == /\ RowTyped
           /\ dbState \in [Agents -> AgentStates]
           /\ cycleLog \subseteq Loops \X Nat
           /\ approvals \in [Agents -> Nat]
           /\ tradeLogs \in [Agents -> SUBSET Nat]
           /\ late \subseteq Statements

EnvTyped == faults \in 0..MaxFaults /\ crashes \in 0..MaxCrashes

LEMMA TypeParts == TypeOK <=> ProcTyped /\ LoopsTyped /\ DbTyped /\ EnvTyped
BY DEF TypeOK, ProcTyped, LoopsTyped, DbTyped, RowTyped, EnvTyped

LEMMA TypeInit == Init => TypeInv
<1> SUFFICES ASSUME Init PROVE TypeInv
  OBVIOUS
<1>1. \A loss \in InitLosses : FreshState(loss) \in AgentStates
  BY InitLossesAssumption DEF FreshState, AgentStates
<1>2. dbState \in [Agents -> AgentStates]
  BY <1>1 DEF Init
<1>3. mem \in [Loops -> AgentStates]
  BY <1>2 DEF Init
<1>4. 0 \in 0..MaxToolCallRounds /\ 0 \in 0..MaxCalls /\ 0 \in 0..MaxFaults /\ 0 \in 0..MaxCrashes
  BY BoundsAssumption
<1>5. NoOrder \in Orders
  BY DEF Orders
<1>6. conf \in [Loops -> Confs]
  BY ConfsAssumption DEF Init, NoConf
<1>7. LoopsTyped
  BY <1>3, <1>4, <1>5, <1>6 DEF Init, LoopsTyped, PCs
<1>8. ProcTyped /\ DbTyped /\ EnvTyped
  BY <1>2, <1>4 DEF Init, ProcTyped, DbTyped, RowTyped, EnvTyped, NoRestore
<1>9. LocalsOK
  BY DEF Init, LocalsOK
<1> QED
  BY <1>7, <1>8, <1>9, TypeParts DEF TypeInv

\* The statements a loop may issue where it is, sent or not.
Issuable(l) ==
    IF pc[l] = "call"
    THEN {Statement(l, Decision(l, t).approved) : t \in {u \in Trades : u.amount > 0}}
    ELSE {Statement(l, order[l].decision.approved)}

LEMMA IssuableType ==
    ASSUME TypeInv, NEW l \in Loops, pc[l] \in Issuing, NEW s \in Issuable(l)
    PROVE  /\ s \in Statements
           /\ s.at = pc[l] /\ s.loop = l /\ s.event = order[l].event /\ s.state = mem[l]
           /\ pc[l] # "call" => s.approved = order[l].decision.approved
<1>1. \A t : Decision(l, t).approved \in BOOLEAN
  BY ValidatePureDecides, DecisionsTyped DEF Decision
<1>2. order[l].decision.approved \in BOOLEAN /\ order[l].event \in Nat /\ mem[l] \in AgentStates
  BY DecisionsTyped DEF TypeInv, TypeOK, Orders, NoOrder, Decisions
<1>3. PICK b \in BOOLEAN : s = Statement(l, b)
                           /\ (pc[l] # "call" => b = order[l].decision.approved)
  BY <1>1, <1>2 DEF Issuable
<1> QED
  BY <1>2, <1>3 DEF Statement, Statements

LEMMA InFlightType ==
    ASSUME TypeInv, NEW l \in Loops, NEW s \in InFlight(l)
    PROVE  sent[l] /\ pc[l] \in Issuing /\ s \in Issuable(l) /\ s \in Statements /\ s.loop = l
<1>1. sent[l] /\ pc[l] \in Issuing /\ s \in Issuable(l)
  BY DEF InFlight, Issuable, TypeInv, LocalsOK
<1> QED
  BY <1>1, IssuableType

-----------------------------------------------------------------------------
(* What a step does to the database.                                       *)

\* It changes nothing but for statements given up by their callers; a late
\* statement is executed; a live loop's is; or the services write to a row.
LateGrows   == UNCHANGED tables /\ late' \subseteq late \cup UNION {InFlight(l) : l \in Loops}
LateRuns(s) == /\ s \in late /\ Executes(s) /\ late' = late \ {s}
               /\ UNCHANGED <<procVars, loopVars, envVars>>
LoopRuns(l) == /\ ctx[l] = "live" /\ pc[l] \in Issuing
               /\ (\E s \in Issuable(l) : Executes(s)) /\ UNCHANGED <<late, faults>>

DbStep ==
    \/ LateGrows
    \/ \E s \in late : LateRuns(s)
    \/ \E l \in Loops : LoopRuns(l)
    \/ \E a \in Agents : Serve(a)

LEMMA CallOnDb ==
    ASSUME TypeInv, NEW l \in Loops, pc[l] \in Issuing, NEW s \in Issuable(l), Attempts(l, s)
    PROVE  /\ LateGrows \/ LoopRuns(l)
           /\ faults' \in 0..MaxFaults
<1>1. CASE Succeeds(l, s)
  BY <1>1 DEF Succeeds, LoopRuns, TypeInv, TypeOK
<1>2. CASE Fails(l, s)
  <2>1. sent[l] => s \in InFlight(l)
    BY DEF Issuable, InFlight
  <2>2. late' = late \/ (sent[l] /\ late' = late \cup {s})
    BY <1>2 DEF Fails, Leaves
  <2>3. late' \subseteq late \cup UNION {InFlight(m) : m \in Loops}
    BY <2>1, <2>2
  <2>4. faults' \in 0..MaxFaults
    BY <1>2, BoundsAssumption DEF Fails, Fault, TypeInv, TypeOK
  <2> QED
    BY <1>2, <2>3, <2>4 DEF Fails, LateGrows
<1>3. CASE UNCHANGED <<dbVars, faults>>
  BY <1>3 DEF dbVars, tables, LateGrows, TypeInv, TypeOK
<1> QED
  BY <1>1, <1>2, <1>3 DEF Attempts, Misses

\* The statements of the calls.
LEMMA Issues ==
    ASSUME TypeInv, NEW l \in Loops
    PROVE  /\ pc[l] = "call" => \A t \in Trades :
                  t.amount > 0 => Statement(l, Decision(l, t).approved) \in Issuable(l)
           /\ pc[l] = "log" => Statement(l, order[l].decision.approved) \in Issuable(l)
           /\ pc[l] \in {"pauseDB", "persistLog", "persistState"}
                  => Statement(l, TRUE) \in Issuable(l)
<1>1. pc[l] \in {"pauseDB", "persistLog", "persistState"} => order[l].decision.approved = TRUE
  BY DEF TypeInv, LocalsOK, NoOrder, Approval
<1> QED
  BY <1>1 DEF Issuable

\* The goroutine's steps that call the database.
LEMMA LoopCalls ==
    ASSUME TypeInv, NEW l \in Loops,
           \/ \E t \in Trades : ValidateTrade(l, t)
           \/ LogTrade(l) \/ PauseInDB(l) \/ PersistCycle(l) \/ PersistState(l)
    PROVE  pc[l] \in Issuing /\ \E s \in Issuable(l) : Attempts(l, s)
<1>1. ASSUME NEW t \in Trades, ValidateTrade(l, t)
      PROVE  pc[l] \in Issuing /\ \E s \in Issuable(l) : Attempts(l, s)
  BY <1>1, Issues DEF ValidateTrade, Attempts, Issuing
<1>2. CASE LogTrade(l)
  BY <1>2, Issues DEF LogTrade, Issuing
<1>3. CASE PauseInDB(l) \/ PersistCycle(l) \/ PersistState(l)
  BY <1>3, Issues DEF PauseInDB, PersistCycle, PersistState, Issuing
<1> QED
  BY <1>1, <1>2, <1>3

LEMMA DbStepNext == TypeInv /\ [Next]_vars => DbStep
<1> SUFFICES ASSUME TypeInv, [Next]_vars PROVE DbStep
  OBVIOUS
<1>1. ASSUME UNCHANGED dbVars PROVE DbStep
  BY <1>1 DEF DbStep, LateGrows, dbVars, tables
<1>2. CASE UNCHANGED vars
  BY <1>1, <1>2 DEF vars
<1>3. CASE Restoring \/ RestoreEnds \/ Stop
  BY <1>1, <1>3 DEF Restoring, RestoreAgents, RestoreTake, RestoreLoad, RestoreSkip,
                    CannotRestore, LoadAgent, RestoreEnds, Stop
<1>4. CASE Crash
  <2>1. PICK left \in SUBSET UNION {InFlight(l) : l \in Loops} : Leaves(left)
    BY <1>4 DEF Crash
  <2> QED
    BY <1>4, <2>1 DEF Crash, Leaves, DbStep, LateGrows
<1>5. CASE \E a \in Agents : PauseAgent(a) \/ Serve(a) \/ \E l \in Loops : StartAgent(a, l)
  BY <1>1, <1>5 DEF PauseAgent, StartAgent, LoadAgent, DbStep
<1>6. CASE \E l \in Loops : \/ InstallLoop(l) \/ CallerEnds(l) \/ BeginCycle(l) \/ ExitLoop(l)
                           \/ Panic(l) \/ GetTools(l) \/ Chat(l) \/ OtherCall(l) \/ RiskPause(l)
  BY <1>1, <1>6 DEF InstallLoop, CallerEnds, BeginCycle, ExitLoop, Panic, GetTools, Chat,
                    OtherCall, RiskPause
<1>7. ASSUME NEW l \in Loops, \/ \E t \in Trades : ValidateTrade(l, t)
                              \/ LogTrade(l) \/ PauseInDB(l) \/ PersistCycle(l) \/ PersistState(l)
      PROVE  DbStep
  BY <1>7, LoopCalls, CallOnDb DEF DbStep
<1>8. CASE \E s \in late : Commit(s)
  BY <1>8 DEF Commit, DbStep, LateRuns
<1> QED
  BY <1>2, <1>3, <1>4, <1>5, <1>6, <1>7, <1>8 DEF Next, RunCycle

\* A statement leaves the database well-formed.
LEMMA ExecutesTyped ==
    ASSUME TypeInv, NEW s \in Statements, Executes(s), late' \subseteq late
    PROVE  DbTyped'
<1> DEFINE a == owner[s.loop]
<1>0. a \in Agents /\ s.loop \in Loops /\ s.event \in Nat /\ s.state \in AgentStates
  BY DEF Statements, TypeInv, TypeOK
<1> HIDE DEF a
<1>1. s.state.cycle \in Nat
  BY <1>0 DEF AgentStates
<1>2. CASE s.at = "call" /\ Inserts(a)
           /\ approvals' = [approvals EXCEPT ![a] = IF s.approved THEN @ + 1 ELSE @]
           /\ UNCHANGED <<dbState, cycleLog, tradeLogs>>
  BY <1>0, <1>2 DEF Inserts, Row!Refer, DbTyped, RowTyped, TypeInv, TypeOK
<1>3. CASE s.at = "log" /\ Inserts(a)
           /\ tradeLogs' = [tradeLogs EXCEPT ![a] = IF s.approved THEN @ \cup {s.event} ELSE @]
           /\ UNCHANGED <<dbState, cycleLog, approvals>>
  <2>1. tradeLogs' \in [Agents -> SUBSET Nat]
    BY <1>0, <1>3 DEF TypeInv, TypeOK
  <2> QED
    BY <1>0, <1>3, <2>1 DEF Inserts, Row!Refer, DbTyped, RowTyped, TypeInv, TypeOK
<1>4. CASE s.at = "pauseDB" /\ Row!SetStatus(a, "paused")
           /\ UNCHANGED <<dbState, cycleLog, approvals, tradeLogs>>
  BY <1>0, <1>4 DEF Row!SetStatus, DbTyped, RowTyped, TypeInv, TypeOK
<1>5. CASE s.at = "persistLog" /\ Inserts(a)
           /\ cycleLog' = cycleLog \cup {<<s.loop, s.state.cycle>>}
           /\ UNCHANGED <<dbState, approvals, tradeLogs>>
  BY <1>0, <1>1, <1>5 DEF Inserts, Row!Refer, DbTyped, RowTyped, TypeInv, TypeOK
<1>6. CASE s.at = "persistState" /\ Row!Alive(a)
           /\ dbState' = [dbState EXCEPT ![a] = s.state]
           /\ UNCHANGED <<rowVars, cycleLog, approvals, tradeLogs>>
  BY <1>0, <1>6 DEF rowVars, DbTyped, RowTyped, TypeInv, TypeOK
<1> QED
  BY <1>2, <1>3, <1>4, <1>5, <1>6 DEF Executes, a

\* What the services do to the row.
LEMMA ServeRow ==
    ASSUME TypeOK, NEW a \in Agents, Serve(a)
    PROVE  /\ RowTyped'
           /\ \A b \in Agents : dbLife'[b] = "alive" => dbLife[b] = "alive"
           /\ \A b \in Agents : dbUsed[b] /\ dbLife'[b] = "deleted" => dbLife[b] = "deleted"
           /\ dbUsed' = dbUsed
<1>1. CASE \E c \in Confs : Row!Configure(a, c)
  BY <1>1 DEF TypeOK, RowTyped, Row!Configure
<1>2. CASE \E st \in {"running", "paused"} : Row!SetStatus(a, st)
  BY <1>2 DEF TypeOK, RowTyped, Row!SetStatus
<1>3. CASE Row!Delete(a)
  BY <1>3 DEF TypeOK, RowTyped, Row!Delete, Row!Alive
<1> QED
  BY <1>1, <1>2, <1>3 DEF Serve, Row!Serve

LEMMA TypeDb == TypeInv /\ [Next]_vars => DbTyped'
<1> SUFFICES ASSUME TypeInv, [Next]_vars PROVE DbTyped'
  OBVIOUS
<1> USE DEF TypeInv, TypeOK
<1>1. CASE LateGrows
  <2>1. late' \subseteq Statements
    BY <1>1, InFlightType DEF LateGrows
  <2> QED
    BY <1>1, <2>1 DEF LateGrows, tables, rowVars, DbTyped, RowTyped
<1>2. ASSUME NEW s \in late, LateRuns(s) PROVE DbTyped'
  BY <1>2, ExecutesTyped DEF LateRuns
<1>3. ASSUME NEW l \in Loops, LoopRuns(l) PROVE DbTyped'
  BY <1>3, IssuableType, ExecutesTyped DEF LoopRuns
<1>4. ASSUME NEW a \in Agents, Serve(a) PROVE DbTyped'
  BY <1>4, ServeRow DEF Serve, DbTyped
<1> QED
  BY <1>1, <1>2, <1>3, <1>4, DbStepNext DEF DbStep

\* The process's and the loops' variables.
LEMMA TypeLoad ==
    ASSUME TypeInv, NEW a \in Agents, NEW l \in Loops, LoadAgent(a, l)
    PROVE  LoopsTyped' /\ LocalsOK' /\ UNCHANGED <<phase, agents, stopped, crashes, faults>>
BY DEF TypeInv, TypeOK, LocalsOK, LoopsTyped, LoadAgent, PCs, Issuing, dbVars, envVars

LEMMA TypeCancel ==
    ASSUME TypeOK, NEW loops, Cancel(loops)
    PROVE  /\ ctx' \in [Loops -> {"live", "cancelled"}]
           /\ \A l \in Loops : ctx'[l] = IF l \in loops THEN "cancelled" ELSE ctx[l]
BY DEF TypeOK, Cancel

LEMMA TypePassed ==
    ASSUME TypeOK, NEW new \in SUBSET Loops
    PROVE  Passed(new) \in [todo : SUBSET Agents, now : Agents \cup {None},
                            at : Loops \cup {None}, loops : SUBSET Loops, over : BOOLEAN]
BY DEF TypeOK, Passed, NoRestore

LEMMA TypeGoto ==
    ASSUME TypeInv, NEW l \in Loops, NEW label \in PCs, Goto(l, label)
    PROVE  /\ pc' \in [Loops -> PCs] /\ sent' \in [Loops -> BOOLEAN]
           /\ pc'[l] = label /\ (sent'[l] => label \in Issuing /\ ctx[l] = "live")
           /\ \A m \in Loops \ {l} : pc'[m] = pc[m] /\ sent'[m] = sent[m]
BY DEF TypeInv, TypeOK, Goto, Sends

LEMMA TypeOnward ==
    ASSUME TypeInv, NEW l \in Loops, Onward(l), calls[l] # 0
    PROVE  /\ calls' \in [Loops -> 0..MaxCalls] /\ pc' \in [Loops -> PCs]
           /\ pc'[l] \in {"call", "chat"} /\ (pc'[l] = "call" => calls'[l] # 0)
           /\ pc'[l] = "call" <=> calls[l] > 1
           /\ \A m \in Loops \ {l} : pc'[m] = pc[m] /\ calls'[m] = calls[m]
<1>1. calls[l] \in 1..MaxCalls
  BY BoundsAssumption DEF TypeInv, TypeOK
<1> QED
  BY <1>1, BoundsAssumption DEF TypeInv, TypeOK, Onward, PCs, InCycle

LEMMA TypeNextCall ==
    ASSUME TypeInv, NEW l \in Loops, NextCall(l), calls[l] # 0
    PROVE  /\ calls' \in [Loops -> 0..MaxCalls] /\ pc' \in [Loops -> PCs]
           /\ sent' \in [Loops -> BOOLEAN]
           /\ pc'[l] \in {"call", "chat"} /\ (pc'[l] = "call" => calls'[l] # 0)
           /\ sent'[l] => pc'[l] = "call" /\ ctx[l] = "live"
           /\ \A m \in Loops \ {l} : pc'[m] = pc[m] /\ calls'[m] = calls[m] /\ sent'[m] = sent[m]
BY TypeOnward DEF NextCall, Sends, TypeInv, TypeOK

\* Steps of the scheduler and of the environment.
Scheduling ==
    \/ Restoring \/ RestoreEnds \/ Stop \/ Crash
    \/ \E a \in Agents : PauseAgent(a) \/ Serve(a)
                          \/ \E l \in Loops : StartAgent(a, l)
    \/ \E l \in Loops : InstallLoop(l) \/ CallerEnds(l)
    \/ \E s \in late : Commit(s)

Looping(l) == BeginCycle(l) \/ ExitLoop(l) \/ Panic(l) \/ RunCycle(l)

LEMMA NextParts == Next <=> Scheduling \/ \E l \in Loops : Looping(l)
BY DEF Next, Scheduling, Looping

LEMMA TypeScheduler ==
    ASSUME TypeInv, Scheduling
    PROVE  ProcTyped' /\ LoopsTyped' /\ EnvTyped' /\ LocalsOK'
<1> USE DEF TypeInv
<1>1. CASE RestoreAgents
  BY <1>1, BoundsAssumption
     DEF RestoreAgents, Fault, TypeOK, LocalsOK, loopVars, ProcTyped, LoopsTyped, EnvTyped
<1>2. ASSUME NEW a \in Agents, RestoreTake(a)
      PROVE  ProcTyped' /\ LoopsTyped' /\ EnvTyped' /\ LocalsOK'
  BY <1>2 DEF RestoreTake, TypeOK, LocalsOK, loopVars, envVars, ProcTyped, LoopsTyped, EnvTyped
<1>3. ASSUME NEW a \in Agents, RestoreSkip(a)
      PROVE  ProcTyped' /\ LoopsTyped' /\ EnvTyped' /\ LocalsOK'
  <2>1. ProcTyped'
    BY <1>3, TypePassed DEF RestoreSkip, CannotRestore, TypeOK, ProcTyped
  <2> QED
    BY <1>3, <2>1, BoundsAssumption
       DEF RestoreSkip, CannotRestore, Fault, TypeOK, LocalsOK, loopVars, LoopsTyped, EnvTyped
<1>4. ASSUME NEW a \in Agents, NEW l \in Loops, RestoreLoad(a, l)
      PROVE  ProcTyped' /\ LoopsTyped' /\ EnvTyped' /\ LocalsOK'
  BY <1>4, TypeLoad DEF RestoreLoad, TypeOK, ProcTyped, EnvTyped
<1>5. ASSUME NEW a \in Agents, NEW l \in Loops, StartAgent(a, l)
      PROVE  ProcTyped' /\ LoopsTyped' /\ EnvTyped' /\ LocalsOK'
  BY <1>5, TypeLoad DEF StartAgent, TypeOK, ProcTyped, EnvTyped
<1>6. CASE RestoreEnds
  BY <1>6, TypeCancel
     DEF RestoreEnds, TypeOK, LocalsOK, envVars, ProcTyped, LoopsTyped, EnvTyped
<1>7. CASE Stop
  BY <1>7, TypeCancel DEF Stop, TypeOK, LocalsOK, envVars, ProcTyped, LoopsTyped, EnvTyped
<1>8. CASE Crash
  <2>1. EnvTyped'
    BY <1>8, BoundsAssumption DEF Crash, TypeOK, EnvTyped
  <2>2. LocalsOK'
    BY <1>8 DEF Crash, TypeOK, LocalsOK
  <2>3. calls' \in [Loops -> 0..MaxCalls] /\ round' \in [Loops -> 0..MaxToolCallRounds]
    BY <1>8, BoundsAssumption DEF Crash
  <2>4. ProcTyped'
    BY <1>8 DEF Crash, ProcTyped, NoRestore
  <2>5. conf' \in [Loops -> Confs] /\ order' \in [Loops -> Orders] /\ pc' \in [Loops -> PCs]
    BY <1>8, ConfsAssumption DEF Crash, NoConf, Orders, PCs
  <2> QED
    BY <1>8, <2>1, <2>2, <2>3, <2>4, <2>5 DEF Crash, TypeOK, LoopsTyped
<1>9. ASSUME NEW a \in Agents, PauseAgent(a)
      PROVE  ProcTyped' /\ LoopsTyped' /\ EnvTyped' /\ LocalsOK'
  BY <1>9, TypeCancel
     DEF PauseAgent, Unregister, TypeOK, LocalsOK, envVars, ProcTyped, LoopsTyped, EnvTyped
<1>10. ASSUME NEW a \in Agents, Serve(a)
       PROVE  ProcTyped' /\ LoopsTyped' /\ EnvTyped' /\ LocalsOK'
  BY <1>10 DEF Serve, TypeOK, LocalsOK, procVars, loopVars, envVars, ProcTyped, LoopsTyped, EnvTyped
<1>11. ASSUME NEW l \in Loops, InstallLoop(l)
       PROVE  ProcTyped' /\ LoopsTyped' /\ EnvTyped' /\ LocalsOK'
  <2>1. ProcTyped'
    BY <1>11, TypePassed DEF InstallLoop, TypeOK, ProcTyped
  <2> QED
    BY <1>11, <2>1, TypeCancel
       DEF InstallLoop, TypeOK, LocalsOK, PCs, Issuing, envVars, LoopsTyped, EnvTyped
<1>12. ASSUME NEW l \in Loops, CallerEnds(l)
       PROVE  ProcTyped' /\ LoopsTyped' /\ EnvTyped' /\ LocalsOK'
  BY <1>12, TypeCancel
     DEF CallerEnds, TypeOK, LocalsOK, procVars, envVars, ProcTyped, LoopsTyped, EnvTyped
<1>13. ASSUME NEW s \in late, Commit(s)
       PROVE  ProcTyped' /\ LoopsTyped' /\ EnvTyped' /\ LocalsOK'
  BY <1>13 DEF Commit, TypeOK, LocalsOK, procVars, loopVars, envVars, ProcTyped, LoopsTyped, EnvTyped
<1> QED
  BY <1>1, <1>2, <1>3, <1>4, <1>5, <1>6, <1>7, <1>8, <1>9, <1>10, <1>11, <1>12, <1>13
     DEF Scheduling, Restoring

\* A loop's labels.
LEMMA Labels == PCs = {"free", "loaded", "idle", "exited", "tools", "chat", "call", "log", "pauseDB",
                       "pause", "persistLog", "persistState"}
BY DEF PCs, InCycle

\* A goroutine's step touches nothing of the other loops.
LEMMA TypeLoop ==
    ASSUME TypeInv, NEW l \in Loops, Looping(l)
    PROVE  ProcTyped' /\ LoopsTyped' /\ EnvTyped' /\ LocalsOK'
<1> USE DEF TypeInv
<1> DEFINE Goal == ProcTyped' /\ LoopsTyped' /\ EnvTyped' /\ LocalsOK'
<1>1. CASE BeginCycle(l)
  <2>1. mem' \in [Loops -> AgentStates]
    <3>1. mem[l] \in AgentStates /\ mem' = [mem EXCEPT ![l].cycle = @ + 1]
      BY <1>1 DEF BeginCycle, TypeOK
    <3>2. [mem[l] EXCEPT !.cycle = @ + 1] \in AgentStates
      BY <3>1 DEF AgentStates
    <3>3. mem' = [mem EXCEPT ![l] = [mem[l] EXCEPT !.cycle = @ + 1]]
      BY <3>1
    <3> QED
      BY <3>2, <3>3 DEF TypeOK
  <2>2. Goto(l, "tools") /\ pc[l] = "idle" /\ UNCHANGED <<procVars, envVars>>
        /\ UNCHANGED <<owner, ctx, round, calls, order, conf>>
    BY <1>1 DEF BeginCycle
  <2> QED
    BY <2>1, <2>2, TypeGoto, Labels
       DEF TypeOK, LocalsOK, Issuing, procVars, envVars, ProcTyped, LoopsTyped, EnvTyped
<1>2. ASSUME NEW label \in PCs \ (Issuing \cup {"pause"}), Goto(l, label), pc[l] # "log",
             UNCHANGED <<procVars, owner, ctx, mem, order, conf, crashes>>,
             faults' \in 0..MaxFaults, round' \in [Loops -> 0..MaxToolCallRounds], UNCHANGED calls
      PROVE  Goal
  BY <1>2, TypeGoto
     DEF TypeOK, LocalsOK, Issuing, procVars, ProcTyped, LoopsTyped, EnvTyped
<1>3. CASE ExitLoop(l)
  BY <1>2, <1>3, Labels DEF ExitLoop, Issuing, envVars, TypeOK
<1>4. CASE Panic(l)
  <2>1. faults' \in 0..MaxFaults
    BY <1>4, BoundsAssumption DEF Panic, Fault, TypeOK
  <2> QED
    BY <1>2, <1>4, <2>1, Labels DEF Panic, Issuing, TypeOK
<1>5. ASSUME NEW label \in {"persistLog", "persistState", "pauseDB", "pause", "chat"},
             Goto(l, label), pc[l] # "log", label \in {"pauseDB", "pause"} => calls[l] # 0,
             UNCHANGED <<procVars, owner, ctx, mem, order, conf, crashes, calls>>,
             faults' \in 0..MaxFaults, round' \in [Loops -> 0..MaxToolCallRounds]
      PROVE  Goal
  <2>1. label \in PCs
    BY Labels
  <2> QED
    BY <1>5, <2>1, TypeGoto
       DEF TypeOK, LocalsOK, Issuing, procVars, ProcTyped, LoopsTyped, EnvTyped
<1>6. CASE GetTools(l)
  BY <1>5, <1>6 DEF GetTools, envVars, TypeOK
<1>7. CASE Chat(l)
  <2>1. CASE round' = [round EXCEPT ![l] = 0] /\ Goto(l, "persistLog") /\ UNCHANGED calls
    <3>1. round' \in [Loops -> 0..MaxToolCallRounds]
      BY <2>1, BoundsAssumption DEF TypeOK
    <3> QED
      BY <1>5, <1>7, <2>1, <3>1 DEF Chat, envVars, TypeOK
  <2>2. CASE /\ round[l] < MaxToolCallRounds
             /\ \E n \in 1..MaxCalls : calls' = [calls EXCEPT ![l] = n]
             /\ round' = [round EXCEPT ![l] = @ + 1]
             /\ Goto(l, "call")
    <3>1. round' \in [Loops -> 0..MaxToolCallRounds]
      BY <2>2, BoundsAssumption DEF TypeOK
    <3>2. calls' \in [Loops -> 0..MaxCalls] /\ calls'[l] # 0
          /\ \A m \in Loops \ {l} : calls'[m] = calls[m]
      BY <2>2, BoundsAssumption DEF TypeOK
    <3>3. "call" \in PCs /\ UNCHANGED <<procVars, owner, ctx, mem, order, conf, envVars>>
          /\ pc[l] = "chat"
      BY <1>7, Labels DEF Chat
    <3> QED
      BY <2>2, <3>1, <3>2, <3>3, TypeGoto
         DEF TypeOK, LocalsOK, Issuing, procVars, envVars, ProcTyped, LoopsTyped, EnvTyped
  <2> QED
    BY <1>7, <2>1, <2>2 DEF Chat
<1>8. ASSUME NextCall(l), calls[l] # 0, UNCHANGED <<procVars, owner, ctx, round, conf, crashes>>,
             faults' \in 0..MaxFaults, mem' \in [Loops -> AgentStates],
             order' \in [Loops -> Orders], order'[l] = NoOrder,
             \A m \in Loops \ {l} : order'[m] = order[m]
      PROVE  Goal
  BY <1>8, TypeNextCall
     DEF TypeOK, LocalsOK, Issuing, procVars, ProcTyped, LoopsTyped, EnvTyped
<1>9. CASE OtherCall(l)
  BY <1>8, <1>9 DEF OtherCall, LocalsOK, TypeOK, envVars
<1>10. ASSUME NEW t \in Trades, ValidateTrade(l, t) PROVE Goal
  <2> DEFINE d == Decision(l, t)
             s == Statement(l, d.approved)
             o == [trade |-> t, decision |-> d, event |-> approvals'[owner[l]]]
  <2>1. pc[l] = "call" /\ calls[l] # 0 /\ order[l] = NoOrder
        /\ UNCHANGED <<procVars, owner, ctx, mem, round, conf, crashes>>
    BY <1>10 DEF ValidateTrade, LocalsOK
  <2>2. faults' \in 0..MaxFaults
    BY <1>10, Issues, CallOnDb DEF ValidateTrade, Attempts, Issuing
  <2>3. CASE /\ Succeeds(l, s) /\ order' = [order EXCEPT ![l] = o]
             /\ Goto(l, "log") /\ UNCHANGED calls
    <3>1. o \in Orders
      <4>1. d \in Decisions
        BY ValidatePureDecides DEF Decision
      <4>2. approvals'[owner[l]] \in Nat
        <5>1. Next
          BY <1>10 DEF Next, RunCycle
        <5> QED
          BY <5>1, TypeDb DEF DbTyped, TypeOK
      <4> HIDE DEF d
      <4> QED
        BY <4>1, <4>2 DEF Orders
    <3>2. o.trade = t
      OBVIOUS
    <3> HIDE DEF o, d, s
    <3>3. order' \in [Loops -> Orders] /\ order'[l].trade \in Trades
          /\ \A m \in Loops \ {l} : order'[m] = order[m]
      BY <2>3, <3>1, <3>2 DEF TypeOK
    <3>4. Goto(l, "log") /\ "log" \in PCs /\ UNCHANGED calls
      BY <2>3, Labels
    <3> QED
      BY <2>1, <2>2, <3>3, <3>4, TypeGoto
         DEF TypeOK, LocalsOK, Issuing, procVars, ProcTyped, LoopsTyped, EnvTyped
  <2>4. CASE NextCall(l) /\ UNCHANGED order
    BY <1>8, <2>1, <2>2, <2>4 DEF TypeOK
  <2> QED
    BY <1>10, <2>3, <2>4 DEF ValidateTrade
<1>11. CASE LogTrade(l)
  <2>1. faults' \in 0..MaxFaults
    BY <1>11, Issues, CallOnDb DEF LogTrade, Issuing
  <2>2. mem' \in [Loops -> AgentStates]
    <3>1. Execute(mem[l], order[l].trade) \in AgentStates
      BY <1>11, ExecuteType DEF LogTrade, TypeOK, LocalsOK
    <3> QED
      BY <1>11, <3>1 DEF LogTrade, Applied, TypeOK
  <2>3. order' \in [Loops -> Orders] /\ order'[l] = NoOrder
        /\ \A m \in Loops \ {l} : order'[m] = order[m]
    BY <1>11 DEF LogTrade, TypeOK, Orders
  <2>4. UNCHANGED <<procVars, owner, ctx, round, conf, crashes>> /\ pc[l] = "log" /\ calls[l] # 0
    BY <1>11 DEF LogTrade, LocalsOK
  <2>5. CASE Goto(l, "pauseDB") /\ UNCHANGED calls
    <3>1. "pauseDB" \in PCs
      BY Labels
    <3> QED
      BY <2>1, <2>2, <2>3, <2>4, <2>5, <3>1, TypeGoto
         DEF TypeOK, LocalsOK, Issuing, procVars, ProcTyped, LoopsTyped, EnvTyped
  <2>6. CASE NextCall(l)
    BY <1>8, <2>1, <2>2, <2>3, <2>4, <2>6
  <2> QED
    BY <1>11, <2>5, <2>6 DEF LogTrade
<1>12. CASE PauseInDB(l)
  <2>1. faults' \in 0..MaxFaults
    BY <1>12, Issues, CallOnDb DEF PauseInDB, Issuing
  <2> QED
    BY <1>5, <1>12, <2>1 DEF PauseInDB, LocalsOK, TypeOK
<1>13. CASE RiskPause(l)
  <2>1. calls[l] # 0 /\ owner[l] \in Agents /\ order[l] = NoOrder /\ sent[l] = FALSE
    BY <1>13 DEF RiskPause, LocalsOK, TypeOK, Issuing
  <2>2. ProcTyped'
    BY <1>13, <2>1 DEF RiskPause, Unregister, TypeOK, ProcTyped
  <2> QED
    BY <1>13, <2>1, <2>2, TypeOnward, TypeCancel
       DEF RiskPause, Unregister, TypeOK, LocalsOK, Issuing, envVars, LoopsTyped, EnvTyped
<1>14. CASE PersistCycle(l)
  <2>1. faults' \in 0..MaxFaults
    BY <1>14, Issues, CallOnDb DEF PersistCycle, Issuing
  <2> QED
    BY <1>5, <1>14, <2>1 DEF PersistCycle, TypeOK
<1>15. CASE PersistState(l)
  <2>1. faults' \in 0..MaxFaults
    BY <1>15, Issues, CallOnDb DEF PersistState, Issuing
  <2> QED
    BY <1>2, <1>15, <2>1, Labels DEF PersistState, Issuing, TypeOK
<1> QED
  BY <1>1, <1>3, <1>4, <1>6, <1>7, <1>9, <1>10, <1>11, <1>12, <1>13, <1>14, <1>15
     DEF Looping, RunCycle

LEMMA TypeNext == TypeInv /\ [Next]_vars => TypeInv'
<1> SUFFICES ASSUME TypeInv, [Next]_vars PROVE TypeInv'
  OBVIOUS
<1>1. CASE UNCHANGED vars
  BY <1>1 DEF TypeInv, TypeOK, LocalsOK, vars, procVars, loopVars, dbVars, rowVars, envVars
<1>2. CASE Next
  <2>1. ProcTyped' /\ LoopsTyped' /\ EnvTyped' /\ LocalsOK'
    BY <1>2, NextParts, TypeScheduler, TypeLoop
  <2>2. TypeOK' <=> ProcTyped' /\ LoopsTyped' /\ DbTyped' /\ EnvTyped'
    BY DEF TypeOK, ProcTyped, LoopsTyped, DbTyped, RowTyped, EnvTyped
  <2> QED
    BY <1>2, <2>1, <2>2, TypeDb DEF TypeInv
<1> QED
  BY <1>1, <1>2

\* Every variable keeps its type in every behaviour, whatever the sets of
\* agents, loops, pairs and trades and the bounds are.
THEOREM TypeCorrect == Spec => []TypeOK
<1>1. TypeInv => TypeOK
  BY DEF TypeInv
<1> QED
  BY <1>1, TypeInit, TypeNext, PTL DEF Spec


-----------------------------------------------------------------------------
(* Who is registered.                                                      *)

\* A goroutine's step leaves the engine's map, the contexts and the other
\* loops alone, but for the pause by risk control.
LEMMA LoopFrame ==
    ASSUME TypeInv, NEW l \in Loops, Looping(l)
    PROVE  /\ UNCHANGED <<owner, phase, restore, conf>>
           /\ ~RiskPause(l) => UNCHANGED <<agents, ctx>>
           /\ pc[l] \in {"idle"} \cup InCycle
           /\ pc'[l] \notin {"free", "loaded"}
           /\ \A m \in Loops \ {l} : /\ pc'[m] = pc[m] /\ sent'[m] = sent[m]
                                     /\ mem'[m] = mem[m] /\ order'[m] = order[m]
<1> USE DEF TypeInv, TypeOK, InCycle, procVars
<1>1. CASE BeginCycle(l) \/ ExitLoop(l) \/ Panic(l)
  BY <1>1 DEF BeginCycle, ExitLoop, Panic, Goto, Sends
<1>2. CASE GetTools(l) \/ Chat(l)
  BY <1>2 DEF GetTools, Chat, Goto, Sends
<1>3. CASE OtherCall(l)
  BY <1>3 DEF OtherCall, NextCall, Onward, Goto, Sends
<1>4. ASSUME NEW t \in Trades, ValidateTrade(l, t)
      PROVE  /\ UNCHANGED <<owner, phase, restore, conf, agents, ctx, mem>> /\ pc[l] = "call"
             /\ pc'[l] \notin {"free", "loaded"}
             /\ \A m \in Loops \ {l} : pc'[m] = pc[m] /\ sent'[m] = sent[m] /\ order'[m] = order[m]
  BY <1>4 DEF ValidateTrade, NextCall, Onward, Goto, Sends
<1>5. CASE LogTrade(l)
  BY <1>5 DEF LogTrade, NextCall, Onward, Goto, Sends
<1>6. CASE PauseInDB(l) \/ PersistCycle(l) \/ PersistState(l)
  BY <1>6 DEF PauseInDB, PersistCycle, PersistState, Goto, Sends
<1>7. CASE RiskPause(l)
  BY <1>7 DEF RiskPause, Onward
<1> QED
  BY <1>1, <1>2, <1>3, <1>4, <1>5, <1>6, <1>7 DEF Looping, RunCycle

LEMMA RiskPauseFrame ==
    ASSUME TypeInv, NEW l \in Loops, RiskPause(l)
    PROVE  /\ UNCHANGED <<sent, mem, order, dbVars, envVars>>
           /\ pc[l] = "pause" /\ pc'[l] \in {"call", "chat"}
           /\ Unregister(owner[l]) /\ owner[l] \in Agents
BY DEF RiskPause, Onward, TypeInv, TypeOK

LEMMA LoadFrame ==
    ASSUME TypeInv, NEW a \in Agents, NEW l \in Loops, LoadAgent(a, l)
    PROVE  /\ pc[l] = "free" /\ pc'[l] = "loaded" /\ owner[l] = a /\ order[l] = NoOrder
           /\ mem'[l] = dbState[a]
           /\ \A m \in Loops \ {l} : pc'[m] = pc[m] /\ mem'[m] = mem[m] /\ conf'[m] = conf[m]
           /\ UNCHANGED <<phase, agents, owner, ctx, sent, order, dbVars, envVars>>
BY DEF LoadAgent, TypeInv, TypeOK, LocalsOK

\* Taking contexts away keeps the invariant, and so does taking an agent's
\* entry and its loop's context.
LEMMA CancelKeeps ==
    ASSUME TypeInv, LiveIsRegistered, NEW loops, Cancel(loops), UNCHANGED <<agents, owner>>,
           \A m \in Loops : pc'[m] \in {"free", "loaded"} <=> pc[m] \in {"free", "loaded"}
    PROVE  LiveIsRegistered'
BY NoneAssumption DEF LiveIsRegistered, Cancel, TypeInv, TypeOK

LEMMA UnregisterKeeps ==
    ASSUME TypeInv, LiveIsRegistered, NEW a \in Agents, Unregister(a), UNCHANGED owner,
           \A m \in Loops : pc'[m] \in {"free", "loaded"} <=> pc[m] \in {"free", "loaded"}
    PROVE  LiveIsRegistered'
BY NoneAssumption DEF LiveIsRegistered, Unregister, Cancel, TypeInv, TypeOK

LEMMA RegisteredNext == TypeInv /\ LiveIsRegistered /\ [Next]_vars => LiveIsRegistered'
<1> SUFFICES ASSUME TypeInv, LiveIsRegistered, [Next]_vars PROVE LiveIsRegistered'
  OBVIOUS
<1>1. CASE UNCHANGED <<agents, pc, owner, ctx>>
  BY <1>1 DEF LiveIsRegistered
<1>2. CASE UNCHANGED vars
  BY <1>1, <1>2 DEF vars, procVars, loopVars
<1>3. CASE RestoreAgents \/ (\E a \in Agents : RestoreTake(a) \/ RestoreSkip(a) \/ Serve(a))
           \/ \E s \in late : Commit(s)
  BY <1>1, <1>3 DEF RestoreAgents, RestoreTake, RestoreSkip, CannotRestore, Serve, Commit,
                    procVars, loopVars
<1>4. ASSUME NEW a \in Agents, NEW l \in Loops, LoadAgent(a, l) PROVE LiveIsRegistered'
  BY <1>4, LoadFrame, NoneAssumption DEF LiveIsRegistered, TypeInv, TypeOK
<1>5. CASE RestoreEnds \/ \E l \in Loops : CallerEnds(l)
  BY <1>5, CancelKeeps DEF RestoreEnds, CallerEnds, procVars
<1>6. CASE Stop
  BY <1>6, NoneAssumption DEF Stop, Cancel, LiveIsRegistered, TypeInv, TypeOK
<1>7. CASE Crash
  BY <1>7 DEF Crash, LiveIsRegistered, TypeInv, TypeOK
<1>8. ASSUME NEW a \in Agents, PauseAgent(a) PROVE LiveIsRegistered'
  BY <1>8, UnregisterKeeps DEF PauseAgent
<1>9. ASSUME NEW l \in Loops, InstallLoop(l) PROVE LiveIsRegistered'
  BY <1>9, NoneAssumption DEF InstallLoop, Cancel, LiveIsRegistered, TypeInv, TypeOK
<1>10. ASSUME NEW l \in Loops, Looping(l) PROVE LiveIsRegistered'
  <2>1. \A m \in Loops : pc'[m] \in {"free", "loaded"} <=> pc[m] \in {"free", "loaded"}
    BY <1>10, LoopFrame DEF InCycle
  <2>2. UNCHANGED owner /\ (~RiskPause(l) => UNCHANGED <<agents, ctx>>)
    BY <1>10, LoopFrame
  <2>3. CASE RiskPause(l)
    BY <2>1, <2>2, <2>3, RiskPauseFrame, UnregisterKeeps
  <2>4. CASE ~RiskPause(l)
    BY <2>1, <2>2, <2>4, NoneAssumption DEF LiveIsRegistered, TypeInv, TypeOK
  <2> QED
    BY <2>3, <2>4
<1> QED
  BY <1>2, <1>3, <1>4, <1>5, <1>6, <1>7, <1>8, <1>9, <1>10, NextParts
     DEF Scheduling, Restoring, RestoreLoad, StartAgent

LEMMA RegisteredInit == Init => LiveIsRegistered
BY DEF Init, LiveIsRegistered

\* A loop whose context is live is the one its agent is registered with,
\* whenever contexts end by themselves; the entry of an agent may name a loop
\* whose context is over (StartAgent, PauseAgent, Stop, handleTradeToolCall).
THEOREM Registered == Spec => []LiveIsRegistered
BY TypeInit, TypeNext, RegisteredInit, RegisteredNext, PTL DEF Spec

\* Two loops of one agent are never both live, however StartAgent, PauseAgent,
\* Stop, pauses by risk control, crashes and restores interleave.
THEOREM OneLiveLoop == Spec => []AtMostOneLiveLoop
<1>1. TypeInv /\ LiveIsRegistered => AtMostOneLiveLoop
  BY DEF TypeInv, TypeOK, LiveIsRegistered, AtMostOneLiveLoop, Active, InCycle
<1> QED
  BY <1>1, TypeInit, TypeNext, RegisteredInit, RegisteredNext, PTL DEF Spec

\* The step RiskPauseStops speaks of.
PauseCancels ==
    \A l \in Loops :
        (pc[l] \in {"pauseDB", "pause"} /\ pc'[l] \notin {"pauseDB", "pause"})
            => ctx'[l] = "cancelled"

LEMMA PauseNext == TypeInv /\ LiveIsRegistered /\ [Next]_vars => [PauseCancels]_vars
<1> SUFFICES ASSUME TypeInv, LiveIsRegistered, Next, NEW l \in Loops,
                    pc[l] \in {"pauseDB", "pause"}, pc'[l] \notin {"pauseDB", "pause"}
             PROVE  ctx'[l] = "cancelled"
  BY DEF PauseCancels
<1>1. CASE Crash
  BY <1>1 DEF Crash
<1>2. CASE Scheduling /\ ~Crash
  <2>1. pc'[l] = pc[l]
    <3>1. ASSUME NEW a \in Agents, NEW m \in Loops, LoadAgent(a, m) PROVE pc'[l] = pc[l]
      BY <3>1, LoadFrame
    <3>2. ASSUME NEW m \in Loops, InstallLoop(m) PROVE pc'[l] = pc[l]
      BY <3>2 DEF InstallLoop
    <3> QED
      BY <1>2, <3>1, <3>2
         DEF Scheduling, Restoring, RestoreAgents, RestoreTake, RestoreSkip, CannotRestore,
             RestoreLoad, StartAgent, RestoreEnds, Stop, PauseAgent, Serve, CallerEnds, Commit,
             loopVars
  <2> QED
    BY <2>1
<1>3. ASSUME NEW m \in Loops, Looping(m) PROVE ctx'[l] = "cancelled"
  <2>1. m = l
    BY <1>3, LoopFrame
  <2>2. RiskPause(l)
    BY <1>3, <2>1 DEF Looping, BeginCycle, ExitLoop, Panic, RunCycle, GetTools, Chat, OtherCall,
                      ValidateTrade, LogTrade, PauseInDB, PersistCycle, PersistState, Goto,
                      TypeInv, TypeOK
  <2>3. Cancel({agents[owner[l]]}) /\ pc[l] = "pause"
    BY <2>2, RiskPauseFrame DEF Unregister
  <2>4. ctx[l] = "live" => agents[owner[l]] = l
    BY <2>3 DEF LiveIsRegistered
  <2> QED
    BY <2>3, <2>4 DEF Cancel, TypeInv, TypeOK
<1> QED
  BY <1>1, <1>2, <1>3, NextParts

\* A loop that risk control wants paused does not go on: its context is over
\* when handleTradeToolCall returns, whatever the database answered and
\* whichever loop the agent is registered with by then.
THEOREM RiskPauseHolds == Spec => RiskPauseStops
<1>1. [][PauseCancels]_vars => RiskPauseStops
  BY PTL DEF PauseCancels, RiskPauseStops
<1> QED
  BY <1>1, TypeInit, TypeNext, RegisteredInit, RegisteredNext, PauseNext, PTL DEF Spec

-----------------------------------------------------------------------------
(* Restoring.                                                              *)

\* RestoreAgents is at one agent at a time, which is off the list; the loop it
\* has loaded waits to be installed; those it has started are not free; and a
\* process that boots has no list.
RestoreWaits ==
    /\ restore.now # None => phase = "up" /\ restore.now \notin restore.todo
    /\ restore.at # None => pc[restore.at] = "loaded" /\ owner[restore.at] = restore.now
    /\ \A l \in restore.loops : pc[l] # "free"
    /\ phase = "booting" => restore = NoRestore

\* The list is made once, at the boot.
ListMade == /\ phase = "booting" /\ phase' = "up"
            /\ restore' = [restore EXCEPT !.todo = restore'.todo]

\* An agent's turn has come.
Taken == /\ restore.now = None /\ restore'.now \in restore.todo
         /\ restore' = [restore EXCEPT !.todo = @ \ {restore'.now}, !.now = restore'.now]

\* Its loop is loaded, with the state the database has.
Loaded == /\ restore.now # None /\ restore.at = None /\ ~restore.over
          /\ \E l \in Loops : /\ restore' = [restore EXCEPT !.at = l] /\ owner[l] = restore.now
                              /\ pc'[l] = "loaded" /\ mem'[l] = dbState[restore.now]

\* It cannot be loaded.
GivenUp == /\ restore.now # None /\ restore.at = None /\ restore' = Passed({})
           /\ faults' = faults + 1 \/ ~Row!Alive(restore.now) \/ restore.over

\* The loop loaded is the one registered, before the next agent's turn; it is
\* live unless its context is over already.
Installed == /\ restore.at # None /\ restore' = Passed({restore.at})
             /\ agents'[restore.now] = restore.at /\ pc'[restore.at] = "idle"
             /\ UNCHANGED <<sent, mem>>

\* The context it was called with ends, and those of all its loops.
Ended == /\ restore' = [restore EXCEPT !.over = TRUE]
         /\ \A l \in Loops : l \in restore.loops \cup {restore.at} => ctx'[l] = "cancelled"

RestoreStep == \/ UNCHANGED restore
               \/ ListMade \/ Taken \/ Loaded \/ GivenUp \/ Installed \/ Ended \/ Crash

RestoreRecord == [todo : SUBSET Agents, now : Agents \cup {None}, at : Loops \cup {None},
                  loops : SUBSET Loops, over : BOOLEAN]

LEMMA RestoreInit == Init => RestoreWaits
BY DEF Init, RestoreWaits, NoRestore

\* A step that leaves the list and the loaded loops alone.
LEMMA RestoreFrame ==
    ASSUME TypeInv, RestoreWaits, UNCHANGED <<restore, phase, owner>>,
           \A l \in Loops : /\ pc[l] = "loaded" => pc'[l] = "loaded"
                            /\ pc[l] # "free" => pc'[l] # "free"
    PROVE  RestoreWaits' /\ RestoreStep
BY NoneAssumption DEF RestoreWaits, RestoreStep, TypeInv, TypeOK

LEMMA RestoreNextKeeps == TypeInv /\ RestoreWaits /\ [Next]_vars => RestoreWaits' /\ [RestoreStep]_vars
<1> SUFFICES ASSUME TypeInv, RestoreWaits, [Next]_vars
             PROVE  RestoreWaits' /\ RestoreStep
  OBVIOUS
<1> USE NoneAssumption
<1>0. /\ restore \in RestoreRecord /\ pc \in [Loops -> PCs] /\ owner \in [Loops -> Agents]
      /\ phase \in {"booting", "up"} /\ ctx \in [Loops -> {"live", "cancelled"}]
  BY DEF TypeInv, TypeOK, RestoreRecord
<1>1. CASE UNCHANGED <<restore, phase, owner, pc>>
  BY <1>1, RestoreFrame
<1>2. CASE UNCHANGED vars
  BY <1>1, <1>2 DEF vars, procVars, loopVars
<1>3. CASE RestoreAgents
  <2>1. phase = "booting" /\ restore = NoRestore /\ phase' = "up" /\ UNCHANGED <<pc, owner>>
    BY <1>3 DEF RestoreAgents, RestoreWaits, loopVars
  <2>2. CASE UNCHANGED restore
    BY <2>1, <2>2 DEF RestoreWaits, RestoreStep, NoRestore
  <2>3. ASSUME NEW T \in SUBSET Agents, restore' = [restore EXCEPT !.todo = T]
        PROVE  RestoreWaits' /\ RestoreStep
    <3>1. restore' = [restore EXCEPT !.todo = restore'.todo]
      BY <1>0, <2>3 DEF RestoreRecord
    <3>2. restore'.now = None /\ restore'.at = None /\ restore'.loops = {}
      BY <2>1, <2>3 DEF NoRestore
    <3> QED
      BY <2>1, <3>1, <3>2 DEF RestoreWaits, RestoreStep, ListMade
  <2> QED
    BY <1>3, <2>2, <2>3 DEF RestoreAgents
<1>4. ASSUME NEW a \in Agents, RestoreTake(a) PROVE RestoreWaits' /\ RestoreStep
  <2>1. /\ restore.now = None /\ a \in restore.todo /\ UNCHANGED <<phase, pc, owner>>
        /\ restore' = [restore EXCEPT !.todo = @ \ {a}, !.now = a]
    BY <1>4 DEF RestoreTake, loopVars
  <2>2. /\ restore'.now = a /\ restore'.todo = restore.todo \ {a} /\ restore'.at = restore.at
        /\ restore'.loops = restore.loops
    BY <1>0, <2>1 DEF RestoreRecord
  <2>3. restore.at = None /\ phase = "up"
    <3>1. restore.at # None => restore.at \in Loops
      BY <1>0 DEF RestoreRecord
    <3> QED
      BY <1>0, <2>1, <3>1 DEF RestoreWaits, NoRestore
  <2>4. RestoreWaits'
    BY <2>1, <2>2, <2>3 DEF RestoreWaits
  <2> QED
    BY <2>1, <2>2, <2>4 DEF RestoreStep, Taken
<1>5. ASSUME NEW a \in Agents, RestoreSkip(a) PROVE RestoreWaits' /\ RestoreStep
  <2>1. /\ restore.now = a /\ restore.at = None /\ restore' = Passed({}) /\ a # None
        /\ UNCHANGED <<phase, pc, owner>>
        /\ faults' = faults + 1 \/ ~Row!Alive(a) \/ restore.over
    BY <1>5 DEF RestoreSkip, CannotRestore, Fault, loopVars
  <2>2. restore'.now = None /\ restore'.at = None /\ restore'.loops \in {{}, restore.loops}
    BY <1>0, <2>1 DEF Passed, NoRestore, RestoreRecord
  <2>3. phase # "booting"
    BY <2>1 DEF RestoreWaits
  <2>4. RestoreWaits'
    BY <2>1, <2>2, <2>3 DEF RestoreWaits
  <2> QED
    BY <2>1, <2>4 DEF RestoreStep, GivenUp
<1>6. ASSUME NEW a \in Agents, NEW l \in Loops, RestoreLoad(a, l) PROVE RestoreWaits' /\ RestoreStep
  <2>1. /\ restore.now = a /\ restore.at = None /\ ~restore.over /\ LoadAgent(a, l) /\ a # None
        /\ restore' = [restore EXCEPT !.at = l]
    BY <1>6 DEF RestoreLoad
  <2>2. restore'.now = a /\ restore'.at = l /\ restore'.todo = restore.todo
        /\ restore'.loops = restore.loops
    BY <1>0, <2>1 DEF RestoreRecord
  <2>3. phase # "booting"
    BY <2>1 DEF RestoreWaits
  <2>4. RestoreWaits'
    BY <2>1, <2>2, <2>3, LoadFrame DEF RestoreWaits, TypeInv, TypeOK
  <2> QED
    BY <2>1, <2>4, LoadFrame DEF RestoreStep, Loaded
<1>7. ASSUME NEW a \in Agents, NEW l \in Loops, StartAgent(a, l) PROVE RestoreWaits' /\ RestoreStep
  <2>1. LoadAgent(a, l) /\ UNCHANGED restore
    BY <1>7 DEF StartAgent
  <2> QED
    BY <2>1, LoadFrame, RestoreFrame
<1>8. CASE RestoreEnds
  <2>1. /\ restore # NoRestore /\ restore' = [restore EXCEPT !.over = TRUE]
        /\ Cancel(restore.loops \cup {restore.at}) /\ UNCHANGED <<phase, pc, owner>>
    BY <1>8 DEF RestoreEnds
  <2>2. restore'.now = restore.now /\ restore'.at = restore.at /\ restore'.todo = restore.todo
        /\ restore'.loops = restore.loops
    BY <1>0, <2>1 DEF RestoreRecord
  <2>3. RestoreWaits'
    BY <2>1, <2>2 DEF RestoreWaits
  <2> QED
    BY <2>1, <2>3 DEF RestoreStep, Ended, Cancel
<1>9. CASE Stop \/ \E a \in Agents : PauseAgent(a)
  BY <1>1, <1>9 DEF Stop, PauseAgent
<1>10. CASE Crash
  BY <1>10 DEF Crash, RestoreWaits, RestoreStep, NoRestore
<1>11. CASE (\E a \in Agents : Serve(a)) \/ (\E l \in Loops : CallerEnds(l)) \/ \E s \in late : Commit(s)
  BY <1>1, <1>11 DEF Serve, CallerEnds, Commit, procVars, loopVars
<1>12. ASSUME NEW l \in Loops, InstallLoop(l) PROVE RestoreWaits' /\ RestoreStep
  <2>1. /\ pc[l] = "loaded" /\ pc' = [pc EXCEPT ![l] = "idle"]
        /\ agents' = [agents EXCEPT ![owner[l]] = l]
        /\ restore' = IF restore.at = l THEN Passed({l}) ELSE restore
        /\ UNCHANGED <<phase, owner, sent, mem>>
    BY <1>12 DEF InstallLoop
  <2>2. CASE restore.at = l
    <3>1. /\ restore'.now = None /\ restore'.at = None
          /\ restore'.loops \in {{}, restore.loops \cup {l}}
      BY <1>0, <2>1, <2>2 DEF Passed, NoRestore, RestoreRecord
    <3>2. agents'[owner[l]] = l /\ pc'[l] = "idle" /\ phase = "up" /\ owner[l] = restore.now
      BY <1>0, <2>1, <2>2 DEF TypeInv, TypeOK, RestoreWaits
    <3>3. \A m \in Loops : pc[m] # "free" => pc'[m] # "free"
      BY <1>0, <2>1
    <3>4. RestoreWaits'
      <4>1. \A m \in restore'.loops : pc'[m] # "free"
        BY <1>0, <3>1, <3>2, <3>3 DEF RestoreWaits, RestoreRecord
      <4> QED
        BY <2>1, <3>1, <3>2, <4>1 DEF RestoreWaits
    <3> QED
      BY <2>1, <2>2, <3>2, <3>4 DEF RestoreStep, Installed
  <2>3. CASE restore.at # l
    <3>1. restore.at # None => pc'[restore.at] = pc[restore.at]
      BY <1>0, <2>1, <2>3 DEF RestoreRecord
    <3>2. \A m \in Loops : pc[m] # "free" => pc'[m] # "free"
      BY <1>0, <2>1
    <3> QED
      BY <1>0, <2>1, <2>3, <3>1, <3>2 DEF RestoreWaits, RestoreStep, RestoreRecord
  <2> QED
    BY <2>2, <2>3
<1>13. ASSUME NEW l \in Loops, Looping(l) PROVE RestoreWaits' /\ RestoreStep
  BY <1>13, LoopFrame, RestoreFrame DEF InCycle
<1> QED
  BY <1>2, <1>3, <1>4, <1>5, <1>6, <1>7, <1>8, <1>9, <1>10, <1>11, <1>12, <1>13, NextParts
     DEF Scheduling, Restoring

\* RestoreAgents is never stuck on a loop that cannot be installed, and takes
\* at most three steps for each agent it listed: it comes to the agent, loads
\* it and registers its loop, or gives it up because a query failed, the agent
\* is gone or the context is over, whatever API calls, pauses and deletions
\* come between.  Only a crash makes it start over.
THEOREM RestoreGoesOn == Spec => []RestoreWaits /\ [][RestoreStep]_vars
BY TypeInit, TypeNext, RestoreInit, RestoreNextKeeps, PTL DEF Spec

-----------------------------------------------------------------------------
(* What is left of a loop whose context is over.                           *)

\* A loop that has not begun has not been cancelled either.
FreeIsLive == \A l \in Loops : pc[l] = "free" => ctx[l] = "live"

LEMMA FreeInit == Init => FreeIsLive
BY DEF Init, FreeIsLive

LEMMA FreeNext == TypeInv /\ LiveIsRegistered /\ RestoreWaits /\ FreeIsLive /\ [Next]_vars => FreeIsLive'
<1> SUFFICES ASSUME TypeInv, LiveIsRegistered, RestoreWaits, FreeIsLive, [Next]_vars
             PROVE  FreeIsLive'
  OBVIOUS
<1> USE NoneAssumption DEF TypeInv, TypeOK
<1>1. CASE UNCHANGED <<pc, ctx>>
  BY <1>1 DEF FreeIsLive
<1>2. CASE UNCHANGED vars
  BY <1>1, <1>2 DEF vars, loopVars
<1>3. CASE RestoreAgents \/ (\E a \in Agents : RestoreTake(a) \/ RestoreSkip(a) \/ Serve(a))
           \/ \E s \in late : Commit(s)
  BY <1>1, <1>3 DEF RestoreAgents, RestoreTake, RestoreSkip, CannotRestore, Serve, Commit, loopVars
<1>4. ASSUME NEW a \in Agents, NEW l \in Loops, LoadAgent(a, l) PROVE FreeIsLive'
  BY <1>4, LoadFrame DEF FreeIsLive
<1>5. ASSUME NEW loops, Cancel(loops), UNCHANGED pc, \A l \in Loops \cap loops : pc[l] # "free"
      PROVE  FreeIsLive'
  BY <1>5 DEF FreeIsLive, Cancel
<1>6. CASE RestoreEnds
  <2>1. \A l \in Loops \cap (restore.loops \cup {restore.at}) : pc[l] # "free"
    BY DEF RestoreWaits
  <2> QED
    BY <1>5, <1>6, <2>1 DEF RestoreEnds
<1>7. \A l \in Loops : l \in {agents[a] : a \in Agents} => pc[l] # "free"
  BY DEF LiveIsRegistered
<1>8. CASE Stop \/ \E a \in Agents : PauseAgent(a)
  <2>1. CASE Stop
    BY <1>5, <1>7, <2>1 DEF Stop
  <2>2. ASSUME NEW a \in Agents, PauseAgent(a) PROVE FreeIsLive'
    <3>1. Cancel({agents[a]}) /\ UNCHANGED pc
      BY <2>2 DEF PauseAgent, Unregister
    <3> QED
      BY <1>5, <1>7, <3>1
  <2> QED
    BY <1>8, <2>1, <2>2
<1>9. CASE Crash
  BY <1>9 DEF Crash, FreeIsLive
<1>10. ASSUME NEW l \in Loops, InstallLoop(l) PROVE FreeIsLive'
  BY <1>7, <1>10 DEF InstallLoop, Cancel, FreeIsLive
<1>11. ASSUME NEW l \in Loops, CallerEnds(l) PROVE FreeIsLive'
  BY <1>5, <1>11 DEF CallerEnds
<1>12. ASSUME NEW l \in Loops, Looping(l) PROVE FreeIsLive'
  <2>1. pc[l] # "free" /\ pc'[l] # "free" /\ \A m \in Loops \ {l} : pc'[m] = pc[m]
    BY <1>12, LoopFrame DEF InCycle
  <2>2. \A m \in Loops : pc[m] = "free" => ctx'[m] = ctx[m]
    <3>1. CASE RiskPause(l)
      BY <1>7, <3>1, RiskPauseFrame DEF Unregister, Cancel
    <3> QED
      BY <1>12, <3>1, LoopFrame
  <2> QED
    BY <2>1, <2>2 DEF FreeIsLive
<1> QED
  BY <1>2, <1>3, <1>4, <1>6, <1>8, <1>9, <1>10, <1>11, <1>12, NextParts
     DEF Scheduling, Restoring, RestoreLoad, StartAgent

\* What CancelledLoopsAreSpent says of a step.
SpentIn(l) ==
    /\ mem'[l].trades + Pending(l)' <= mem[l].trades + Pending(l)
    /\ pc'[l] # pc[l] => UNCHANGED tables
    /\ sent'[l] => sent[l]
    /\ OwnLate(l)' \subseteq OwnLate(l) \/ (sent[l] /\ ~sent'[l])

Spent == \A l \in Loops : ctx[l] = "cancelled" => SpentIn(l)

\* A call leaves at most its own statement, and only one that was sent.
LEMMA LeavesOwn ==
    ASSUME NEW l \in Loops, NEW s, Attempts(l, s)
    PROVE  late' = late \/ (sent[l] /\ late' = late \cup {s})
BY DEF Attempts, Succeeds, Misses, Fails, Leaves, dbVars

\* Another loop's step.
LEMMA OthersSpend ==
    ASSUME TypeInv, NEW l \in Loops, NEW m \in Loops \ {l}, Looping(m)
    PROVE  SpentIn(l)
<1>1. pc'[l] = pc[l] /\ sent'[l] = sent[l] /\ mem'[l] = mem[l] /\ order'[l] = order[l]
  BY LoopFrame
<1>2. OwnLate(l)' \subseteq OwnLate(l)
  <2>1. CASE \/ \E t \in Trades : ValidateTrade(m, t)
             \/ LogTrade(m) \/ PauseInDB(m) \/ PersistCycle(m) \/ PersistState(m)
    <3>1. PICK s \in Issuable(m) : pc[m] \in Issuing /\ Attempts(m, s)
      BY <2>1, LoopCalls
    <3>2. s.loop = m
      BY <3>1, IssuableType
    <3> QED
      BY <3>1, <3>2, LeavesOwn DEF OwnLate
  <2>2. CASE \/ BeginCycle(m) \/ ExitLoop(m) \/ Panic(m) \/ GetTools(m) \/ Chat(m) \/ OtherCall(m)
             \/ RiskPause(m)
    BY <2>2 DEF OwnLate, BeginCycle, ExitLoop, Panic, GetTools, Chat, OtherCall, RiskPause, dbVars
  <2> QED
    BY <2>1, <2>2 DEF Looping, RunCycle
<1>3. mem[l].trades \in Nat /\ Pending(l) \in {0, 1} /\ Pending(l)' = Pending(l)
  BY <1>1 DEF Pending, TypeInv, TypeOK, AgentStates
<1> QED
  BY <1>1, <1>2, <1>3 DEF SpentIn

\* Its own.
LEMMA OwnSpend ==
    ASSUME TypeInv, NEW l \in Loops, ctx[l] = "cancelled", Looping(l)
    PROVE  SpentIn(l)
<1> USE DEF TypeInv, TypeOK
<1>1. sent'[l] => sent[l] /\ RiskPause(l)
  BY DEF Looping, BeginCycle, ExitLoop, Panic, RunCycle, GetTools, Chat, OtherCall, ValidateTrade,
         LogTrade, PauseInDB, RiskPause, PersistCycle, PersistState, NextCall, Goto, Sends
<1>2. UNCHANGED tables /\ (late' = late \/ (sent[l] /\ ~sent'[l]))
  <2>1. CASE \/ \E t \in Trades : ValidateTrade(l, t)
             \/ LogTrade(l) \/ PauseInDB(l) \/ PersistCycle(l) \/ PersistState(l)
    <3>1. PICK s \in Issuable(l) : pc[l] \in Issuing /\ Attempts(l, s)
      BY <2>1, LoopCalls
    <3>2. UNCHANGED tables
      BY <3>1 DEF Attempts, Succeeds, Misses, Fails, dbVars, tables
    <3>3. ~RiskPause(l)
      BY <3>1 DEF RiskPause, Issuing
    <3> QED
      BY <1>1, <3>1, <3>2, <3>3, LeavesOwn
  <2>2. CASE \/ BeginCycle(l) \/ ExitLoop(l) \/ Panic(l) \/ GetTools(l) \/ Chat(l) \/ OtherCall(l)
             \/ RiskPause(l)
    BY <2>2 DEF BeginCycle, ExitLoop, Panic, GetTools, Chat, OtherCall, RiskPause, dbVars, tables
  <2> QED
    BY <2>1, <2>2 DEF Looping, RunCycle
<1>3. mem'[l].trades + Pending(l)' <= mem[l].trades + Pending(l)
  <2>0. mem[l].trades \in Nat /\ Pending(l) \in {0, 1}
    BY DEF Pending, AgentStates
  <2>1. CASE UNCHANGED order /\ mem'[l].trades = mem[l].trades
    <3>1. Pending(l)' = Pending(l)
      BY <2>1 DEF Pending
    <3> QED
      BY <2>0, <2>1, <3>1
  <2>2. CASE LogTrade(l)
    <3>1. order[l].trade \in Trades /\ order'[l] = NoOrder /\ mem'[l] = Applied(mem[l], order[l])
      BY <2>2 DEF LogTrade, LocalsOK
    <3>2. Pending(l)' = 0
      BY <3>1 DEF Pending, NoOrder
    <3>3. CASE order[l].decision.approved
      <4>1. mem'[l].trades = mem[l].trades + 1
        BY <3>1, <3>3, ExecuteType DEF Applied
      <4>2. Pending(l) = 1
        BY <3>1, <3>3, NoneAssumption DEF Pending
      <4> QED
        BY <2>0, <3>2, <4>1, <4>2
    <3>4. CASE ~order[l].decision.approved
      BY <2>0, <3>1, <3>2, <3>4 DEF Applied
    <3> QED
      BY <3>3, <3>4
  <2>3. CASE BeginCycle(l)
    <3>1. mem' = [mem EXCEPT ![l] = [mem[l] EXCEPT !.cycle = @ + 1]] /\ UNCHANGED order
      BY <2>3 DEF BeginCycle
    <3>2. [mem[l] EXCEPT !.cycle = @ + 1].trades = mem[l].trades
      BY DEF AgentStates
    <3> QED
      BY <2>1, <3>1, <3>2
  <2>4. CASE \E t \in Trades : ValidateTrade(l, t)
    BY <2>1, <2>4 DEF ValidateTrade, Succeeds
  <2>5. CASE UNCHANGED <<mem, order>>
    BY <2>1, <2>5
  <2> QED
    BY <2>2, <2>3, <2>4, <2>5
       DEF Looping, ExitLoop, Panic, RunCycle, GetTools, Chat, OtherCall, PauseInDB, RiskPause,
           PersistCycle, PersistState
<1> QED
  BY <1>1, <1>2, <1>3 DEF SpentIn, OwnLate

LEMMA SchedulerSpends ==
    ASSUME TypeInv, FreeIsLive, NEW l \in Loops, ctx[l] = "cancelled", Scheduling
    PROVE  SpentIn(l)
<1> USE DEF TypeInv, TypeOK
<1>0. mem[l].trades \in Nat /\ Pending(l) \in {0, 1}
  BY DEF Pending, AgentStates
<1>1. CASE UNCHANGED <<pc, sent, mem, order>> /\ late' \subseteq late
  <2>1. Pending(l)' = Pending(l)
    BY <1>1 DEF Pending
  <2> QED
    BY <1>0, <1>1, <2>1 DEF SpentIn, OwnLate
<1>2. CASE \/ RestoreAgents \/ RestoreEnds \/ Stop
           \/ (\E a \in Agents : RestoreTake(a) \/ RestoreSkip(a) \/ Serve(a) \/ PauseAgent(a))
           \/ (\E m \in Loops : CallerEnds(m)) \/ \E s \in late : Commit(s)
  BY <1>1, <1>2 DEF RestoreAgents, RestoreEnds, Stop, RestoreTake, RestoreSkip, CannotRestore, Serve,
                    PauseAgent, CallerEnds, Commit, loopVars, dbVars
<1>3. ASSUME NEW a \in Agents, NEW m \in Loops, LoadAgent(a, m) PROVE SpentIn(l)
  <2>1. m # l /\ pc'[l] = pc[l] /\ mem'[l] = mem[l] /\ UNCHANGED <<sent, order, dbVars>>
    BY <1>3, LoadFrame DEF FreeIsLive
  <2>2. Pending(l)' = Pending(l) /\ late' = late
    BY <2>1 DEF Pending, dbVars
  <2> QED
    BY <1>0, <2>1, <2>2 DEF SpentIn, OwnLate
<1>4. ASSUME NEW m \in Loops, InstallLoop(m) PROVE SpentIn(l)
  <2>1. UNCHANGED <<mem, sent, order, dbVars>>
    BY <1>4 DEF InstallLoop
  <2>2. Pending(l)' = Pending(l) /\ UNCHANGED <<tables, late>>
    BY <2>1 DEF Pending, dbVars, tables
  <2> QED
    BY <1>0, <2>1, <2>2 DEF SpentIn, OwnLate
<1>5. CASE Crash
  <2>1. UNCHANGED <<mem, tables>> /\ order'[l] = NoOrder /\ sent'[l] = FALSE
    BY <1>5 DEF Crash
  <2>2. Pending(l)' = 0
    BY <2>1 DEF Pending, NoOrder
  <2>3. sent[l] \/ OwnLate(l)' \subseteq OwnLate(l)
    <3>1. PICK left \in SUBSET UNION {InFlight(m) : m \in Loops} : late' = late \cup left
      BY <1>5 DEF Crash, Leaves
    <3>2. \A s \in left : s.loop = l => sent[l]
      BY <3>1, InFlightType
    <3> QED
      BY <3>1, <3>2 DEF OwnLate
  <2> QED
    BY <1>0, <2>1, <2>2, <2>3 DEF SpentIn
<1> QED
  BY <1>2, <1>3, <1>4, <1>5 DEF Scheduling, Restoring, RestoreLoad, StartAgent

LEMMA SpentNext == TypeInv /\ FreeIsLive /\ [Next]_vars => [Spent]_vars
BY NextParts, OthersSpend, OwnSpend, SchedulerSpends DEF Spent

\* Nothing more comes of a loop whose context is over: it takes on no trade, no
\* call of it writes, and the database may still see the statement that was
\* under way when the context ended, and no other.
THEOREM CancelledLoopsStaySpent == Spec => CancelledLoopsAreSpent
<1>1. [][Spent]_vars => CancelledLoopsAreSpent
  BY PTL DEF Spent, SpentIn, CancelledLoopsAreSpent
<1> QED
  BY <1>1, TypeInit, TypeNext, RegisteredInit, RegisteredNext, RestoreInit, RestoreNextKeeps,
     FreeInit, FreeNext, SpentNext, PTL DEF Spec

-----------------------------------------------------------------------------
(* What the engine and the services may each rely on about the row.        *)

\* What the engine writes to a row, and where in a cycle.
Writes(a, at) == \/ at \in {"call", "log", "persistLog"} /\ Row!Refer(a)
                 \/ at = "pauseDB" /\ Row!SetStatus(a, "paused")

\* By the agent's registered loop, with its context live.
RegisteredWrites(a) ==
    agents[a] # None /\ ctx[agents[a]] = "live" /\ Writes(a, pc[agents[a]])

\* By a statement that was given up earlier, whatever has become of its loop.
LateWrites(a) ==
    \E s \in late : /\ owner[s.loop] = a /\ late' = late \ {s} /\ Writes(a, s.at)
                    /\ UNCHANGED <<procVars, loopVars>>

ServicesWrite(a) == Row!Serve(a) /\ UNCHANGED <<procVars, loopVars, late>>

RowStep ==
    /\ \E a \in Agents : RegisteredWrites(a) \/ LateWrites(a) \/ ServicesWrite(a)
    /\ Row!Next

\* A statement at a row.
LEMMA StatementOnRow ==
    ASSUME TypeInv, NEW s \in Statements, Executes(s)
    PROVE  /\ owner[s.loop] \in Agents
           /\ UNCHANGED rowVars \/ (Writes(owner[s.loop], s.at) /\ Row!Next)
<1>1. owner[s.loop] \in Agents
  BY DEF Statements, TypeInv, TypeOK
<1>2. UNCHANGED rowVars \/ Writes(owner[s.loop], s.at)
  BY DEF Executes, Inserts, Writes
<1>3. Writes(owner[s.loop], s.at) => Row!Next
  BY <1>1 DEF Writes, Row!Next, Row!Serve
<1> QED
  BY <1>1, <1>2, <1>3

LEMMA RowStepNext == TypeInv /\ LiveIsRegistered /\ [Next]_vars => [RowStep]_(Row!vars)
<1> SUFFICES ASSUME TypeInv, LiveIsRegistered, [Next]_vars, ~UNCHANGED rowVars PROVE RowStep
  BY DEF rowVars, Row!vars
<1>1. CASE LateGrows
  BY <1>1 DEF LateGrows, tables
<1>2. ASSUME NEW s \in late, LateRuns(s) PROVE RowStep
  <2>1. s \in Statements
    BY DEF TypeInv, TypeOK
  <2> QED
    BY <1>2, <2>1, StatementOnRow DEF LateRuns, LateWrites, RowStep
<1>3. ASSUME NEW l \in Loops, LoopRuns(l) PROVE RowStep
  <2>1. PICK s \in Issuable(l) : Executes(s)
    BY <1>3 DEF LoopRuns
  <2>2. s \in Statements /\ s.at = pc[l] /\ s.loop = l
    BY <1>3, <2>1, IssuableType DEF LoopRuns
  <2>3. agents[owner[l]] = l /\ l # None /\ ctx[l] = "live"
    BY <1>3, NoneAssumption DEF LoopRuns, LiveIsRegistered, Issuing
  <2> QED
    BY <2>1, <2>2, <2>3, StatementOnRow DEF RegisteredWrites, RowStep
<1>4. ASSUME NEW a \in Agents, Serve(a) PROVE RowStep
  <2>1. ServicesWrite(a)
    BY <1>4 DEF Serve, ServicesWrite
  <2>2. Row!Next
    BY <1>4 DEF Serve, Row!Next
  <2> QED
    BY <2>1, <2>2 DEF RowStep
<1> QED
  BY <1>1, <1>2, <1>3, <1>4, DbStepNext DEF DbStep

\* The engine does to an agent's row what AgentRow allows and no more than
\* AgentService takes it to do: it refers to the row from the calls that insert
\* one, and pauses the agent where risk control does.  It is the agent's
\* registered loop that writes, or a statement sent before its context ended.
\* What else happens to the row is a step of the services', which leaves the
\* engine alone (handleTradeToolCall, persistCycle).
THEOREM EngineKeepsRow == Spec => [][RowStep]_(Row!vars)
BY TypeInit, TypeNext, RegisteredInit, RegisteredNext, RowStepNext, PTL DEF Spec

-----------------------------------------------------------------------------
(* Every trade has its trade_approved event.                               *)

OrdersAudited ==
    \A l \in Loops :
        /\ mem[l].trades + Pending(l) <= approvals[owner[l]]
        /\ Pending(l) = 1 => order[l].event \in 1..approvals[owner[l]]

TablesAudited ==
    \A a \in Agents : dbState[a].trades <= approvals[a] /\ tradeLogs[a] \subseteq 1..approvals[a]

\* A statement that may still be executed.
StatementAudited(s) ==
    /\ s.at = "persistState" => s.state.trades <= approvals[owner[s.loop]]
    /\ s.at = "log" /\ s.approved => s.event \in 1..approvals[owner[s.loop]]

AuditInv == OrdersAudited /\ TablesAudited /\ \A s \in late : StatementAudited(s)

LEMMA AuditInit == Init => AuditInv
<1> SUFFICES ASSUME Init PROVE AuditInv
  OBVIOUS
<1>1. \A a \in Agents : dbState[a].trades = 0
  BY DEF Init, FreshState
<1>2. \A l \in Loops : mem[l].trades = 0 /\ owner[l] \in Agents
  BY <1>1 DEF Init
<1>3. \A l \in Loops : Pending(l) = 0
  BY DEF Init, Pending, NoOrder
<1> QED
  BY <1>1, <1>2, <1>3 DEF Init, AuditInv, OrdersAudited, TablesAudited

LEMMA OwnersStay == TypeInv /\ [Next]_vars => UNCHANGED owner
<1> SUFFICES ASSUME TypeInv, [Next]_vars PROVE UNCHANGED owner
  OBVIOUS
<1>1. CASE Scheduling
  BY <1>1 DEF Scheduling, Restoring, RestoreAgents, RestoreTake, RestoreSkip, CannotRestore,
              RestoreLoad, StartAgent, LoadAgent, RestoreEnds, Stop, Crash, PauseAgent, Serve,
              InstallLoop, CallerEnds, Commit, loopVars
<1> QED
  BY <1>1, NextParts, LoopFrame DEF vars, loopVars

\* An event is never taken back.
LEMMA ApprovalsGrow ==
    TypeInv /\ [Next]_vars => \A a \in Agents : /\ approvals'[a] \in Nat /\ approvals[a] \in Nat
                                                /\ approvals[a] <= approvals'[a]
<1> SUFFICES ASSUME TypeInv, [Next]_vars, NEW a \in Agents
             PROVE  approvals'[a] \in Nat /\ approvals[a] \in Nat /\ approvals[a] <= approvals'[a]
  OBVIOUS
<1>1. approvals[a] \in Nat /\ approvals'[a] \in Nat
  BY TypeDb DEF TypeInv, TypeOK, DbTyped
<1>2. ASSUME NEW s, Executes(s) PROVE approvals[a] <= approvals'[a]
  <2>1. CASE UNCHANGED approvals
    BY <1>1, <2>1
  <2>2. CASE approvals' = [approvals EXCEPT ![owner[s.loop]] = IF s.approved THEN @ + 1 ELSE @]
    BY <1>1, <2>2 DEF TypeInv, TypeOK
  <2> QED
    BY <1>2, <2>1, <2>2 DEF Executes
<1>3. CASE UNCHANGED approvals
  BY <1>1, <1>3
<1>4. CASE LateGrows \/ \E b \in Agents : Serve(b)
  BY <1>3, <1>4 DEF LateGrows, tables, Serve
<1>5. CASE (\E s \in late : LateRuns(s)) \/ \E l \in Loops : LoopRuns(l)
  BY <1>1, <1>2, <1>5 DEF LateRuns, LoopRuns
<1> QED
  BY <1>4, <1>5, DbStepNext DEF DbStep

\* What a loop may issue is covered by its events.
LEMMA IssuableAudited ==
    ASSUME TypeInv, OrdersAudited, NEW l \in Loops, pc[l] \in Issuing, NEW s \in Issuable(l)
    PROVE  StatementAudited(s)
<1>1. s.at = pc[l] /\ s.loop = l /\ s.event = order[l].event /\ s.state = mem[l]
      /\ (pc[l] # "call" => s.approved = order[l].decision.approved)
  BY IssuableType
<1>2. mem[l].trades \in Nat /\ Pending(l) \in {0, 1} /\ owner[l] \in Agents
      /\ approvals[owner[l]] \in Nat
  BY DEF Pending, TypeInv, TypeOK, AgentStates
<1>3. s.at = "persistState" => s.state.trades <= approvals[owner[s.loop]]
  BY <1>1, <1>2 DEF OrdersAudited
<1>4. ASSUME s.at = "log", s.approved PROVE s.event \in 1..approvals[owner[s.loop]]
  <2>1. Pending(l) = 1
    BY <1>1, <1>4, NoneAssumption DEF Pending, TypeInv, LocalsOK
  <2> QED
    BY <1>1, <2>1 DEF OrdersAudited
<1> QED
  BY <1>3, <1>4 DEF StatementAudited

\* Such a statement leaves the tables covered.
LEMMA ExecutesAudited ==
    ASSUME TypeInv, TablesAudited, [Next]_vars,
           NEW s \in Statements, StatementAudited(s), Executes(s)
    PROVE  TablesAudited'
<1> DEFINE a == owner[s.loop]
<1>1. a \in Agents
  BY DEF Statements, TypeInv, TypeOK
<1>2. \A b \in Agents : approvals'[b] \in Nat /\ approvals[b] \in Nat /\ approvals[b] <= approvals'[b]
  BY ApprovalsGrow
<1>3. \A b \in Agents : dbState'[b].trades <= approvals[b]
  <2>1. CASE UNCHANGED dbState
    BY <2>1 DEF TablesAudited
  <2>2. CASE s.at = "persistState" /\ dbState' = [dbState EXCEPT ![a] = s.state]
    BY <1>1, <2>2 DEF TablesAudited, StatementAudited, TypeInv, TypeOK
  <2> QED
    BY <2>1, <2>2 DEF Executes
<1>4. \A b \in Agents : tradeLogs'[b] \subseteq 1..approvals[b]
  <2>1. CASE UNCHANGED tradeLogs
    BY <2>1 DEF TablesAudited
  <2>2. CASE s.at = "log" /\ tradeLogs' = [tradeLogs EXCEPT ![a] = IF s.approved THEN @ \cup {s.event} ELSE @]
    BY <1>1, <2>2 DEF TablesAudited, StatementAudited, TypeInv, TypeOK
  <2> QED
    BY <2>1, <2>2 DEF Executes
<1>5. \A b \in Agents : dbState'[b].trades \in Nat
  <2>1. dbState' \in [Agents -> AgentStates]
    BY TypeDb DEF DbTyped
  <2> QED
    BY <2>1 DEF AgentStates
<1>6. \A b \in Agents : 1..approvals[b] \subseteq 1..approvals'[b]
  BY <1>2
<1> QED
  BY <1>2, <1>3, <1>4, <1>5, <1>6 DEF TablesAudited

\* What was covered stays covered.
LEMMA StatementStaysAudited ==
    ASSUME TypeInv, [Next]_vars, NEW s \in Statements, StatementAudited(s)
    PROVE  StatementAudited(s)'
<1>1. owner[s.loop] \in Agents /\ UNCHANGED owner /\ s.state.trades \in Nat /\ s.event \in Nat
  BY OwnersStay DEF Statements, TypeInv, TypeOK, AgentStates
<1>2. /\ approvals[owner[s.loop]] \in Nat /\ approvals'[owner[s.loop]] \in Nat
      /\ approvals[owner[s.loop]] <= approvals'[owner[s.loop]]
  BY <1>1, ApprovalsGrow
<1> QED
  BY <1>1, <1>2 DEF StatementAudited

LEMMA TablesNext ==
    TypeInv /\ AuditInv /\ [Next]_vars => TablesAudited' /\ (\A s \in late : StatementAudited(s))'
<1> SUFFICES ASSUME TypeInv, AuditInv, [Next]_vars
             PROVE  TablesAudited' /\ \A s \in late' : StatementAudited(s)'
  OBVIOUS
<1>1. ASSUME UNCHANGED <<dbState, tradeLogs>> PROVE TablesAudited'
  <2>1. \A a \in Agents : dbState[a].trades \in Nat
    BY DEF TypeInv, TypeOK, AgentStates
  <2>2. \A a \in Agents : dbState[a].trades <= approvals'[a]
    BY <2>1, ApprovalsGrow DEF AuditInv, TablesAudited
  <2>3. \A a \in Agents : 1..approvals[a] \subseteq 1..approvals'[a]
    BY ApprovalsGrow
  <2> QED
    BY <1>1, <2>2, <2>3 DEF AuditInv, TablesAudited
<1>2. ASSUME NEW s \in Statements, StatementAudited(s), Executes(s) PROVE TablesAudited'
  BY <1>2, ExecutesAudited DEF AuditInv
<1>3. late \subseteq Statements /\ \A s \in late : StatementAudited(s)
  BY DEF TypeInv, TypeOK, AuditInv
<1>4. CASE LateGrows
  <2>1. ASSUME NEW l \in Loops, NEW s \in InFlight(l) PROVE s \in Statements /\ StatementAudited(s)
    BY InFlightType, IssuableAudited DEF AuditInv
  <2> QED
    BY <1>1, <1>3, <1>4, <2>1, StatementStaysAudited DEF LateGrows, tables
<1>5. ASSUME NEW s \in late, LateRuns(s)
      PROVE  TablesAudited' /\ \A u \in late' : StatementAudited(u)'
  BY <1>2, <1>3, <1>5, StatementStaysAudited DEF LateRuns
<1>6. ASSUME NEW l \in Loops, LoopRuns(l)
      PROVE  TablesAudited' /\ \A s \in late' : StatementAudited(s)'
  <2>1. PICK s \in Issuable(l) : Executes(s)
    BY <1>6 DEF LoopRuns
  <2>2. s \in Statements /\ StatementAudited(s)
    BY <1>6, <2>1, IssuableType, IssuableAudited DEF LoopRuns, AuditInv
  <2> QED
    BY <1>2, <1>3, <1>6, <2>1, <2>2, StatementStaysAudited DEF LoopRuns
<1>7. ASSUME NEW a \in Agents, Serve(a)
      PROVE  TablesAudited' /\ \A s \in late' : StatementAudited(s)'
  BY <1>1, <1>3, <1>7, StatementStaysAudited DEF Serve
<1> QED
  BY <1>4, <1>5, <1>6, <1>7, DbStepNext DEF DbStep

\* A loop's own part: what it was covered for, it still is when its trades
\* stay and its order does or is dropped.
OrderAudited(l) ==
    /\ mem[l].trades + Pending(l) <= approvals[owner[l]]
    /\ Pending(l) = 1 => order[l].event \in 1..approvals[owner[l]]

LEMMA OrderFrame ==
    ASSUME TypeInv, AuditInv, [Next]_vars, NEW l \in Loops,
           mem'[l].trades = mem[l].trades, order'[l] = order[l] \/ order'[l] = NoOrder
    PROVE  OrderAudited(l)'
<1>1. /\ UNCHANGED owner /\ owner[l] \in Agents /\ mem[l].trades \in Nat
      /\ Pending(l) \in {0, 1} /\ OrderAudited(l)
  BY OwnersStay DEF Pending, TypeInv, TypeOK, AgentStates, AuditInv, OrdersAudited, OrderAudited
<1>2. /\ approvals[owner[l]] \in Nat /\ approvals'[owner[l]] \in Nat
      /\ approvals[owner[l]] <= approvals'[owner[l]]
  BY <1>1, ApprovalsGrow
<1>3. CASE order'[l] = order[l]
  <2>1. Pending(l)' = Pending(l)
    BY <1>3 DEF Pending
  <2> QED
    BY <1>1, <1>2, <1>3, <2>1 DEF OrderAudited
<1>4. CASE order'[l] = NoOrder
  <2>1. Pending(l)' = 0
    BY <1>4 DEF Pending, NoOrder
  <2> QED
    BY <1>1, <1>2, <2>1 DEF OrderAudited
<1> QED
  BY <1>3, <1>4

LEMMA AuditValidate ==
    ASSUME TypeInv, AuditInv, [Next]_vars, NEW l \in Loops, NEW t \in Trades, ValidateTrade(l, t)
    PROVE  OrderAudited(l)'
<1> DEFINE d == Decision(l, t)
           s == Statement(l, d.approved)
<1>1. UNCHANGED <<owner, mem>> /\ order[l] = NoOrder /\ owner[l] \in Agents /\ pc[l] = "call"
      /\ mem[l].trades \in Nat
  BY DEF ValidateTrade, TypeInv, TypeOK, LocalsOK, AgentStates
<1>2. /\ approvals[owner[l]] \in Nat /\ approvals'[owner[l]] \in Nat
      /\ approvals[owner[l]] <= approvals'[owner[l]]
  BY <1>1, ApprovalsGrow
<1>3. mem[l].trades <= approvals[owner[l]]
  BY <1>1, <1>2 DEF AuditInv, OrdersAudited, Pending, NoOrder
<1> HIDE DEF d
<1>4. CASE /\ Executes(s)
           /\ order' = [order EXCEPT ![l] = [trade |-> t, decision |-> d, event |-> approvals'[owner[l]]]]
  <2>1. order'[l] = [trade |-> t, decision |-> d, event |-> approvals'[owner[l]]]
    BY <1>4 DEF TypeInv, TypeOK
  <2>2. s.at = "call" /\ s.loop = l /\ s.approved = d.approved
    BY <1>1 DEF Statement
  <2>3. approvals' = [approvals EXCEPT ![owner[l]] = IF d.approved THEN @ + 1 ELSE @]
    <3> HIDE DEF s
    <3> QED
      BY <1>4, <2>2 DEF Executes
  <2>4. CASE d.approved
    <3>1. approvals'[owner[l]] = approvals[owner[l]] + 1
      BY <1>1, <2>3, <2>4 DEF TypeInv, TypeOK
    <3>2. Pending(l)' \in {0, 1} /\ order'[l].event = approvals'[owner[l]]
      BY <2>1 DEF Pending
    <3> QED
      BY <1>1, <1>2, <1>3, <3>1, <3>2 DEF OrderAudited
  <2>5. CASE ~d.approved
    <3>1. Pending(l)' = 0
      BY <2>1, <2>5 DEF Pending
    <3> QED
      BY <1>1, <1>2, <1>3, <3>1 DEF OrderAudited
  <2> QED
    BY <2>4, <2>5
<1>5. CASE UNCHANGED order
  BY <1>1, <1>5, OrderFrame
<1> QED
  BY <1>4, <1>5 DEF ValidateTrade, Succeeds, d

LEMMA AuditLog ==
    ASSUME TypeInv, AuditInv, [Next]_vars, NEW l \in Loops, LogTrade(l)
    PROVE  OrderAudited(l)'
<1>1. /\ order[l].trade \in Trades /\ order'[l] = NoOrder /\ mem'[l] = Applied(mem[l], order[l])
      /\ UNCHANGED owner /\ owner[l] \in Agents /\ mem[l].trades \in Nat
  BY DEF LogTrade, TypeInv, TypeOK, LocalsOK, AgentStates
<1>2. CASE ~order[l].decision.approved
  BY <1>1, <1>2, OrderFrame DEF Applied
<1>3. CASE order[l].decision.approved
  <2>1. Pending(l) = 1
    BY <1>1, <1>3, NoneAssumption DEF Pending
  <2>2. Pending(l)' = 0
    BY <1>1 DEF Pending, NoOrder
  <2>3. mem'[l].trades = mem[l].trades + 1
    BY <1>1, <1>3, ExecuteType DEF Applied, TypeInv, TypeOK
  <2>4. mem[l].trades + 1 <= approvals[owner[l]]
    BY <2>1 DEF AuditInv, OrdersAudited
  <2>5. approvals[owner[l]] \in Nat /\ approvals'[owner[l]] \in Nat
        /\ approvals[owner[l]] <= approvals'[owner[l]]
    BY <1>1, ApprovalsGrow
  <2> QED
    BY <1>1, <2>2, <2>3, <2>4, <2>5 DEF OrderAudited
<1> QED
  BY <1>2, <1>3

LEMMA OrdersNext == TypeInv /\ AuditInv /\ [Next]_vars => OrdersAudited'
<1> SUFFICES ASSUME TypeInv, AuditInv, [Next]_vars, NEW l \in Loops PROVE OrderAudited(l)'
  BY DEF OrdersAudited, OrderAudited
<1> USE DEF TypeInv, TypeOK
<1>1. CASE UNCHANGED <<mem, order>>
  BY <1>1, OrderFrame
<1>2. CASE UNCHANGED vars
  BY <1>1, <1>2 DEF vars, loopVars
<1>3. ASSUME NEW a \in Agents, NEW m \in Loops, LoadAgent(a, m) PROVE OrderAudited(l)'
  <2>1. CASE m = l
    <3>1. mem'[l] = dbState[a] /\ owner[l] = a /\ UNCHANGED <<order, owner, approvals>>
          /\ order[l] = NoOrder
      BY <1>3, <2>1, LoadFrame DEF dbVars
    <3>2. Pending(l)' = 0
      BY <3>1 DEF Pending, NoOrder
    <3> QED
      BY <3>1, <3>2 DEF AuditInv, TablesAudited, OrderAudited, AgentStates
  <2>2. CASE m # l
    BY <1>3, <2>2, LoadFrame, OrderFrame
  <2> QED
    BY <2>1, <2>2
<1>4. CASE Crash
  BY <1>4, OrderFrame DEF Crash
<1>5. CASE Scheduling
  <2>1. CASE \E a \in Agents, m \in Loops : RestoreLoad(a, m) \/ StartAgent(a, m)
    BY <1>3, <2>1 DEF RestoreLoad, StartAgent
  <2>2. CASE \/ RestoreAgents \/ RestoreEnds \/ Stop
             \/ (\E a \in Agents : RestoreTake(a) \/ RestoreSkip(a) \/ Serve(a) \/ PauseAgent(a))
             \/ (\E m \in Loops : InstallLoop(m) \/ CallerEnds(m)) \/ \E s \in late : Commit(s)
    BY <1>1, <2>2 DEF RestoreAgents, RestoreEnds, Stop, RestoreTake, RestoreSkip, CannotRestore,
                      Serve, PauseAgent, InstallLoop, CallerEnds, Commit, loopVars
  <2> QED
    BY <1>4, <1>5, <2>1, <2>2 DEF Scheduling, Restoring
<1>6. ASSUME NEW m \in Loops, Looping(m) PROVE OrderAudited(l)'
  <2>1. CASE m # l
    <3>1. mem'[l] = mem[l] /\ order'[l] = order[l]
      BY <1>6, <2>1, LoopFrame
    <3> QED
      BY <3>1, OrderFrame
  <2>2. CASE BeginCycle(l)
    <3>1. mem' = [mem EXCEPT ![l] = [mem[l] EXCEPT !.cycle = @ + 1]] /\ UNCHANGED order
      BY <2>2 DEF BeginCycle
    <3>2. [mem[l] EXCEPT !.cycle = @ + 1].trades = mem[l].trades
      BY DEF AgentStates
    <3> QED
      BY <3>1, <3>2, OrderFrame
  <2>3. CASE LogTrade(l) \/ \E t \in Trades : ValidateTrade(l, t)
    BY <2>3, AuditLog, AuditValidate
  <2>4. CASE UNCHANGED <<mem, order>>
    BY <1>1, <2>4
  <2> QED
    BY <1>6, <2>1, <2>2, <2>3, <2>4
       DEF Looping, ExitLoop, Panic, RunCycle, GetTools, Chat, OtherCall, PauseInDB, RiskPause,
           PersistCycle, PersistState
<1> QED
  BY <1>2, <1>5, <1>6, NextParts

LEMMA AuditNext == TypeInv /\ AuditInv /\ [Next]_vars => AuditInv'
BY OrdersNext, TablesNext DEF AuditInv

\* No trade is in a loop's state, in the database's or in the trade log without
\* its trade_approved event, whatever fails, is cancelled, commits late or
\* crashes between the writes and whichever loops are replaced.
THEOREM TradesHaveEvents == Spec => []TradesAudited
<1>1. AuditInv => TradesAudited
  BY DEF AuditInv, OrdersAudited, TablesAudited, TradesAudited
<1> QED
  BY <1>1, TypeInit, TypeNext, AuditInit, AuditNext, PTL DEF Spec

-----------------------------------------------------------------------------
(* The cycle log keeps up with the persisted state.                        *)

\* Agent a has a row for cycle n.
Logged(a, n) == \E m \in Loops : owner[m] = a /\ <<m, n>> \in cycleLog

\* The loops that can still persist their state: those about to be registered,
\* the live ones, and one that has just sent it; as long as the agent is there.
CanPersist(l) ==
    /\ dbLife[owner[l]] = "alive"
    /\ \/ pc[l] = "loaded"
       \/ l \in Active /\ ctx[l] = "live"
       \/ pc[l] = "persistState" /\ sent[l]

\* No row comes back.
NoRebirth == \A a \in Agents : dbLife'[a] = "alive" => dbLife[a] = "alive"

Settled == {"loaded", "idle", "persistState"}

\* Their cycles have a row each, but for the current one until it is written.
HistoryOf(l) == \A n \in 1..mem[l].cycle :
                    (n < mem[l].cycle \/ pc[l] \in Settled) => Logged(owner[l], n)

LoopHistory == \A l \in Loops : CanPersist(l) => HistoryOf(l)

StateHistory == \A a \in Agents : \A n \in 1..dbState[a].cycle : Logged(a, n)

\* So have those of a state that may be persisted late.
CarriesHistory(s) ==
    s.at = "persistState" /\ dbLife[owner[s.loop]] = "alive" =>
        \A n \in 1..s.state.cycle : Logged(owner[s.loop], n)

LateHistory == \A s \in late : CarriesHistory(s)

HistoryInv == faults = 0 => StateHistory /\ LoopHistory /\ LateHistory

LEMMA HistoryInit == Init => HistoryInv
<1> SUFFICES ASSUME Init PROVE StateHistory /\ LoopHistory /\ LateHistory
  BY DEF HistoryInv
<1>1. \A a \in Agents : dbState[a].cycle = 0
  BY DEF Init, FreshState
<1> QED
  BY <1>1 DEF Init, StateHistory, LoopHistory, LateHistory, CanPersist, Active, InCycle

\* A failure cannot be undone.
LEMMA FaultsStay == TypeInv /\ [Next]_vars /\ faults' = 0 => faults = 0
<1> SUFFICES ASSUME TypeInv, [Next]_vars, faults' = 0 PROVE faults = 0
  OBVIOUS
<1> USE DEF envVars, Fault
<1>1. faults \in Nat
  BY BoundsAssumption DEF TypeInv, TypeOK
<1>2. CASE UNCHANGED vars
  BY <1>2 DEF vars
<1>3. CASE Restoring \/ RestoreEnds \/ Stop \/ Crash
  <2>1. CASE RestoreEnds \/ Stop \/ Crash \/ RestoreAgents
    BY <1>1, <2>1 DEF RestoreAgents, RestoreEnds, Stop, Crash
  <2>2. ASSUME NEW a \in Agents, RestoreTake(a) \/ RestoreSkip(a) PROVE faults = 0
    BY <1>1, <2>2 DEF RestoreTake, RestoreSkip, CannotRestore
  <2>3. ASSUME NEW a \in Agents, NEW l \in Loops, RestoreLoad(a, l) PROVE faults = 0
    BY <2>3 DEF RestoreLoad, LoadAgent
  <2> QED
    BY <1>3, <2>1, <2>2, <2>3 DEF Restoring
<1>4. CASE \E a \in Agents : \/ PauseAgent(a) \/ Serve(a)
                            \/ \E l \in Loops : StartAgent(a, l)
  BY <1>4 DEF PauseAgent, Serve, StartAgent, LoadAgent
<1>5. CASE (\E l \in Loops : \/ InstallLoop(l) \/ CallerEnds(l) \/ BeginCycle(l) \/ ExitLoop(l)
                             \/ Panic(l) \/ GetTools(l) \/ Chat(l) \/ OtherCall(l) \/ RiskPause(l))
           \/ \E s \in late : Commit(s)
  <2>1. ASSUME NEW l \in Loops, InstallLoop(l) \/ CallerEnds(l) \/ BeginCycle(l) \/ ExitLoop(l)
        PROVE  faults = 0
    BY <2>1 DEF InstallLoop, CallerEnds, BeginCycle, ExitLoop
  <2>2. ASSUME NEW l \in Loops, Panic(l) PROVE faults = 0
    BY <1>1, <2>2 DEF Panic
  <2>3. ASSUME NEW l \in Loops, GetTools(l) \/ Chat(l) \/ OtherCall(l) \/ RiskPause(l)
        PROVE  faults = 0
    BY <2>3 DEF GetTools, Chat, OtherCall, RiskPause
  <2> QED
    BY <1>5, <2>1, <2>2, <2>3 DEF Commit
<1>6. ASSUME NEW l \in Loops, \/ \E t \in Trades : ValidateTrade(l, t)
                              \/ LogTrade(l) \/ PauseInDB(l) \/ PersistCycle(l) \/ PersistState(l)
      PROVE  faults = 0
  <2>1. PICK s \in Issuable(l) : Attempts(l, s)
    BY <1>6, LoopCalls
  <2> QED
    BY <1>1, <2>1 DEF Attempts, Succeeds, Misses, Fails
<1> QED
  BY <1>2, <1>3, <1>4, <1>5, <1>6 DEF Next, RunCycle

\* Only the services delete a row, and nobody brings one back.
LEMMA RowsStayDeleted == TypeInv /\ [Next]_vars => NoRebirth
<1> SUFFICES ASSUME TypeInv, [Next]_vars PROVE NoRebirth
  OBVIOUS
<1>1. CASE UNCHANGED dbLife
  BY <1>1 DEF NoRebirth
<1>2. ASSUME NEW s, Executes(s) PROVE NoRebirth
  BY <1>1, <1>2 DEF Executes, Inserts, Row!Refer, Row!SetStatus, rowVars
<1>3. CASE LateGrows
  BY <1>1, <1>3 DEF LateGrows, tables, rowVars
<1>4. CASE (\E s \in late : LateRuns(s)) \/ \E l \in Loops : LoopRuns(l)
  BY <1>2, <1>4 DEF LateRuns, LoopRuns
<1>5. ASSUME NEW a \in Agents, Serve(a) PROVE NoRebirth
  BY <1>5, ServeRow DEF TypeInv, NoRebirth
<1> QED
  BY <1>3, <1>4, <1>5, DbStepNext DEF DbStep

\* A row of the log stays.
LEMMA LogGrows == TypeInv /\ [Next]_vars => cycleLog \subseteq cycleLog'
<1> SUFFICES ASSUME TypeInv, [Next]_vars PROVE cycleLog \subseteq cycleLog'
  OBVIOUS
<1>1. ASSUME NEW s, Executes(s) PROVE cycleLog \subseteq cycleLog'
  BY <1>1 DEF Executes
<1>2. CASE (\E s \in late : LateRuns(s)) \/ \E l \in Loops : LoopRuns(l)
  BY <1>1, <1>2 DEF LateRuns, LoopRuns
<1> QED
  BY <1>2, DbStepNext DEF DbStep, LateGrows, tables, Serve

LEMMA LoggedStays ==
    TypeInv /\ [Next]_vars => \A a, n : Logged(a, n) => Logged(a, n)'
BY LogGrows, OwnersStay DEF Logged

\* What a loop has sent or may send carries its history.
LEMMA IssuableCarries ==
    ASSUME TypeInv, LoopHistory, NEW l \in Loops, pc[l] \in Issuing, NEW s \in Issuable(l),
           ctx[l] = "live" \/ sent[l]
    PROVE  CarriesHistory(s)
<1>1. s.at = pc[l] /\ s.loop = l /\ s.state = mem[l]
  BY IssuableType
<1>2. ASSUME pc[l] = "persistState", dbLife[owner[l]] = "alive" PROVE CanPersist(l)
  BY <1>2 DEF CanPersist, Active, InCycle
<1> QED
  BY <1>1, <1>2 DEF CarriesHistory, LoopHistory, HistoryOf, Settled

LEMMA CarriedStays ==
    ASSUME TypeInv, NoRebirth, [Next]_vars, NEW s \in Statements, CarriesHistory(s)
    PROVE  CarriesHistory(s)'
<1>1. owner[s.loop] \in Agents /\ UNCHANGED owner /\ s.state.cycle \in Nat
  BY OwnersStay DEF Statements, TypeInv, TypeOK, AgentStates
<1> QED
  BY <1>1, LoggedStays DEF CarriesHistory, NoRebirth

\* The database's part.
LEMMA TablesHistory ==
    ASSUME TypeInv, NoRebirth, StateHistory, LoopHistory, LateHistory, [Next]_vars
    PROVE  StateHistory' /\ LateHistory'
<1>1. late \subseteq Statements /\ \A s \in late : CarriesHistory(s)
  BY DEF TypeInv, TypeOK, LateHistory
<1>2. ASSUME UNCHANGED dbState PROVE StateHistory'
  BY <1>2, LoggedStays DEF StateHistory
<1>3. ASSUME NEW s \in Statements, CarriesHistory(s), Executes(s) PROVE StateHistory'
  <2>1. CASE UNCHANGED dbState
    BY <1>2, <2>1
  <2>2. CASE s.at = "persistState" /\ Row!Alive(owner[s.loop])
             /\ dbState' = [dbState EXCEPT ![owner[s.loop]] = s.state]
    <3>1. owner[s.loop] \in Agents
      BY DEF Statements, TypeInv, TypeOK
    <3>2. \A n \in 1..s.state.cycle : Logged(owner[s.loop], n)
      BY <1>3, <2>2 DEF CarriesHistory, Row!Alive
    <3>3. \A a \in Agents : \A n \in 1..dbState'[a].cycle : Logged(a, n)
      BY <2>2, <3>1, <3>2 DEF StateHistory, TypeInv, TypeOK
    <3> QED
      BY <3>3, LoggedStays DEF StateHistory
  <2> QED
    BY <1>3, <2>1, <2>2 DEF Executes
<1>4. CASE LateGrows
  <2>1. ASSUME NEW l \in Loops, NEW s \in InFlight(l) PROVE s \in Statements /\ CarriesHistory(s)
    BY InFlightType, IssuableCarries
  <2> QED
    BY <1>1, <1>2, <1>4, <2>1, CarriedStays DEF LateGrows, tables, LateHistory
<1>5. ASSUME NEW s \in late, LateRuns(s) PROVE StateHistory' /\ LateHistory'
  BY <1>1, <1>3, <1>5, CarriedStays DEF LateRuns, LateHistory
<1>6. ASSUME NEW l \in Loops, LoopRuns(l) PROVE StateHistory' /\ LateHistory'
  <2>1. PICK s \in Issuable(l) : Executes(s)
    BY <1>6 DEF LoopRuns
  <2>2. s \in Statements /\ CarriesHistory(s)
    BY <1>6, <2>1, IssuableType, IssuableCarries DEF LoopRuns
  <2> QED
    BY <1>1, <1>3, <1>6, <2>1, <2>2, CarriedStays DEF LoopRuns, LateHistory
<1>7. ASSUME NEW a \in Agents, Serve(a) PROVE StateHistory' /\ LateHistory'
  BY <1>1, <1>2, <1>7, CarriedStays DEF Serve, LateHistory
<1> QED
  BY <1>4, <1>5, <1>6, <1>7, DbStepNext DEF DbStep

\* A loop that gains no right to persist and is moved no further.
LEMMA HistoryFrame ==
    ASSUME TypeInv, LoopHistory, [Next]_vars, NEW l \in Loops,
           CanPersist(l)' => /\ CanPersist(l)
                             /\ mem'[l].cycle = mem[l].cycle
                             /\ pc'[l] \in Settled => pc[l] \in Settled
    PROVE  CanPersist(l)' => HistoryOf(l)'
BY LoggedStays, OwnersStay DEF LoopHistory, HistoryOf

LEMMA HistoryLoad ==
    ASSUME TypeInv, NoRebirth, StateHistory, LoopHistory, [Next]_vars, NEW l \in Loops,
           NEW a \in Agents, NEW m \in Loops, LoadAgent(a, m)
    PROVE  CanPersist(l)' => HistoryOf(l)'
<1>1. CASE m = l
  <2>1. mem'[l] = dbState[a] /\ owner[l] = a /\ UNCHANGED owner
    BY <1>1, LoadFrame
  <2> QED
    BY <2>1, LoggedStays DEF StateHistory, HistoryOf
<1>2. CASE m # l
  <2>1. pc'[l] = pc[l] /\ mem'[l] = mem[l] /\ UNCHANGED <<owner, ctx, sent>> /\ owner[l] \in Agents
    BY <1>2, LoadFrame DEF TypeInv, TypeOK
  <2>2. CanPersist(l)' => CanPersist(l)
    BY <2>1 DEF NoRebirth, CanPersist, Active
  <2> QED
    BY <2>1, <2>2, HistoryFrame
<1> QED
  BY <1>1, <1>2

LEMMA HistoryScheduler ==
    ASSUME TypeInv, NoRebirth, StateHistory, LoopHistory, [Next]_vars, NEW l \in Loops, Scheduling
    PROVE  CanPersist(l)' => HistoryOf(l)'
<1> USE DEF NoRebirth, CanPersist, Active, TypeInv, TypeOK
<1>1. CASE UNCHANGED <<pc, owner, ctx, sent, mem>>
  BY <1>1, HistoryFrame
<1>2. CASE RestoreAgents \/ (\E a \in Agents : RestoreTake(a) \/ RestoreSkip(a) \/ Serve(a))
           \/ \E s \in late : Commit(s)
  BY <1>1, <1>2 DEF RestoreAgents, RestoreTake, RestoreSkip, CannotRestore, Serve, Commit, loopVars
<1>3. ASSUME NEW a \in Agents, NEW m \in Loops, RestoreLoad(a, m) \/ StartAgent(a, m)
      PROVE  CanPersist(l)' => HistoryOf(l)'
  BY <1>3, HistoryLoad DEF RestoreLoad, StartAgent
<1>4. ASSUME NEW loops, Cancel(loops), UNCHANGED <<pc, owner, sent, mem>>
      PROVE  CanPersist(l)' => HistoryOf(l)'
  BY <1>4, HistoryFrame DEF Cancel
<1>5. CASE RestoreEnds \/ Stop \/ \E m \in Loops : CallerEnds(m)
  BY <1>4, <1>5 DEF RestoreEnds, Stop, CallerEnds
<1>6. ASSUME NEW a \in Agents, PauseAgent(a) PROVE CanPersist(l)' => HistoryOf(l)'
  BY <1>4, <1>6 DEF PauseAgent, Unregister
<1>7. CASE Crash
  BY <1>7, HistoryFrame DEF Crash, InCycle
<1>8. ASSUME NEW m \in Loops, InstallLoop(m) PROVE CanPersist(l)' => HistoryOf(l)'
  <2>1. /\ UNCHANGED <<owner, mem, sent>> /\ pc[m] = "loaded" /\ pc' = [pc EXCEPT ![m] = "idle"]
        /\ ctx'[l] = "live" => ctx[l] = "live"
    BY <1>8 DEF InstallLoop, Cancel
  <2> QED
    BY <2>1, HistoryFrame DEF InCycle, Settled
<1> QED
  BY <1>2, <1>3, <1>5, <1>6, <1>7, <1>8 DEF Scheduling, Restoring

\* A cycle begins: only its own row is missing.
LEMMA HistoryBegin ==
    ASSUME TypeInv, NoRebirth, LoopHistory, [Next]_vars, NEW l \in Loops, BeginCycle(l)
    PROVE  CanPersist(l)' => HistoryOf(l)'
<1>1. UNCHANGED <<owner, ctx>> /\ pc[l] = "idle" /\ pc'[l] = "tools" /\ owner[l] \in Agents
  BY DEF BeginCycle, Goto, TypeInv, TypeOK
<1>2. mem'[l].cycle = mem[l].cycle + 1 /\ mem[l].cycle \in Nat
  <2>1. mem' = [mem EXCEPT ![l] = [mem[l] EXCEPT !.cycle = @ + 1]] /\ mem[l] \in AgentStates
    BY DEF BeginCycle, TypeInv, TypeOK
  <2>2. [mem[l] EXCEPT !.cycle = @ + 1].cycle = mem[l].cycle + 1
    BY <2>1 DEF AgentStates
  <2> QED
    BY <2>1, <2>2 DEF TypeInv, TypeOK, AgentStates
<1>3. ASSUME CanPersist(l)', NEW n \in 1..mem'[l].cycle, n < mem'[l].cycle PROVE Logged(owner[l], n)'
  <2>1. n \in 1..mem[l].cycle
    BY <1>2, <1>3
  <2>2. CanPersist(l)
    BY <1>1, <1>3 DEF NoRebirth, CanPersist, Active
  <2> QED
    BY <1>1, <2>1, <2>2, LoggedStays DEF LoopHistory, HistoryOf, Settled
<1> QED
  BY <1>1, <1>3 DEF HistoryOf, Settled

\* The row of a cycle is written before its state is sent.
LEMMA HistoryPersistCycle ==
    ASSUME TypeInv, NoRebirth, LoopHistory, [Next]_vars, NEW l \in Loops, PersistCycle(l),
           faults = 0, faults' = 0
    PROVE  CanPersist(l)' => HistoryOf(l)'
<1>1. /\ UNCHANGED <<owner, mem, ctx>> /\ owner[l] \in Agents /\ mem[l].cycle \in Nat
      /\ pc[l] = "persistLog" /\ pc'[l] = "persistState"
      /\ sent'[l] => ctx[l] = "live"
  BY DEF PersistCycle, Goto, Sends, TypeInv, TypeOK, AgentStates
<1> SUFFICES ASSUME CanPersist(l)' PROVE HistoryOf(l)'
  OBVIOUS
<1>2. ctx[l] = "live" /\ CanPersist(l)
  BY <1>1 DEF NoRebirth, CanPersist, Active, InCycle
<1>3. Row!Alive(owner[l])
  BY <1>2 DEF CanPersist, Row!Alive
<1> DEFINE s == Statement(l, TRUE)
<1>4. s.at = "persistLog" /\ s.loop = l /\ s.state = mem[l]
  BY <1>1 DEF Statement
<1>5. Attempts(l, s)
  BY DEF PersistCycle
<1> HIDE DEF s
<1>6. Executes(s)
  BY <1>2, <1>3, <1>5 DEF Attempts, Succeeds, Misses, Fails, Fault
<1>7. cycleLog' = cycleLog \cup {<<l, mem[l].cycle>>}
  BY <1>4, <1>6 DEF Executes
<1>8. Logged(owner[l], mem[l].cycle)'
  BY <1>1, <1>7 DEF Logged
<1>9. \A n \in 1..mem[l].cycle : n < mem[l].cycle => Logged(owner[l], n)'
  <2>1. \A n \in 1..mem[l].cycle : n < mem[l].cycle => Logged(owner[l], n)
    BY <1>2 DEF LoopHistory, HistoryOf
  <2> QED
    BY <1>1, <2>1, LoggedStays
<1> QED
  BY <1>1, <1>8, <1>9 DEF HistoryOf

LEMMA HistoryLoop ==
    ASSUME TypeInv, NoRebirth, LoopHistory, [Next]_vars, NEW l \in Loops,
           NEW m \in Loops, Looping(m), faults = 0, faults' = 0
    PROVE  CanPersist(l)' => HistoryOf(l)'
<1> USE DEF TypeInv, TypeOK
<1>1. UNCHANGED owner /\ owner[l] \in Agents /\ (ctx'[l] = "live" => ctx[l] = "live")
  <2>1. CASE RiskPause(m)
    BY <2>1, RiskPauseFrame, OwnersStay DEF Unregister, Cancel
  <2> QED
    BY <2>1, LoopFrame
<1>2. CASE m # l
  BY <1>1, <1>2, LoopFrame, HistoryFrame DEF NoRebirth, CanPersist, Active
<1>3. CASE BeginCycle(l) \/ PersistCycle(l)
  BY <1>3, HistoryBegin, HistoryPersistCycle
<1>4. ASSUME mem'[l].cycle = mem[l].cycle, pc[l] \in {"idle"} \cup InCycle,
             pc'[l] \in ({"exited"} \cup InCycle) \ {"persistState"}, pc[l] \notin {"persistLog"}
      PROVE  CanPersist(l)' => HistoryOf(l)'
  BY <1>1, <1>4, HistoryFrame DEF NoRebirth, CanPersist, Active, InCycle, Settled
<1>5. CASE LogTrade(l)
  <2>1. mem'[l].cycle = mem[l].cycle
    BY <1>5, ExecuteType DEF LogTrade, Applied, LocalsOK
  <2> QED
    BY <1>4, <1>5, <2>1 DEF LogTrade, NextCall, Onward, Goto, InCycle
<1>6. CASE \E t \in Trades : ValidateTrade(l, t)
  BY <1>4, <1>6 DEF ValidateTrade, NextCall, Onward, Goto, InCycle
<1>7. CASE ExitLoop(l) \/ Panic(l) \/ GetTools(l) \/ Chat(l)
  BY <1>4, <1>7 DEF ExitLoop, Panic, GetTools, Chat, Goto, InCycle
<1>8. CASE OtherCall(l) \/ PauseInDB(l) \/ RiskPause(l)
  BY <1>4, <1>8 DEF OtherCall, PauseInDB, RiskPause, NextCall, Onward, Goto, InCycle
<1>9. CASE PersistState(l)
  <2>1. UNCHANGED <<mem, ctx>> /\ pc[l] = "persistState" /\ pc'[l] = "idle"
    BY <1>9 DEF PersistState, Goto
  <2> QED
    BY <1>1, <2>1, HistoryFrame DEF NoRebirth, CanPersist, Active, InCycle, Settled
<1> QED
  BY <1>2, <1>3, <1>5, <1>6, <1>7, <1>8, <1>9 DEF Looping, RunCycle

LEMMA HistoryNext == TypeInv /\ HistoryInv /\ [Next]_vars => HistoryInv'
<1> SUFFICES ASSUME TypeInv, HistoryInv, [Next]_vars, faults' = 0
             PROVE  StateHistory' /\ LoopHistory' /\ LateHistory'
  BY DEF HistoryInv
<1>1. faults = 0 /\ StateHistory /\ LoopHistory /\ LateHistory /\ NoRebirth
  BY FaultsStay, RowsStayDeleted DEF HistoryInv
<1>2. ASSUME NEW l \in Loops PROVE CanPersist(l)' => HistoryOf(l)'
  <2>1. CASE UNCHANGED vars
    BY <1>1, <2>1, HistoryFrame DEF vars, loopVars, dbVars, rowVars, CanPersist, Active
  <2> QED
    BY <1>1, <2>1, NextParts, HistoryScheduler, HistoryLoop
<1>3. LoopHistory'
  BY <1>2 DEF LoopHistory
<1> QED
  BY <1>1, <1>3, TablesHistory

\* As long as no call fails but for a cancelled context, the persisted state
\* never counts a cycle agent_cycles has no row for, although a state may be
\* written long after its loop gave it up.
THEOREM CycleLogKeepsUp == Spec => []HistoryComplete
<1>1. HistoryInv => HistoryComplete
  BY DEF HistoryInv, StateHistory, Logged, HistoryComplete
<1> QED
  BY <1>1, TypeInit, TypeNext, HistoryInit, HistoryNext, PTL DEF Spec

-----------------------------------------------------------------------------
(* What keeps the row.                                                     *)

\* An approval is a row of risk_events that refers to the agent's, which is
\* there as long as it is referred to.
UsedRow == \A a \in Agents : /\ approvals[a] > 0 => dbUsed[a]
                             /\ dbUsed[a] => dbLife[a] = "alive"

LEMMA UsedRowInit == Init => UsedRow
BY DEF Init, UsedRow

\* A statement: the row is left alone or referred to.
LEMMA UsedRowExecutes ==
    ASSUME TypeInv, UsedRow, NEW s \in Statements, Executes(s)
    PROVE  UsedRow'
<1>1. owner[s.loop] \in Agents
  BY DEF Statements, TypeInv, TypeOK
<1>2. CASE UNCHANGED <<dbLife, dbUsed, approvals>>
  BY <1>2 DEF UsedRow
<1>3. CASE /\ Inserts(owner[s.loop])
           /\ \A a \in Agents \ {owner[s.loop]} : approvals'[a] = approvals[a]
  BY <1>1, <1>3 DEF Inserts, Row!Refer, Row!Alive, UsedRow, TypeInv, TypeOK
<1>4. CASE UNCHANGED approvals
  BY <1>1, <1>2, <1>3, <1>4 DEF Executes, rowVars, Row!SetStatus
<1> QED
  BY <1>1, <1>3, <1>4 DEF Executes, TypeInv, TypeOK

LEMMA UsedRowNext == TypeInv /\ UsedRow /\ [Next]_vars => UsedRow'
<1> SUFFICES ASSUME TypeInv, UsedRow, [Next]_vars PROVE UsedRow'
  OBVIOUS
<1>1. CASE LateGrows
  BY <1>1 DEF LateGrows, tables, rowVars, UsedRow
<1>2. CASE \E s \in late : LateRuns(s)
  BY <1>2, UsedRowExecutes DEF LateRuns, TypeInv, TypeOK
<1>3. CASE \E l \in Loops : LoopRuns(l)
  BY <1>3, UsedRowExecutes, IssuableType DEF LoopRuns
<1>4. ASSUME NEW a \in Agents, Serve(a) PROVE UsedRow'
  <2>1. UNCHANGED <<approvals, dbUsed>>
    BY <1>4, ServeRow DEF Serve, TypeInv
  <2> QED
    BY <1>4, <2>1, ServeRow DEF UsedRow, RowTyped, TypeInv
<1> QED
  BY <1>1, <1>2, <1>3, <1>4, DbStepNext DEF DbStep

\* An agent whose row was deleted has no approved trade, in any loop that is
\* left of it or in the database, whatever its loops go on doing.
THEOREM DeletedAgentsNeverTrade == Spec => []DeletedNeverTraded
<1>1. TypeInv /\ UsedRow /\ AuditInv => DeletedNeverTraded
  <2> SUFFICES ASSUME TypeInv, UsedRow, AuditInv,
                      NEW a \in Agents, dbLife[a] = "deleted"
               PROVE  /\ approvals[a] = 0
                      /\ \A l \in Loops : owner[l] = a => mem[l].trades = 0 /\ Pending(l) = 0
    BY DEF DeletedNeverTraded
  <2>1. approvals[a] = 0
    BY DEF UsedRow, TypeInv, TypeOK
  <2>2. ASSUME NEW l \in Loops, owner[l] = a PROVE mem[l].trades = 0 /\ Pending(l) = 0
    <3>1. mem[l].trades + Pending(l) <= 0
      BY <2>1, <2>2 DEF AuditInv, OrdersAudited
    <3>2. mem[l].trades \in Nat /\ Pending(l) \in {0, 1}
      BY DEF Pending, TypeInv, TypeOK, AgentStates
    <3> QED
      BY <3>1, <3>2
  <2> QED
    BY <2>1, <2>2
<1> QED
  BY <1>1, TypeInit, TypeNext, UsedRowInit, UsedRowNext, AuditInit, AuditNext, PTL DEF Spec

-----------------------------------------------------------------------------
(* The hourly limit.                                                       *)

HourlyLimits == \A l \in Loops : Pending(l) = 1 => HourlyLimitKept(l)

\* No rule of the chain is violated by what it approves.
LEMMA ApprovedBreaksNoRule ==
    ASSUME NEW trade, NEW params, NEW state,
           ValidatePure(trade, params, state).approved, NEW i \in 1..4
    PROVE  ~Violates(rules[i], trade, params, state)
<1> DEFINE V == {j \in 1..4 : Violates(rules[j], trade, params, state)}
<1>1. CASE V = {}
  BY <1>1
<1>2. CASE V # {}
  BY <1>2 DEF ValidatePure, Rejection
<1> QED
  BY <1>1, <1>2

\* A step that leaves what the orders were decided on alone.
LEMMA HourlyFrame ==
    ASSUME HourlyLimits, NEW l \in Loops,
           \/ order'[l] = NoOrder
           \/ order'[l] = order[l] /\ mem'[l] = mem[l] /\ conf'[l] = conf[l]
    PROVE  Pending(l)' = 1 => HourlyLimitKept(l)'
<1>1. CASE order'[l] = NoOrder
  BY <1>1 DEF Pending, NoOrder
<1>2. CASE order'[l] = order[l] /\ mem'[l] = mem[l] /\ conf'[l] = conf[l]
  BY <1>2 DEF HourlyLimits, HourlyLimitKept, Pending, Execute
<1> QED
  BY <1>1, <1>2

\* What is approved leaves room for one more trade.
LEMMA HourlyApproved ==
    ASSUME TypeInv, HourlyLimits, NEW l \in Loops, NEW t \in Trades, ValidateTrade(l, t)
    PROVE  Pending(l)' = 1 => HourlyLimitKept(l)'
<1> DEFINE d == Decision(l, t)
<1>1. UNCHANGED <<mem, conf>> /\ mem[l] \in AgentStates /\ conf[l] \in Confs
  BY DEF ValidateTrade, TypeInv, TypeOK
<1>2. CASE order' = [order EXCEPT ![l] = [trade |-> t, decision |-> d, event |-> approvals'[owner[l]]]]
  <2>1. order'[l].trade = t /\ order'[l].decision = d
    BY <1>2 DEF TypeInv, TypeOK
  <2> SUFFICES ASSUME d.approved, conf[l].risk.maxPerHour > 0
               PROVE  Execute(mem[l], t).trades <= conf[l].risk.maxPerHour
    BY <1>1, <2>1 DEF Pending, HourlyLimitKept, Execute
  <2>2. ~Violates("rate_limit", t, conf[l].risk, riskState(conf[l], mem[l]))
    BY ApprovedBreaksNoRule DEF rules, Decision
  <2>3. ~(mem[l].trades >= conf[l].risk.maxPerHour)
    BY <2>2 DEF Violates, checkTradeFrequency, riskState
  <2>4. Execute(mem[l], t).trades = mem[l].trades + 1
    BY <1>1, ExecuteType
  <2> QED
    BY <1>1, <2>3, <2>4, ConfsTyped DEF AgentStates
<1>3. CASE UNCHANGED order
  BY <1>1, <1>3, HourlyFrame
<1> QED
  BY <1>2, <1>3 DEF ValidateTrade

LEMMA HourlyNext == TypeInv /\ HourlyLimits /\ [Next]_vars => HourlyLimits'
<1> SUFFICES ASSUME TypeInv, HourlyLimits, [Next]_vars, NEW l \in Loops
             PROVE  Pending(l)' = 1 => HourlyLimitKept(l)'
  BY DEF HourlyLimits
<1> USE DEF TypeInv, TypeOK
<1>1. CASE UNCHANGED <<order, mem, conf>>
  BY <1>1, HourlyFrame
<1>2. CASE UNCHANGED vars
  BY <1>1, <1>2 DEF vars, loopVars
<1>3. ASSUME NEW a \in Agents, NEW m \in Loops, RestoreLoad(a, m) \/ StartAgent(a, m)
      PROVE  Pending(l)' = 1 => HourlyLimitKept(l)'
  <2>1. LoadAgent(a, m)
    BY <1>3 DEF RestoreLoad, StartAgent
  <2>2. \/ order'[l] = NoOrder
        \/ order'[l] = order[l] /\ mem'[l] = mem[l] /\ conf'[l] = conf[l]
    BY <2>1, LoadFrame
  <2> QED
    BY <2>2, HourlyFrame
<1>4. CASE Crash
  BY <1>4, HourlyFrame DEF Crash
<1>5. CASE \/ RestoreAgents \/ RestoreEnds \/ Stop
           \/ (\E a \in Agents : RestoreTake(a) \/ RestoreSkip(a) \/ Serve(a) \/ PauseAgent(a))
           \/ (\E m \in Loops : InstallLoop(m) \/ CallerEnds(m)) \/ \E s \in late : Commit(s)
  BY <1>1, <1>5 DEF RestoreAgents, RestoreEnds, Stop, RestoreTake, RestoreSkip, CannotRestore,
                    Serve, PauseAgent, InstallLoop, CallerEnds, Commit, loopVars
<1>6. ASSUME NEW m \in Loops, Looping(m) PROVE Pending(l)' = 1 => HourlyLimitKept(l)'
  <2>1. CASE m # l
    BY <1>6, <2>1, LoopFrame, HourlyFrame
  <2>2. CASE BeginCycle(l) \/ LogTrade(l)
    <3>1. order'[l] = NoOrder
      BY <2>2 DEF BeginCycle, LogTrade, LocalsOK
    <3> QED
      BY <3>1, HourlyFrame
  <2>3. CASE \E t \in Trades : ValidateTrade(l, t)
    BY <2>3, HourlyApproved
  <2>4. CASE UNCHANGED <<order, mem, conf>>
    BY <1>1, <2>4
  <2>5. CASE \/ ExitLoop(l) \/ Panic(l) \/ GetTools(l) \/ Chat(l) \/ OtherCall(l)
             \/ PauseInDB(l) \/ RiskPause(l) \/ PersistCycle(l) \/ PersistState(l)
    BY <2>4, <2>5 DEF ExitLoop, Panic, GetTools, Chat, OtherCall, PauseInDB, RiskPause,
                      PersistCycle, PersistState
  <2> QED
    BY <1>6, <2>1, <2>2, <2>3, <2>5 DEF Looping, RunCycle
<1> QED
  BY <1>2, <1>3, <1>4, <1>5, <1>6, NextParts DEF Scheduling, Restoring

LEMMA HourlyInit == Init => HourlyLimits
BY DEF Init, HourlyLimits, Pending, NoOrder

\* A trade that is still to be applied never takes its loop past the hourly
\* limit it was decided under, whatever happened to the row or to the other
\* loops since the decision.
THEOREM HourlyLimitHolds == Spec => []HourlyLimits
BY TypeInit, TypeNext, HourlyInit, HourlyNext, PTL DEF Spec

=============================================================================
