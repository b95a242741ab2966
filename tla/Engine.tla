------------------------------- MODULE Engine -------------------------------
(***************************************************************************)
(* The agent-loop engine of internal/engine/engine.go.                     *)
(*                                                                         *)
(* A "loop" is one RunningAgent: the struct StartAgent builds together     *)
(* with the goroutine it launches.  The engine's map `agents` names the    *)
(* loop registered for an agent; a loop that was replaced or paused lives  *)
(* on, with a cancelled context, until its goroutine comes back to its     *)
(* select.  A loop's context is a child of the one StartAgent was called   *)
(* with and ends with it.  Every database call is a step of its own, so    *)
(* that the steps of several loops, of the API's calls and of a crash      *)
(* interleave with it.                                                     *)
(*                                                                         *)
(* A database call under a cancelled context fails (pgx returns the        *)
(* context's error).  Under a live context it may fail too: the database,  *)
(* or the cycle's 60 s deadline.  Either way the server may execute the    *)
(* statement later, if it was sent before: `late` holds such statements.   *)
(* MaxFaults bounds the failures under a live context, MaxCrashes the      *)
(* process crashes, MaxTroubles the two together, MaxLate the statements   *)
(* that are late, MaxCycles the cycle numbers and MaxCalls the tool calls  *)
(* of one answer.  The row of an agent belongs to the services as well:    *)
(* AgentRow says what they may do to it.                                   *)
(***************************************************************************)
EXTENDS RiskRules, FiniteSetsExt

CONSTANTS
    Agents,        \* agent ids
    Loops,         \* RunningAgent instances, one per successful GetAgent
    None,          \* no loop, no trade
    Pairs,         \* trading pairs
    Trades,        \* [action, pair, amount] the language model may ask for
    Confs,         \* what a row may hold: [risk, aum], its risk parameters
                   \* and its assets under management
    InitLosses,    \* daily losses an agent's persisted state may start with
    MaxToolCallRounds,
    MaxCalls, MaxCycles, MaxFaults, MaxCrashes, MaxTroubles, MaxLate

ASSUME NoneAssumption == None \notin Agents \cup Loops \cup Trades
ASSUME BoundsAssumption ==
    /\ MaxToolCallRounds \in Nat /\ MaxCalls \in Nat \ {0}
    /\ MaxCycles \in Nat /\ MaxLate \in Nat
    /\ MaxFaults \in Nat /\ MaxCrashes \in Nat /\ MaxTroubles \in Nat

\* AgentState.  HourlyTradeCount and DailyTradeCount move together: `trades`.
AgentStates == [cycle : Nat, trades : Nat, loss : Int, hold : [Pairs -> Int]]

ASSUME TradesAssumption ==
    \A t \in Trades : t.amount \in Int /\ t.pair \in Pairs
ASSUME InitLossesAssumption == InitLosses \subseteq Int
ASSUME ConfsAssumption == Confs # {}
ASSUME ConfsTyped ==
    \A c \in Confs : c.risk.maxPerHour \in Int /\ c.risk.maxRatio \in Int /\ c.aum \in Int
ASSUME PairsAssumption == IsFiniteSet(Pairs)   \* Holdings is a Go map

\* The state of an agent that has not run yet.  No code of the repository
\* raises DailyLoss: a loss is there from the start or never.
FreshState(loss) ==
    [cycle |-> 0, trades |-> 0, loss |-> loss, hold |-> [p \in Pairs |-> 0]]

VARIABLES
    \* The process.
    phase,       \* "booting" until RestoreAgents has listed the agents
    agents,      \* e.agents
    stopped,     \* stopCh is closed
    restore,     \* RestoreAgents: the agents still to start, the agent it is
                 \* at, its loop once loaded, the loops it has started, and
                 \* whether the context it was called with is over
    \* Each loop.
    pc,          \* where the goroutine is
    owner,       \* ra.Agent.ID
    ctx,         \* the context StartAgent made, "live" or "cancelled"
    sent,        \* the statement of the call it is in went out
    mem,         \* ra.State
    round,       \* rounds of the ReAct loop done in this cycle
    calls,       \* tool calls of the current answer still to handle
    order,       \* [trade, decision] between Validate and the trade log
    conf,        \* what ra.Agent has of the row: its configuration when loaded
    \* The database.  The first four are the row as AgentRow has it.
    dbLife, dbConf, dbUsed,
    dbStatus, dbState,   \* agents.status, agents.state
    cycleLog,            \* agent_cycles, as pairs <<loop, cycle_num>>
    approvals,           \* number of trade_approved rows in risk_events
    tradeLogs,           \* approved rows of trade_logs, each by its event's number
    late,                \* statements given up by their callers, not executed yet
    \* The environment.
    faults, crashes

procVars == <<phase, agents, stopped, restore>>
loopVars == <<pc, owner, ctx, sent, mem, round, calls, order, conf>>
rowVars  == <<dbLife, dbConf, dbUsed, dbStatus>>
tables   == <<rowVars, dbState, cycleLog, approvals, tradeLogs>>
dbVars   == <<rowVars, dbState, cycleLog, approvals, tradeLogs, late>>
envVars  == <<faults, crashes>>
vars     == <<procVars, loopVars, dbVars, envVars>>

Row == INSTANCE AgentRow WITH
    life <- dbLife, status <- dbStatus, conf <- dbConf, inUse <- dbUsed

InCycle == {"tools", "chat", "call", "log", "pauseDB", "pause",
            "persistLog", "persistState"}
PCs     == {"free", "loaded", "idle", "exited"} \cup InCycle

\* Where a call sends a statement that writes.
Issuing == {"call", "log", "pauseDB", "persistLog", "persistState"}

\* `event` is the number of the order's row among the agent's trade_approved.
NoOrder == [trade |-> None, decision |-> Approval, event |-> 0]

\* Stands for the configuration of a loop that has none.
NoConf == CHOOSE c \in Confs : TRUE

\* Active goroutines: launched and not returned.
Active == {l \in Loops : pc[l] \in {"idle"} \cup InCycle}

\* RestoreAgents is not under way.
NoRestore == [todo |-> {}, now |-> None, at |-> None, loops |-> {}, over |-> FALSE]

currentPosition(hold) ==
    MapThenSumSet(LAMBDA p : IF hold[p] > 0 THEN hold[p] ELSE 0, Pairs)

\* Mutant: the position is not filled in.
MutRiskState(c, s) == [loss |-> s.loss, trades |-> s.trades,
                       position |-> 0, aum |-> c.aum]

riskState(c, s) == [loss |-> s.loss, trades |-> s.trades,
                    position |-> currentPosition(s.hold), aum |-> c.aum]

Init ==
    /\ phase = "booting"
    /\ agents = [a \in Agents |-> None]
    /\ stopped = FALSE
    /\ restore = NoRestore
    /\ pc = [l \in Loops |-> "free"]
    /\ owner \in [Loops -> Agents]
    /\ ctx = [l \in Loops |-> "live"]
    /\ sent = [l \in Loops |-> FALSE]
    /\ dbState \in [Agents -> {FreshState(loss) : loss \in InitLosses}]
    /\ mem = [l \in Loops |-> dbState[owner[l]]]
    /\ round = [l \in Loops |-> 0]
    /\ calls = [l \in Loops |-> 0]
    /\ order = [l \in Loops |-> NoOrder]
    /\ dbLife = [a \in Agents |-> "alive"]
    /\ dbConf \in [Agents -> Confs]
    /\ dbUsed = [a \in Agents |-> FALSE]
    /\ conf = [l \in Loops |-> NoConf]
    /\ dbStatus \in [Agents -> {"created", "running"}]
    /\ cycleLog = {}
    /\ approvals = [a \in Agents |-> 0]
    /\ tradeLogs = [a \in Agents |-> {}]
    /\ late = {}
    /\ faults = 0 /\ crashes = 0

-----------------------------------------------------------------------------
(* Database calls.                                                         *)

\* riskState and ValidatePure in handleTradeToolCall.
Decision(l, t) == ValidatePure(t, conf[l].risk, riskState(conf[l], mem[l]))

\* The statement loop l issues where it is.  `approved` matters to events and
\* trade logs, `event` to trade logs, `state` to what a cycle persists.
Statement(l, approved) ==
    [at |-> pc[l], loop |-> l, approved |-> approved,
     event |-> order[l].event, state |-> mem[l]]

Statements == [at : Issuing, loop : Loops, approved : BOOLEAN, event : Nat, state : AgentStates]

\* The statements the call loop l is in may have sent.
InFlight(l) ==
    IF ~sent[l] THEN {}
    ELSE IF pc[l] = "call"
    THEN {Statement(l, Decision(l, t).approved) : t \in {u \in Trades : u.amount > 0}}
    ELSE {Statement(l, order[l].decision.approved)}

\* Mutant: the inserted row does not refer to the agent's (no foreign key).
MutInserts(a) == UNCHANGED rowVars

\* An INSERT of a row that refers to the agent's; it needs that row.
Inserts(a) == Row!Refer(a)

\* What the database does for statement s.
Executes(s) ==
    LET a == owner[s.loop]
    IN  \/ /\ s.at = "call" /\ Inserts(a)
           /\ approvals' = [approvals EXCEPT ![a] = IF s.approved THEN @ + 1 ELSE @]
           /\ UNCHANGED <<dbState, cycleLog, tradeLogs>>
        \/ /\ s.at = "log" /\ Inserts(a)
           /\ tradeLogs' = [tradeLogs EXCEPT ![a] = IF s.approved THEN @ \cup {s.event} ELSE @]
           /\ UNCHANGED <<dbState, cycleLog, approvals>>
        \/ /\ s.at = "pauseDB" /\ Row!SetStatus(a, "paused")
           /\ UNCHANGED <<dbState, cycleLog, approvals, tradeLogs>>
        \/ /\ s.at = "persistLog" /\ Inserts(a)
           /\ cycleLog' = cycleLog \cup {<<s.loop, s.state.cycle>>}
           /\ UNCHANGED <<dbState, approvals, tradeLogs>>
        \/ /\ s.at = "persistState" /\ Row!Alive(a)
           /\ dbState' = [dbState EXCEPT ![a] = s.state]
           /\ UNCHANGED <<rowVars, cycleLog, approvals, tradeLogs>>

\* Mutant: database calls that do not carry the loop's context.
MutSucceeds(l, s) == Executes(s) /\ UNCHANGED <<late, faults>>

\* The call returns without an error.
Succeeds(l, s) == ctx[l] = "live" /\ Executes(s) /\ UNCHANGED <<late, faults>>

Fault == faults < MaxFaults /\ faults + crashes < MaxTroubles /\ faults' = faults + 1

\* Statements their callers gave up are late.
Leaves(given) == late' = late \cup given /\ Cardinality(late') <= MaxLate

\* The call returns an error; its statement, if it was sent, may be late.
Fails(l, s) ==
    /\ \/ ctx[l] = "cancelled" /\ UNCHANGED faults
       \/ ctx[l] = "live" /\ Fault
    /\ \/ UNCHANGED late
       \/ sent[l] /\ Leaves({s})
    /\ UNCHANGED tables

\* It fails, or the agent's row is gone: an INSERT returns an error then, an
\* UPDATE changes nothing.
Misses(l, s) ==
    \/ Fails(l, s)
    \/ ~Row!Alive(owner[l]) /\ UNCHANGED <<dbVars, faults>>

\* A late statement is executed, whatever its loop does meanwhile.  One that
\* never is stays in `late`; two that are alike count as one.
Commit(s) ==
    /\ s \in late /\ Executes(s)
    /\ late' = late \ {s}
    /\ UNCHANGED <<procVars, loopVars, envVars>>

-----------------------------------------------------------------------------
(* Scheduler.                                                              *)

\* GetAgent and LoadAgentState: the first half of StartAgent.  The agent's
\* status is not looked at.
LoadAgent(a, l) ==
    /\ pc[l] = "free" /\ owner[l] = a /\ Row!Alive(a)
    /\ pc' = [pc EXCEPT ![l] = "loaded"]
    /\ mem' = [mem EXCEPT ![l] = dbState[a]]
    /\ conf' = [conf EXCEPT ![l] = dbConf[a]]
    /\ UNCHANGED <<phase, agents, stopped, owner, ctx, sent, round, calls, order,
                   dbVars, envVars>>

StartAgent(a, l) == phase = "up" /\ LoadAgent(a, l) /\ UNCHANGED restore

\* Mutant: only a loop that waits in its select learns of the cancellation.
MutCancel(loops) ==
    ctx' = [l \in Loops |-> IF l \in loops /\ pc[l] = "idle" THEN "cancelled" ELSE ctx[l]]

Cancel(loops) ==
    ctx' = [l \in Loops |-> IF l \in loops THEN "cancelled" ELSE ctx[l]]

\* RestoreAgents is done with an agent and has started `new` loops for it.
Passed(new) ==
    IF restore.todo = {} THEN NoRestore
    ELSE [restore EXCEPT !.now = None, !.at = None, !.loops = @ \cup new]

\* The second half, under e.mu: cancel the registered loop, register the new
\* one, launch its goroutine.  Whether the context is still live is not asked.
InstallLoop(l) ==
    /\ pc[l] = "loaded"
    /\ Cancel({agents[owner[l]]})
    /\ agents' = [agents EXCEPT ![owner[l]] = l]
    /\ pc' = [pc EXCEPT ![l] = "idle"]
    /\ restore' = IF restore.at = l THEN Passed({l}) ELSE restore
    /\ UNCHANGED <<phase, stopped, owner, sent, mem, round, calls, order, conf, dbVars, envVars>>

\* The context a caller of StartAgent passed is over, and the loop's with it.
\* The engine is not told: the loop keeps its entry.
CallerEnds(l) ==
    /\ pc[l] \notin {"free", "exited"} /\ ctx[l] = "live" /\ l \notin restore.loops \cup {restore.at}
    /\ Cancel({l})
    /\ UNCHANGED <<procVars, pc, owner, sent, mem, round, calls, order, conf,
                   dbVars, envVars>>

\* Mutant: the entry is deleted, the loop is not cancelled.
MutUnregister(a) == agents' = [agents EXCEPT ![a] = None] /\ UNCHANGED ctx

Unregister(a) ==
    /\ Cancel({agents[a]})
    /\ agents' = [agents EXCEPT ![a] = None]

PauseAgent(a) ==
    /\ phase = "up"
    /\ Unregister(a)
    /\ UNCHANGED <<phase, stopped, restore, pc, owner, sent, mem, round, calls, order,
                   conf, dbVars, envVars>>

Stop ==
    /\ phase = "up"
    /\ Cancel({agents[a] : a \in Agents})
    /\ agents' = [a \in Agents |-> None]
    /\ stopped' = TRUE
    /\ UNCHANGED <<phase, restore, pc, owner, sent, mem, round, calls, order,
                   conf, dbVars, envVars>>

\* RestoreAgents at startup: list, then StartAgent one agent after the other.
RestoreAgents ==
    /\ phase = "booting"
    /\ phase' = "up"
    /\ \/ /\ restore' = [restore EXCEPT
                           !.todo = {a \in Agents : Row!Alive(a) /\ dbStatus[a] = "running"}]
          /\ UNCHANGED faults
       \/ Fault /\ UNCHANGED restore
    /\ UNCHANGED <<agents, stopped, loopVars, dbVars, crashes>>

RestoreTake(a) ==
    /\ restore.now = None /\ a \in restore.todo
    /\ restore' = [restore EXCEPT !.todo = @ \ {a}, !.now = a]
    /\ UNCHANGED <<phase, agents, stopped, loopVars, dbVars, envVars>>

RestoreLoad(a, l) ==
    /\ restore.now = a /\ restore.at = None /\ ~restore.over
    /\ LoadAgent(a, l)
    /\ restore' = [restore EXCEPT !.at = l]

\* GetAgent fails: the database does, the agent is gone, or the context of
\* RestoreAgents is over.
CannotRestore(a) ==
    /\ restore.now = a /\ restore.at = None
    /\ \/ Fault
       \/ (~Row!Alive(a) \/ restore.over) /\ UNCHANGED faults
    /\ UNCHANGED <<phase, agents, stopped, loopVars, dbVars, crashes>>

\* Mutant: an agent that cannot be started ends the restore.
MutRestoreSkip(a) == CannotRestore(a) /\ restore' = NoRestore

\* "Continue restoring other agents; don't fail the whole startup."
RestoreSkip(a) == CannotRestore(a) /\ restore' = Passed({})

\* The context of RestoreAgents ends while it runs, and those of its loops
\* with it.  Afterwards each loop's ends by CallerEnds.
RestoreEnds ==
    /\ restore # NoRestore /\ ~restore.over
    /\ restore' = [restore EXCEPT !.over = TRUE]
    /\ Cancel(restore.loops \cup {restore.at})
    /\ UNCHANGED <<phase, agents, stopped, pc, owner, sent, mem, round, calls, order,
                   conf, dbVars, envVars>>

\* The process dies at any point and is started again.  The statement a loop
\* had sent may be late.
Crash ==
    /\ crashes < MaxCrashes /\ faults + crashes < MaxTroubles /\ crashes' = crashes + 1
    /\ phase' = "booting"
    /\ agents' = [a \in Agents |-> None]
    /\ stopped' = FALSE
    /\ restore' = NoRestore
    /\ \E left \in SUBSET UNION {InFlight(l) : l \in Loops} :
           /\ \A s, u \in left : s.loop = u.loop => s = u
           /\ Leaves(left)
    /\ pc' = [l \in Loops |-> IF pc[l] = "free" THEN "free" ELSE "exited"]
    /\ ctx' = [l \in Loops |-> IF pc[l] = "free" THEN "live" ELSE "cancelled"]
    /\ sent' = [l \in Loops |-> FALSE]
    /\ round' = [l \in Loops |-> 0]
    /\ calls' = [l \in Loops |-> 0]
    /\ order' = [l \in Loops |-> NoOrder]
    /\ conf' = [l \in Loops |-> NoConf]
    /\ UNCHANGED <<owner, mem, tables, faults>>

\* What the services do to the row while the engine runs: Start and Pause write
\* the status, Update the risk parameters, deposits and redemptions the AUM,
\* Delete removes it.  None of them tells the engine.
Serve(a) ==
    /\ Row!Serve(a)
    /\ UNCHANGED <<procVars, loopVars, dbState, cycleLog, approvals, tradeLogs, late, envVars>>

-----------------------------------------------------------------------------
(* The goroutine: runAgentLoop and RunCycle.                               *)

\* A statement goes out only under a live context: pgx looks before it sends.
Sends(l, issues) == sent' = [sent EXCEPT ![l] = issues /\ ctx[l] = "live"]

Goto(l, label) ==
    /\ pc' = [pc EXCEPT ![l] = label]
    /\ Sends(l, label \in Issuing)

\* The ticker fires: RunCycle starts.  The select may take the tick although
\* the context is over or stopCh is closed.
BeginCycle(l) ==
    /\ pc[l] = "idle"
    /\ mem[l].cycle < MaxCycles
    /\ mem' = [mem EXCEPT ![l].cycle = @ + 1]
    /\ Goto(l, "tools")
    /\ UNCHANGED <<procVars, owner, ctx, round, calls, order, conf, dbVars, envVars>>

\* Mutant: the select has no case for ctx.Done.
MutExitLoop(l) ==
    /\ pc[l] = "idle" /\ stopped
    /\ Goto(l, "exited")
    /\ UNCHANGED <<procVars, owner, ctx, mem, round, calls, order, conf, dbVars, envVars>>

ExitLoop(l) ==
    /\ pc[l] = "idle" /\ (ctx[l] = "cancelled" \/ stopped)
    /\ Goto(l, "exited")
    /\ UNCHANGED <<procVars, owner, ctx, mem, round, calls, order, conf, dbVars, envVars>>

\* A panic in one of the calls of a cycle ends the goroutine: recover logs it
\* and nothing else, so the map keeps its entry and the context stays live.
Panic(l) ==
    /\ pc[l] \in {"tools", "chat", "call"}
    /\ Fault
    /\ Goto(l, "exited")
    /\ UNCHANGED <<procVars, owner, ctx, mem, round, calls, order, conf, dbVars, crashes>>

\* Mutant: an early return jumps over persistCycle.
MutGetTools(l) ==
    /\ pc[l] = "tools"
    /\ \/ ctx[l] = "live" /\ Goto(l, "chat")
       \/ Goto(l, "persistState")
    /\ UNCHANGED <<procVars, owner, ctx, mem, round, calls, order, conf, dbVars, envVars>>

\* ListAgentMCPServers, GetToolDefinitions and the fast path: an error or a
\* condition that is not met ends the cycle before the model is asked.
GetTools(l) ==
    /\ pc[l] = "tools"
    /\ \/ ctx[l] = "live" /\ Goto(l, "chat")
       \/ Goto(l, "persistLog")
    /\ UNCHANGED <<procVars, owner, ctx, mem, round, calls, order, conf, dbVars, envVars>>

\* One round: the answer holds tool calls; or it is final, the context is
\* over, the client fails, or the rounds are used up.
Chat(l) ==
    /\ pc[l] = "chat"
    /\ \/ /\ round[l] < MaxToolCallRounds /\ ctx[l] = "live"
          /\ \E n \in 1..MaxCalls : calls' = [calls EXCEPT ![l] = n]
          /\ round' = [round EXCEPT ![l] = @ + 1]
          /\ Goto(l, "call")
       \/ /\ round' = [round EXCEPT ![l] = 0]
          /\ Goto(l, "persistLog")
          /\ UNCHANGED calls
    /\ UNCHANGED <<procVars, owner, ctx, mem, order, conf, dbVars, envVars>>

\* Mutants: one call too many, and the same call over and over.
MutOnward(l) ==
    /\ calls' = [calls EXCEPT ![l] = @ - 1]
    /\ pc' = [pc EXCEPT ![l] = "call"]
MutRepeatCall(l) == UNCHANGED calls /\ pc' = [pc EXCEPT ![l] = "call"]

\* The answer's next call, or the next round when there is none.
Onward(l) ==
    /\ calls' = [calls EXCEPT ![l] = @ - 1]
    /\ pc' = [pc EXCEPT ![l] = IF calls[l] > 1 THEN "call" ELSE "chat"]

NextCall(l) == Onward(l) /\ Sends(l, calls[l] > 1)

\* A call that never reaches risk control: an MCP tool, an unknown tool, or a
\* trade with malformed arguments.  Its error goes to the model.
OtherCall(l) ==
    /\ pc[l] = "call"
    /\ NextCall(l)
    /\ UNCHANGED <<procVars, owner, ctx, mem, round, order, conf, dbVars, envVars>>

\* handleTradeToolCall up to risk.Validate: without its risk event the
\* decision is an error and the trade is dropped.
ValidateTrade(l, t) ==
    /\ pc[l] = "call" /\ t.amount > 0
    /\ LET d == Decision(l, t)
           s == Statement(l, d.approved)
       IN  \/ /\ Succeeds(l, s)
              /\ order' = [order EXCEPT
                     ![l] = [trade |-> t, decision |-> d, event |-> approvals'[owner[l]]]]
              /\ Goto(l, "log")
              /\ UNCHANGED calls
           \/ Misses(l, s) /\ NextCall(l) /\ UNCHANGED order
    /\ UNCHANGED <<procVars, owner, ctx, mem, round, conf, crashes>>

\* What an approved trade does to ra.State.
Execute(s, t) ==
    [s EXCEPT !.trades = @ + 1,
              !.hold[t.pair] = CASE t.action = "BUY"  -> @ + t.amount
                                 [] t.action = "SELL" -> @ - t.amount
                                 [] OTHER             -> @]

\* Mutant: a rejected trade is executed, the early return being gone.
MutApplied(s, o) == Execute(s, o.trade)

Applied(s, o) == IF o.decision.approved THEN Execute(s, o.trade) ELSE s

\* A call whose error is only logged.
Attempts(l, s) == Succeeds(l, s) \/ Misses(l, s)

\* CreateTradeLog and what follows from the decision: pause, report the
\* rejection, or execute.
LogTrade(l) ==
    /\ pc[l] = "log"
    /\ LET d == order[l].decision
       IN  /\ Attempts(l, Statement(l, d.approved))
           /\ mem' = [mem EXCEPT ![l] = Applied(@, order[l])]
           /\ IF d.pause THEN Goto(l, "pauseDB") /\ UNCHANGED calls ELSE NextCall(l)
    /\ order' = [order EXCEPT ![l] = NoOrder]
    /\ UNCHANGED <<procVars, owner, ctx, round, conf, crashes>>

\* Mutant: a pause that cannot be stored is not carried out.
MutPauseInDB(l) ==
    /\ pc[l] = "pauseDB"
    /\ LET s == Statement(l, TRUE)
       IN  \/ Succeeds(l, s) /\ Goto(l, "pause") /\ UNCHANGED calls
           \/ Misses(l, s) /\ NextCall(l)
    /\ UNCHANGED <<procVars, owner, ctx, mem, round, order, conf, crashes>>

\* UpdateAgentStatus "paused".
PauseInDB(l) ==
    /\ pc[l] = "pauseDB"
    /\ Attempts(l, Statement(l, TRUE))
    /\ Goto(l, "pause")
    /\ UNCHANGED <<procVars, owner, ctx, mem, round, calls, order, conf, crashes>>

\* e.PauseAgent(ra.Agent.ID): whichever loop is registered for the agent.
RiskPause(l) ==
    /\ pc[l] = "pause"
    /\ Unregister(owner[l])
    /\ Onward(l)
    /\ UNCHANGED <<phase, stopped, restore, owner, sent, mem, round, order, conf,
                   dbVars, envVars>>

\* persistCycle and persistAgentState use the loop's context and only log
\* their errors.
PersistCycle(l) ==
    /\ pc[l] = "persistLog"
    /\ Attempts(l, Statement(l, TRUE))
    /\ Goto(l, "persistState")
    /\ UNCHANGED <<procVars, owner, ctx, mem, round, calls, order, conf, crashes>>

PersistState(l) ==
    /\ pc[l] = "persistState"
    /\ Attempts(l, Statement(l, TRUE))
    /\ Goto(l, "idle")
    /\ UNCHANGED <<procVars, owner, ctx, mem, round, calls, order, conf, crashes>>

\* The steps a goroutine takes of its own accord once its cycle has begun.
RunCycle(l) ==
    \/ GetTools(l) \/ Chat(l) \/ OtherCall(l)
    \/ \E t \in Trades : ValidateTrade(l, t)
    \/ LogTrade(l) \/ PauseInDB(l) \/ RiskPause(l)
    \/ PersistCycle(l) \/ PersistState(l)

Restoring == RestoreAgents \/ \E a \in Agents :
                 RestoreTake(a) \/ RestoreSkip(a) \/ \E l \in Loops : RestoreLoad(a, l)

Next ==
    \/ Restoring \/ RestoreEnds \/ Stop \/ Crash
    \/ \E a \in Agents : PauseAgent(a) \/ Serve(a)
                         \/ \E l \in Loops : StartAgent(a, l)
    \/ \E l \in Loops : \/ InstallLoop(l) \/ CallerEnds(l)
                        \/ BeginCycle(l) \/ ExitLoop(l) \/ Panic(l) \/ RunCycle(l)
    \/ \E s \in late : Commit(s)

Spec == Init /\ [][Next]_vars

\* A goroutine that can go on does, StartAgent does not stop half way, and a
\* select with two ready cases does not choose the ticker for ever.
Fairness == /\ WF_vars(Restoring)
            /\ \A l \in Loops : /\ WF_vars(InstallLoop(l))
                                /\ WF_vars(RunCycle(l))
                                /\ SF_vars(ExitLoop(l))

FairSpec == Spec /\ Fairness

-----------------------------------------------------------------------------
(* Safety.                                                                 *)

Orders == {NoOrder} \cup [trade : Trades, decision : Decisions, event : Nat]

TypeOK ==
    /\ phase \in {"booting", "up"}
    /\ agents \in [Agents -> Loops \cup {None}]
    /\ stopped \in BOOLEAN
    /\ restore \in [todo : SUBSET Agents, now : Agents \cup {None}, at : Loops \cup {None},
                    loops : SUBSET Loops, over : BOOLEAN]
    /\ pc \in [Loops -> PCs]
    /\ owner \in [Loops -> Agents]
    /\ ctx \in [Loops -> {"live", "cancelled"}]
    /\ sent \in [Loops -> BOOLEAN]
    /\ mem \in [Loops -> AgentStates]
    /\ round \in [Loops -> 0..MaxToolCallRounds]
    /\ calls \in [Loops -> 0..MaxCalls]
    /\ order \in [Loops -> Orders]
    /\ conf \in [Loops -> Confs]
    /\ dbLife \in [Agents -> {"alive", "deleted"}]
    /\ dbConf \in [Agents -> Confs]
    /\ dbUsed \in [Agents -> BOOLEAN]
    /\ dbStatus \in [Agents -> {"created", "running", "paused"}]
    /\ dbState \in [Agents -> AgentStates]
    /\ cycleLog \subseteq Loops \X Nat
    /\ approvals \in [Agents -> Nat]
    /\ tradeLogs \in [Agents -> SUBSET Nat]
    /\ late \subseteq Statements
    /\ faults \in 0..MaxFaults
    /\ crashes \in 0..MaxCrashes

\* Two goroutines of one agent never both hold a live context: StartAgent,
\* PauseAgent, Stop and a pause by risk control always cancel the one they
\* replace, in whatever order they come.
AtMostOneLiveLoop ==
    \A l, m \in Active :
        (l # m /\ owner[l] = owner[m]) => "cancelled" \in {ctx[l], ctx[m]}

\* Why: a loop that is live is the one its agent is registered with, so
\* whoever takes over or pauses the agent finds it in e.agents.  The converse
\* fails: the context of a registered loop may be over.
LiveIsRegistered ==
    /\ \A a \in Agents : agents[a] # None =>
           owner[agents[a]] = a /\ pc[agents[a]] \notin {"free", "loaded"}
    /\ \A l \in Loops : (pc[l] \notin {"free", "loaded"} /\ ctx[l] = "live")
           => agents[owner[l]] = l

\* An approved trade of loop l that is not in its state yet.
Pending(l) == IF order[l].trade # None /\ order[l].decision.approved THEN 1 ELSE 0

\* risk.go:59: no trade is in a loop's state, in the database's or in
\* trade_logs without its trade_approved event, whatever fails, is cancelled or
\* is replaced between the writes.
TradesAudited ==
    /\ \A l \in Loops : mem[l].trades + Pending(l) <= approvals[owner[l]]
    /\ \A a \in Agents : dbState[a].trades <= approvals[a]
    /\ \A a \in Agents : tradeLogs[a] \subseteq 1..approvals[a]

\* An agent that was deleted has never traded, although its loop runs on and
\* the model may still ask for trades: its risk events cannot be stored, and
\* one that is stored keeps the row (agent.go:383, engine.go:453).
DeletedNeverTraded ==
    \A a \in Agents : dbLife[a] = "deleted" =>
        /\ approvals[a] = 0
        /\ \A l \in Loops : owner[l] = a => mem[l].trades = 0 /\ Pending(l) = 0

\* The calls of the rounds of a cycle, and the sums for which no position
\* overflows an int64 when M bounds the amount of a trade.
TradesPerCycle == MaxToolCallRounds * MaxCalls
AmountsFit(M) ==
    /\ \A t \in Trades : t.amount <= M
    /\ MaxCycles * TradesPerCycle * M <= MaxInt64

HourlyLimitKept(l) ==
    conf[l].risk.maxPerHour > 0
        => Execute(mem[l], order[l].trade).trades <= conf[l].risk.maxPerHour

PositionLimitKept(l) ==
    (conf[l].risk.maxRatio > 0 /\ conf[l].aum > 0) =>
        100 * currentPosition(Execute(mem[l], order[l].trade).hold)
            <= conf[l].risk.maxRatio * conf[l].aum

\* No trade takes a loop past the hourly limit or the position limit its agent
\* had when the loop was started, whatever the services write to the row
\* meanwhile: a decision still holds when its trade is applied, and nothing of
\* a later configuration is mixed with it (handleTradeToolCall).
LimitsKept ==
    \A l \in Loops : Pending(l) = 1 => HourlyLimitKept(l) /\ PositionLimitKept(l)

\* As long as no call fails but for a cancelled context, a persisted state
\* that counts n cycles has a row in agent_cycles for each of them, although
\* loops that were replaced, paused or killed never wrote theirs.
HistoryComplete ==
    faults = 0 => \A a \in Agents : \A n \in 1..dbState[a].cycle :
        \E l \in Loops : owner[l] = a /\ <<l, n>> \in cycleLog

OwnLate(l) == {s \in late : s.loop = l}

\* Nothing more comes of a loop whose context is over, wherever its cycle was:
\* it takes no further trade on, no call of it writes, and the one statement
\* that was under way at that moment is all the database may still see.
CancelledLoopsAreSpent ==
    [][\A l \in Loops : ctx[l] = "cancelled" =>
          /\ mem'[l].trades + Pending(l)' <= mem[l].trades + Pending(l)
          /\ pc'[l] # pc[l] => UNCHANGED tables
          /\ sent'[l] => sent[l]
          /\ OwnLate(l)' \subseteq OwnLate(l) \/ (sent[l] /\ ~sent'[l])]_vars

\* A loop that risk control wants paused is cancelled when handleTradeToolCall
\* returns, although storing the pause may fail and the entry in e.agents may
\* have gone to another loop or to none (engine.go:478-487).
RiskPauseStops ==
    [][\A l \in Loops :
          (pc[l] \in {"pauseDB", "pause"} /\ pc'[l] \notin {"pauseDB", "pause"})
              => ctx'[l] = "cancelled"]_vars

-----------------------------------------------------------------------------
(* Liveness, under FairSpec.                                               *)

\* A cycle ends whatever the model answers: the rounds are limited.
CycleTerminates ==
    \A l \in Loops : pc[l] \in InCycle ~> pc[l] \in {"idle", "exited"}

\* Pausing, replacing or stopping takes effect: the goroutine returns.
StoppedLoopExits ==
    \A l \in Loops : (l \in Active /\ (ctx[l] = "cancelled" \/ stopped)) ~> pc[l] = "exited"

\* The instance has no loop left for the agent RestoreAgents is at.
Stuck == /\ restore.now # None /\ restore.at = None
         /\ \A l \in Loops : owner[l] = restore.now => pc[l] # "free"

\* RestoreAgents comes to every agent on its list, whatever becomes of those
\* before it, unless the process crashes: "Continue restoring other agents"
\* (engine.go:734).
RestoreCompletes ==
    \A a \in Agents : a \in restore.todo ~> (restore.now = a \/ phase = "booting" \/ Stuck)

-----------------------------------------------------------------------------
(* Statements of the source that the code does not keep.                   *)

\* engine.go:163: "Persist state and cycle log regardless of error".  A cycle
\* that ends under a cancelled context persists neither.
PersistedRegardless ==
    [][\A l \in Loops : (pc[l] = "persistState" /\ pc'[l] = "idle" /\ Row!Alive(owner[l])) =>
        /\ dbState'[owner[l]] = mem[l]
        /\ <<l, mem[l].cycle>> \in cycleLog]_vars
=============================================================================
