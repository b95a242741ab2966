# AgentFi core: a TLA+ model of the backend

AgentFi is a Go backend in which users create trading agents.  An agent runs in
a loop: at each tick of its interval a language model is asked what to do, it
may call MCP tools and may ask for trades, and a trade passes risk control
before it is applied.  Users put money into an agent and take it out again. This
directory models the parts of it that hold state, checks them with TLC and
proves some of what holds with TLAPS.  Paths below are relative to the
repository; line numbers are those of the modelled commit.

## 1. Inventory

| Component | Source | State | Operations |
|---|---|---|---|
| Engine | `internal/engine/engine.go` | map `agents` of running loops, `stopCh`; per loop a context, a goroutine, a copy of the agent's row and `AgentState` (cycle number, trade counts, daily loss, holdings); rows `agents.status`, `agents.state`, `agent_cycles`, `trade_logs` | `StartAgent`, `PauseAgent`, `Stop`, `RestoreAgents`, `RunCycle`, `runAgentLoop`, `handleTradeToolCall`, `persistCycle`, `persistAgentState`, `LoadAgentState` |
| Risk control | `internal/risk/risk.go` | none but the rows of `risk_events` | `Validate`, `ValidatePure`, four rules |
| Fast path | `internal/engine/fastpath` | none | `TryParse`, `Evaluate` |
| LLM client | `internal/llm/llm.go` | none; the conversation is the cycle's | `Chat` |
| MCP manager | `internal/mcp/mcp.go` | maps of clients and breakers; per breaker two atomics; `mcp_servers.status` | `Register`, `Connect`, `Disconnect`, `CallTool`, `GetToolDefinitions`, `StartHealthChecks`, `Stop`, `runHealthChecks` |
| Investments | `internal/invest/invest.go` | rows of `investments` and `ledger_entries`, `agents.aum`, `agents.investor_count` | `Deposit`, `Redeem`, `CalculateProfitShare`, `GetPortfolio` |
| Agent service | `internal/agent/agent.go` | rows of `agents`, `agent_mcp_bindings` | `Create`, `Get`, `List`, `Update`, `Delete`, `Start`, `Pause` |
| Authentication | `internal/auth/auth.go` | nonces in Redis (TTL 5 min); tokens, which only their holders keep | `GenerateNonce`, `VerifySIWE`, `ValidateJWT`, `JWTMiddleware` |
| Store | `internal/store` | the PostgreSQL pool | generated queries, `Tx` |
| Config, HTTP handlers, `cmd/server` | | none | decoding, wiring |

**Interactions.**  The engine calls risk control, the fast path, the MCP
manager, the LLM client and the store.  A pause by risk control calls back into
the engine (`PauseAgent` from inside a cycle of the loop it cancels).  The agent
service and the engine share no memory, only the row of `agents`: the service
writes `status` and the configuration and deletes the row, the engine writes
`state` (and `status` when it pauses an agent), the investment service writes
`aum` and `investor_count`.  The engine copies the row when it starts a loop and
works with the copy (`ra.Agent`) from then on.  `cmd/server` builds the router
and the services and constructs neither the engine nor the health checks; their
callers are therefore modelled as free to call at any time, with a context that
may end at any time.

**Hard behaviours.**  Loops of one agent that overlap (start, replace, pause,
risk pause, stop) over a row that changes or goes away under them; a database
call per step, each of which may fail, be cancelled, or be executed after its
caller gave it up; contexts that end with the request that started a loop; a
crash between the two writes that end a cycle; a conversation whose every call needs its one answer;
numbers that pass through JSON, float64 and int64; two atomics per circuit
breaker updated by callers and by the health check; rows read before a
transaction and overwritten inside it; pages read one after the other while rows
come and go; int64 arithmetic and rounding.  Each is listed with its line under
`hazards` in `PROJECT.json`.

**What makes each part correct.**  Engine: one live loop per agent, nothing more
comes of a loop that is over, every trade and every cycle has its record, limits
hold for sums of trades, cycles and loops end, a restart gets through its list.  Risk control: a decision is the conjunction of
the limits and is stored before it is known.  A cycle: the conversation is
well-formed, what is decided on is what was asked.  MCP manager: the breaker
follows its count, an open circuit is published and probed.  Investments: AUM
and ledger agree, nobody is paid twice or from nothing.  Agent service: bindings
follow the configuration, the row changes only as the engine may expect.
Authentication: a nonce buys one token, only a token's holder is answered.

## 2. Modules

| Module | Models | Notes |
|---|---|---|
| `RiskRules` | the rules and `ValidatePure` as operators | used by `RiskController` and `Engine` |
| `RiskController` | one call of `Controller.Validate`, rule by rule, with the write of its event | a part of `Cycle` |
| `Cycle` | one cycle as its goroutine sees it: tools, fast path, conversation with the model, the calls of risk control | `MCCycle` |
| `CycleControl` | the control of a cycle without its data: rounds, calls, at most one trade for a call | abstract specification; `Cycle` and each loop of `Engine` implement it |
| `AgentRow` | what the services and the engine may do to a row of `agents` | abstract specification; `AgentService` implements it, `Engine` uses its actions |
| `Engine` | scheduler, loops, cycles and the rows they write | `MCEngine` |
| `EngineClock` | `Engine` and a clock that counts hours | only for the statement about the hourly limit; `MCEngineClock` |
| `CircuitBreaker` | what a breaker promises: one value, changed in one step | abstract specification |
| `McpManager` | one server: registration, client, breaker, callers, health checks | `MCMcpManager` |
| `Fund` | what `Invest` promises: put an amount in once, take some of the balance out once | abstract specification |
| `Invest` | deposits, redemptions and profit-share sweeps of one agent | `MCInvest` |
| `AgentService` | requests that create, update, delete, start and pause agents, with the row lock of a transaction | its run needs no instance module |
| `Auth` | nonces, log-ins and tokens over time | |
| `Listing` | `Auth` with clients that page through their agents (`List` behind the middleware) | `MCListing` |
| `EngineProofs`, `LimitProofs`, `CycleProofs`, `McpProofs`, `InvestProofs`, `OverlapProofs`, `AgentServiceProofs`, `ListingProofs` | theorems | section 5 |

`PROJECT.json` maps each definition to the lines it stands for.  Definitions
named `Mut...` are not part of any specification: each is a plausible bug that
one of the runs must detect (`mutants` in `PROJECT.json`).

**How they compose.**  `Cycle` extends `RiskController`: its step `Validate` is a
step of that module's `Next`, and the cycle goes on with what it returned.
`Engine` has the same cycle among other loops, pauses and crashes, with
`ValidatePure` for the decision and without what is said.  That the two are the
same cycle is said by `CycleControl`, which both implement
(`CycleImplementsControl`, `LoopsImplementControl`).  `Engine` instantiates
`AgentRow` over its database variables: `Serve` is what the services may do to
the row at any time, `Inserts` needs the row and keeps it from being deleted.
That the services really do no more than that is the property
`ImplementsAgentRow` of `AgentService`, so the two models fit together at the
row; `EngineKeepsRow` is the engine's side of it.  `Cycle` decides with the
rules one by one, and `RulesDecideAsChain` says that this is the `ValidatePure`
that `Engine` takes for it.  `Listing` extends `Auth`, since every page is a request with a token.

### Engine

A *loop* is one `RunningAgent`.  `agents` is the engine's map; `pc`, `ctx`,
`mem`, `conf`, `round`, `calls` and `order` are the goroutine's place, its
context, `ra.State`, `ra.Agent` and its local variables.  `StartAgent` is two
steps, since it reads the database before it takes `e.mu`: `LoadAgent` and
`InstallLoop`.  Everything under one lock, and everything between two calls that
another process can see, is one step; every database call is a step of its own:

    idle -> tools -> chat -> call -> log -> (pauseDB -> pause ->) call ... -> chat
                 \-> persistLog <-------------------------------------------/
                     persistLog -> persistState -> idle

*Contexts.*  A loop's context is made from the one `StartAgent` was called with
(engine.go:673), so it is over when the engine cancels it (replacement, pause,
stop, risk pause) or when its caller's ends: `CallerEnds` is that end, at any
time from the load on, with no word to the engine, which keeps the loop's entry.
`RestoreAgents` passes one context to all its loops; `RestoreEnds` is its end in
the middle of the restore and takes all of them, afterwards `CallerEnds` takes
them one by one.  A tick that is due may be taken by a select whose context is
over or whose `stopCh` is closed, so `BeginCycle` asks for neither: such a cycle
counts itself and comes to its two writes, which fail.

*Database calls.*  A call returns without an error only under a live context,
and may fail there too, for one of `MaxFaults` faults (the database is down, the
60 s deadline of the cycle passed).  Under a context that is over it fails: pgx
asks the context before it sends.  A statement that has been sent when its
context ends may be executed by the server nevertheless, then or much later,
while its caller has an error in hand.  `sent` says that the statement of the
call at hand went out, `Fails` may leave it in `late`, and `Commit` executes it
at any later moment, whatever became of the loop, of the agent and of the
process (`Crash` leaves what was under way, too).  `MaxLate` bounds how many
there are at a time; one that is never executed stays.

*Restoring.*  `RestoreAgents` lists, `RestoreTake` comes to an agent,
`RestoreLoad` and `InstallLoop` are its `StartAgent`, and `RestoreSkip` is the
`continue` after an error: a query that fails, a row that is gone, a context
that is over.

What the steps abstract from:

- The steps `tools` and `chat` (MCP listing, fast path, language model) end
  either way at any time.  The model may answer with any number of calls up to
  `MaxCalls`, each of them any trade of `Trades` or something that never reaches
  risk control.  `Cycle` has what is abstracted here.
- `HourlyTradeCount` and `DailyTradeCount` move together and are one field
  `trades`.  `DailyLoss` is written by no code, so it is what the persisted
  state had.
- A configuration (`Confs`) is the risk parameters and the AUM of a row.  A loop
  takes a copy when it is loaded; `Serve` changes the row and never the copy.
- `Misses` is a statement that fails or, for an insert with a foreign key, finds
  the agent's row gone.  `persistAgentState` is an UPDATE, which then changes
  nothing and reports nothing.
- `Loops` is a pool: each loop serves one `StartAgent` and is not used again.
- A crash empties the process, keeps the rows and is followed by
  `RestoreAgents`.

### A cycle and risk control

`RiskController` runs the chain rule by rule so that the early `break`, and the
write after it, are visible.  Ratios are floats in the code and exact fractions
here; the new position wraps in int64 (`Wrap64`), with `MaxInt64` small in the
run.

`Cycle` follows `runCycleInner`: `GetTools` builds the map from tool names to
servers in whatever order the query returns them; `Evaluate` reads one indicator
of the fast path; `Chat` is one request to the model, whose answer is a sequence
of calls, a final text or an error; `CallTool` and `CallTrade` settle one call
each, `ReportTrade` the one risk control has decided.  `messages` and
`toolCalls` are what goes into the next request and into the cycle's log, a call
being named by its index in `asked`.  Amounts go the way they go in the code:
`Float64` is the number `encoding/json` makes of the amount the model wrote
(exact up to `MaxExact`, rounded beyond, with its sign), and arguments that are
no object become an empty one (`Decoded`), since `fromAPIResponse` drops
the error.  The constants stand for the outside: `Provides` for the servers' rows,
`Strategies` for what the regular expression of `TryParse` finds (none, or a
sequence of conditions), `Asks` for what a model may call.  Risk parameters and
state are any at each call, because `Engine` is the module that says which they
are.

### MCP manager

Each atomic operation on the breaker is a step.  `RecordSuccess` is
`ResetFailures` then `StoreClosed`, `RecordFailure` is `AddFailure` then, at the
threshold, `StoreOpen`; callers and the health check interleave between them.
`failures` stops at the threshold, above which all counts behave alike. One
server suffices because servers share nothing but the maps' lock.

A behaviour begins with empty maps over a database that may know the server
already; `Register`, or `Connect` for a known server, fills the maps.  The row
and the map entries appear in one step, since only the answer of `Register`
tells its caller the id (its owner could list the row in between; the fresh
breaker would then replace the one a `Connect` made).  `stopped` is the closed
`stopCh`, which only the select sees.  `done` is the end of the checks' context
(`CancelChecks`, at any time): it also makes a running probe fail and, with it,
the update of the status that the same check would make, which is then never
sent.  `StartHealthChecks` is called again, with a context of its own, only after
its goroutine has gone.  `rpc` abstracts the HTTP client: an answer needs the
server, an error nothing.

The code drops the error of a status update.  Under a live context one succeeds
or, with `DbMayFail`, fails; if it had been sent it may still be executed
(`late`, `LateUpdate`), also after the process died (`UnderWay`).  `inDoubt`
says that since this process's last update that is known to have succeeded one
was not: it failed, was not sent, or came late.  `streak` counts failed health
checks.  Both are for the properties and are read by no action.

`CircuitBreaker` is the breaker one would write down first: a success or a new
breaker closes it, the failure that reaches the threshold opens it, in one step.
Without callers `McpManager` implements it (`ImplementsBreaker`): the first of
the two atomics takes the abstract circuit where the second takes the concrete
one.  With callers it does not; what remains is `mcp_liveness`.

### Investments

A request reads outside its transaction and commits later: `BeginDeposit` /
`CommitDeposit`, `BeginRedeem` / `ReadAgent` / `CommitRedeem`, `BeginSweep` /
`ReadAgentForSweep` / `ChargeNext` (one transaction for each investment).
`Abort` is a failure at any point: `Store.Tx` rolls back, so what the
transaction wrote is not there.  Transactions are atomic: they only write rows
no other transaction reads inside its own.  Shares are integers in units of
`1/Scale` (the column is `NUMERIC(18,8)`); int64 arithmetic wraps.  Shares
beyond what the column can hold are not modelled; the row of the agent exists
throughout.

### Agent service

A request reads (`Begin...`: the agent, its owner, the status) and writes later.
`Update` is a transaction of several statements: `LockRow` (`UpdateAgent`, which
takes the lock of the row until the end), `ListBindings`, and `CommitUpdate`
(unbind, bind, commit; nobody sees the single statements).  `Create` is one step
since nobody sees its row before the commit.  `Refuse` is a statement that finds
no row or is stopped by a foreign key, `Abort` any other failure, with
`Store.Tx`'s rollback.  A configuration is abstracted to the set of servers that
came with it, which is what can disagree with another table.  Locking,
visibility and foreign keys are PostgreSQL's, as `migrations/001_init.sql` and
READ COMMITTED have them.  The engine and the investment service appear as
`RiskPause` and `Use`.  `RiskPause` pauses a row whatever its status is, also one
that was never started: `StartAgent` of the engine does not look at the status,
and the UPDATE of engine.go:481 has no condition on it.  A request that is given
up while its last statement is under way is, to the row, a request that goes on:
`Abort` is the outcome in which nothing is executed.

### Authentication and listing

`Auth` counts time in ticks.  `verify` holds the `VerifySIWE` calls under way: a
call begins with `GetDel`, which reads and deletes the nonce in one Redis
command, and ends with `issueJWT` or, when the connection or the process fails
in between, with `Abandon`.  The same message may be posted by several requests.
A signature stands for who made it; one that does not verify reads nothing.
`tokens` are the tokens issued, each with its subject and its end and, for the
properties, with the nonce that bought it.

In `Listing` a client asks for page after page.  `JWTMiddleware` checks the
token, `List` is one query for one row more than the page holds and makes the
time of that row the next cursor.  Rows of equal time come in any order, agents
are created and deleted between pages, and `created_at` is the beginning of a
transaction that may commit up to `MaxCreate` ticks later.  `client` keeps the
history the properties are about: the pages so far, the cursors so far, and the
agents that were there all the time (`always`).

## 3. Runs

All with TLC; each passing run ends within a few minutes.

| Run | Shows |
|---|---|
| `cycle` | one cycle for every combination of limits off and just passed, and all just kept: a decision is the conjunction of the limits (`ApprovedIffWithinLimits`) and is returned only when its event is stored (`ReturnedDecisionIsLogged`); the model is asked only if the fast path's conditions do not decide (`FastPathDecides`), each of its calls gets its one answer and its one record (`CallsAnswered`), and what risk control decides on is what the model asked for (`TradesAsAsked`) |
| `engine_faults` | two loops, services that rewrite and delete the row, contexts that end by themselves, one statement executed late, and a failing call, a panic or a crash, each anywhere: at most one loop is live (`AtMostOneLiveLoop`), and a live one is the one the map names (`LiveIsRegistered`); of a cancelled loop nothing more comes than the one statement under way (`CancelledLoopsAreSpent`); a loop that risk control pauses is cancelled, whatever the database answers and whoever is registered (`RiskPauseStops`); no trade is counted or logged without its `trade_approved` event (`TradesAudited`), an agent that was deleted has never traded (`DeletedNeverTraded`), `agent_cycles` has no gap below the persisted number (`HistoryComplete`) |
| `engine_loop` | one loop that trades through two cycles of two rounds of two calls, under two configurations: no trade passes the hourly or the position limit the loop was started with although each decision only sees one trade (`LimitsKept`); a cycle ends (`CycleTerminates`), a cancelled loop returns (`StoppedLoopExits`) |
| `engine_restore` | two agents on the list of `RestoreAgents`, one failure, the end of the context, deletions and starts by others at any point: each agent has its turn (`RestoreCompletes`) |
| `mcp_alone` | health checks without callers, stopped, cancelled and started again at any point, whose updates may fail or come late: they keep circuit and count consistent and leave no probe behind (`BreakerConsistent`), publish an open circuit unless an update was lost (`OpenIsPublished`), open it after three failures in a row (`ThreeStrikesOpen`), and implement `CircuitBreaker` (`ImplementsBreaker`) |
| `mcp_liveness` | with a caller racing the health checks, what the races leave behind heals (`OpenIsProbed`, `Recovers`, `StaleCountHeals`) |
| `agent_service` | three requests on one agent, each able to fail at any statement: bindings are those of the request that wrote the configuration (`BindingsAreConfigured`), the requests do to the row what `AgentRow` says (`ImplementsAgentRow`), no lock is left behind (`RequestsReturn`) |
| `session` | two nonces, log-ins that overlap, tokens that expire, a client that pages while agents come and go: a nonce buys one token, in time (`OneTokenPerNonce`), only a token's holder is answered and with its own rows (`AnswersAreAuthorized`), nothing is listed twice (`PagesDescend`), what a traversal misses has the time of a cursor (`ListedOrAtCursor`) |
| `invest_serial` | requests that do not overlap, with failures: AUM is what the ledger adds up to and the investor count is right (`BooksBalance`), nobody is paid from nothing (`Solvent`), a fee never eats into the deposit (`FeeSparesPrincipal`, proved for overlapping requests as well), and the service implements `Fund` (`ImplementsFund`) |

Each run that names a `TypeOK` checks it too.  Three runs show a sentence of the
repository that the code does not keep (`findings` in `PROJECT.json`):

| Run | Statement | What happens |
|---|---|---|
| `engine_lost_log` | engine.go:163 "Persist state and cycle log regardless of error" | the two writes use the loop's context; if it is over during the cycle (a pause, also the loop's own risk pause, a replacement, a stop, or the end of the context `StartAgent` was called with) both calls fail |
| `engine_clock` | risk.go:145 the limit is on the hourly trade count | `HourlyTradeCount` is persisted and never reset; a trade is refused in an hour that has seen none |
| `invest_twice` | invest.go:157 "All operations run inside a single database transaction" | the status check does not; two overlapping redemptions both pay |

**Bounds.**

- *Engine.*  Two loops are the least for a replacement, and every property
  relates at most two (the proofs cover any number); one agent, because agents
  share nothing but the engine's lock, `stopCh` and the context of
  `RestoreAgents`.  In `engine_faults` a cycle has one round of one call and
  cycle numbers stop at one: what the run is about is where the other loop, the
  services, the end of a context, the fault, the late statement and the crash
  fall, each of which is placed at every possible step; a behaviour has the
  fault or the crash (`MaxTroubles`), the proofs have any number of both.  A
  replacing loop repeats the cycle if the replaced one did not persist its number
  in time.  A daily loss of 1 makes risk control pause the agent, one of 0 lets it
  trade.
- *The limits* need sequences of trades and no second loop, since they are those
  of a loop's own copy and state.  `engine_loop` has one loop, two cycles of two
  rounds of two calls, so up to eight trades, without and with a daily loss.
  Under the first configuration (two trades an hour, a position of half of an AUM
  of 4) a BUY of 2 fills the position and the second trade the hour, so that a
  BUY after a BUY is refused by the one limit and a third trade by the other; a
  SELL makes the other pair negative.  Under the second (one trade, an AUM of 8)
  the hour binds first.  The row may change from one to the other while the loop
  runs.  The run has a mutant for either limit.
- *Restoring* needs a list: `engine_restore` has two agents, two loops, one
  fault, and no cycles.  `Stuck` is where that instance ends: no loop is left for
  the agent.
- *Cycle.*  Two rounds of up to two calls, three in all: two answers, and calls
  before and after the one at hand.  Two servers provide a tool of one name, one
  tool is provided by nobody.  `MaxInt64` is 7 so that positions overflow, and
  the table of floats rounds one amount and takes another past `MaxInt64`.  Each
  limit is off or just passed in every combination, and all are just kept.
- *MCP manager.*  One caller is enough to race the health check; the threshold is
  the code's.  `mcp_alone` has `DbMayFail`, `mcp_liveness`, which says nothing of
  the database, has not.
- *Agent service.*  Three requests on one agent are two transactions and one
  that waits for or overtakes them.
- *Session.*  `List` asks for one row more than the page: a page of one row and
  three agents are two pages and the row between them.  The instance has
  `MaxLimit` 1 and `DefaultLimit` 2, so both ways `PageSize` goes are taken.
  Four ticks with times to live of one let nonces and tokens expire in the
  middle.
- *Investments.*  Three investments and two amounts give dilution, rounding (a
  `Scale` of 100) and profit; two requests, in `invest_twice`, are the least that
  overlap.
  `MaxInt64` is never reached there: what overflow does is left to the proofs of
  `OverlapProofs`.

**Deadlock** is checked in the MCP runs.  In the others behaviours end because
the bounds are used up (cycles, loops, agent ids, nonces, time, investments,
sweeps) or, for `cycle`, because the cycle is over.

**Fairness.**  Go schedules a runnable goroutine eventually: weak fairness of
`RunCycle`, `InstallLoop` and `Restoring`.  `ExitLoop` has strong fairness: a
loop whose select has both the ticker and a closed channel ready may pick the
ticker once more, and Go's select chooses at random.  Nothing is assumed about
the API, the model's answers, the ends of contexts, late statements, faults or
crashes.  In `McpManager` the ticker goes on firing (weak fairness of the health
check) as long as the checks are started, not stopped and their context is
alive, which the properties state (`Checking`), and a call that was sent is
answered (requests have a timeout).  In `AgentService` a request goes on; one
that waits for a row's lock is granted it in the end although others take it in
between (strong fairness, since PostgreSQL queues the waiters).  The other
modules state safety only.

## 4. Observations without a run

Met while modelling and visible in the models, not kept as runs:

- Two cycles of an agent may get one number: `StartAgent` reads the persisted
  state before it stops the old loop (engine.go:671, 684).  For the same reason
  the trades of an unfinished cycle are forgotten by the loop that replaces it,
  and the hourly limit may be passed by the agent, not by a loop.
- A state that was under way to the database when its loop was cancelled may be
  written after the next loop has loaded its own, and even after that one has
  persisted: it takes the agent's cycle number, counts and holdings back
  (engine.go:573).
- A loop whose context ends with its caller's (the request that called
  `StartAgent`, the context of `RestoreAgents`) stops, and nobody is told: its
  entry stays in `agents`, it counts in `RunningAgentCount`, its ticker runs, and
  the database says "running" (engine.go:673).
- The context is cancelled before the ticker is stopped, and a select may take a
  tick that is due although the context is over (engine.go:686-687, 787-793): a
  last cycle then raises the cycle number and persists nothing.
- A loop goes on with the AUM and the risk parameters it was started with:
  deposits, redemptions and updates reach it at its next start (engine.go:439).
  Deleting or pausing an agent in the service does not stop its loop.
- A risk pause runs under the loop's context.  When the loop was replaced in the
  meantime, `UpdateAgentStatus` fails, and `PauseAgent` stops the new loop: the
  agent is paused in memory and "running" in the database (engine.go:481-487).
- Neither `StartAgent` nor the risk pause looks at the agent's status: an agent
  that was never started through the service may run, and may be paused.
- A loop that panics stays in `agents` and in `RunningAgentCount`
  (engine.go:764, 777).
- The risk chain stops at its first violated rule: a trade above the maximum
  amount hides that the daily loss asks for a pause (risk.go:100).  A SELL is
  refused for the position it would lower, and a position beyond int64 passes
  (risk.go:137).
- Arguments that do not parse become an empty object and their error is dropped
  (llm.go:298): a tool is then called without its arguments, a trade is refused
  as one without an action.  An amount beyond 2^53 is rounded on its way.  An
  action other than BUY and SELL passes risk control, counts as a trade and
  moves no holdings (engine.go:497).
- Two bound servers with a tool of one name: both are offered to the model, and
  the one that comes later in an unordered query gets the calls (engine.go:592).
- `List` takes its cursor from the first row of the next page and then asks for
  strictly older ones, so this row is on no page, nor are others of its time
  (agent.go:275).
- `CallTool` and `Connect` refuse only an open circuit, so that several calls
  pass a half-open one, which mcp.go:182 describes as "allow one call to test
  recovery".
- With callers, a success between the two atomics of a failure leaves a closed
  circuit with a full count (healed later: `StaleCountHeals`), and a successful
  call between failed checks resets their count (mcp.go:219-232).  A server
  whose circuit a caller closed, or that was open at a restart, stays
  "unavailable" in the database (mcp.go:469).
- A health check whose context ends fails, and counts as a failure of the server.
  If it is the third, the circuit opens, and the update that says so runs under
  the same context and is never sent: the circuit is open and the database says
  "active" (mcp.go:455-466), until the next check settles both.
- Overlapping deposits lose one of the two AUM updates (invest.go:92).  A second
  deposit does not dilute the share of the first, so that a profit share is
  charged where nothing was earned (invest.go:188).

## 5. Proofs

The theorems hold for all constants that satisfy the `ASSUME`s of the modules
(types, positive bounds, `None` being nobody, finitely many pairs in the map
`Holdings`), and for the assumptions named below.  Those without a property of
a run say what a run would hardly add to, or what links two models.

`EngineProofs`

| Theorem | Statement |
|---|---|
| `TypeCorrect` | `Spec => []TypeOK` |
| `Registered` | `Spec => []LiveIsRegistered` |
| `OneLiveLoop` | `Spec => []AtMostOneLiveLoop` |
| `RiskPauseHolds` | `Spec => RiskPauseStops` |
| `CancelledLoopsStaySpent` | `Spec => CancelledLoopsAreSpent` |
| `TradesHaveEvents` | `Spec => []TradesAudited` |
| `DeletedAgentsNeverTrade` | `Spec => []DeletedNeverTraded` |
| `CycleLogKeepsUp` | `Spec => []HistoryComplete` |
| `HourlyLimitHolds` | `Spec => []HourlyLimits`: `LimitsKept`, its hourly part |
| `EngineKeepsRow` | `Spec => [][RowStep]_(Row!vars)`: the engine refers to a row or pauses the agent, from the agent's registered loop or by a statement sent before its loop's context ended, and does nothing else to it |
| `RestoreGoesOn` | `Spec => []RestoreWaits /\ [][RestoreStep]_vars`: the core of `RestoreCompletes` |

`TypeOK` is not inductive: `round` and `calls` stay in range only because of
where the goroutine is, so `TypeInv` adds that, and that only a loop at a call of
the database has a statement under way.  `DbStepNext` says once what a step can
do to the database: leave statements behind, execute one that is late, execute
the one of a live loop, or be the services'; the theorems about the rows go
through these four cases.

`LiveIsRegistered` is inductive relative to `TypeInv`, in one direction only:
whoever starts, pauses or stops finds the live loop in the map and cancels it,
and contexts that end by themselves only make fewer live.  It is why at most one
loop is live, and why a risk pause stops the loop that asked for it: either it is
the registered one and is cancelled, or it was not live to begin with.
`CancelledLoopsStaySpent` looks at each step of a loop whose context is over: its
calls fail and send nothing, so that no trade is approved, and only a `sent` from
before can go to `late`.  `TradesAudited` counts the approved trade between its
event and its execution (`Pending`), and that between its event and its row of
`trade_logs`.  `DeletedNeverTraded` rests on `UsedRow`: a row with an approval is
in use, and a row in use is not deleted.  `HistoryComplete` needs that every loop
that can still persist (about to be registered, or live), and every late state,
has rows for all cycles it counts but a loop's current one, which it has from
`persistState` on; a loop that loaded an old state, one that was cancelled in
between, and a state that is executed when its loop is long gone are the cases
the invariant is about.  `HourlyLimitHolds` adds that the state of a loop does
not move between decision and execution.  `EngineKeepsRow` and
`RequestsImplementRow` are the two halves of an assume/guarantee argument about
the row: each module takes the other's steps to be those of `AgentRow`, and each
is shown to take only such steps itself.  `RestoreGoesOn`: the loop
`RestoreAgents` is starting always waits to be installed, so that every step
comes to an agent of the list, loads it, registers its loop or gives it up, until
a crash.

`LimitProofs`

| Theorem | Statement |
|---|---|
| `LimitsHold` | `AmountsFit(M)`: `Spec => []LimitsKept`, the hourly and the position limit |
| `BudgetHolds` | `Spec => []CycleBudget`: a state counts at most `MaxToolCallRounds * MaxCalls` trades for each of its cycles |
| `CycleStepsBounded` | `Spec => [][CycleProgress]_vars`: the core of `CycleTerminates` |
| `LoopsImplementControl` | for every loop `l`: `Spec => Control(l)!Spec`, the control being `CycleControl` |

The rule on the position computes `100 * (position + amount)` in an int64 that
wraps, so the limit holds only for amounts that keep the sum in range:
`AmountsFit(M)` says that no trade moves more than `M` and that the trades all
cycles can make, at `M` each, fit.  `MCEngine` assumes it with `M = 2`, so TLC
evaluates it for the instances of the runs.  `CycleBudget` bounds the trades (the
calls a loop may still handle in its cycle are counted in advance),
`PositionInv` bounds the position by `M` for each trade, and with both the
rule's sum does not wrap; a SELL and an approved BUY move the sum over the pairs
by one term.  `currentPosition` is a fold, a recursive function over a set.
That such a function exists and what it returns is by induction over finite
sets; it is done by forming the set of sizes up to which the statement holds and
taking a smallest counterexample, since the library's induction rules take an
operator and cannot be used.  `CycleStepsBounded`: `Rank` counts the steps a
cycle can still take, every step of `RunCycle` lowers it, and no other step, of
whomever, raises it, but for the begin of the loop's next cycle.

`LoopsImplementControl` maps `log`, `pauseDB` and `pause` to the place where a
call is handled, and everything from `persistLog` to the next cycle to the place
between cycles, where the counts read zero; it needs that no call is left over
when the model is asked (`CountsReset`).  Steps of other loops, of requests and
of the operator are stutters of it, a panic or a crash is its `End`.

`CycleProofs`, of `CycleSpec`

| Theorem | Statement |
|---|---|
| `CycleInvariant` | `CycleSpec => []CycleInv` |
| `ApprovalsAreRight` | `CycleSpec => []ApprovedIffWithinLimits` |
| `DecisionsAreStored` | `CycleSpec => []ReturnedDecisionIsLogged` |
| `FastPathIsRight` | `CycleSpec => []FastPathDecides` |
| `TradesAreAsAsked` | `CycleSpec => []TradesAsAsked` |
| `EveryCallAnswered` | `CycleSpec => []CallsAnswered` |
| `CycleTypeCorrect` | `CycleSpec => []CycleTypeOK` |
| `RulesDecideAsChain` | a decision that was returned is `ValidatePure` of the trade |
| `CycleImplementsControl` | `CycleSpec => Control!Spec`, the control being `CycleControl` |

`CycleInv` holds the types of the conversation, that the pending calls are the
last ones asked and in order, so that the calls done are exactly those with a
record (`Counters`), and that risk control, while it runs, works on the trade of
the call at hand (`Risking`, `RuleLoop`).  `AnswerInv` says for each call of each
message whether its answer is in its place already or where it will be; the
place of a pending call is fixed by how many are done.  `VerdictInv`,
`FastInv` and `NamesInv` add what has been decided, what has been read, and which
calls are named, up to now.  For `RulesDecideAsChain`, `RuleLoop` says that no
rule before the current one was violated, so a rejection is that of the first
violated rule, as in `ValidatePure`.

`CycleImplementsControl` maps the steps of the fast path to the preparation and
those of risk control to the handling of a call; a call's verdict adds at most
one to the approved trades.  It is the counterpart of `LoopsImplementControl`:
what one model leaves out, the conversation there, the other loops and crashes
here, does not change the rounds, the calls and the trades of the other.  In
`Cycle` they are the approved decisions, in `Engine` the trades the loop's state
counts.

`McpProofs`

| Theorem | Statement |
|---|---|
| `TypeCorrect` | `Spec => []TypeOK` |
| `ChecksKeepBreakerConsistent` | no callers: `Spec => []BreakerConsistent` |
| `ChecksPublishOpen` | no callers: `Spec => []OpenIsPublished` |
| `ThreeStrikes` | no callers: `Spec => ThreeStrikesOpen` |
| `ChecksImplementBreaker` | no callers: `Spec => ImplementsBreaker` |
| `ClientsHaveBreakers` | any callers: `Spec => []BreakersExist`: who has found a client has its breaker |
| `ReconnectsKeepBreaker` | any callers: `Spec => [][BreakerStep]_vars`: only recorded outcomes, a probe and a restart change a breaker |

The invariant says of each place of the health check what circuit, count and
`seen` may be there.  That there are no callers is needed: with one, the two
atomics may disagree for a while.  The last two hold with callers.  They are why
the model leaves out the branches for a missing breaker (`cb != nil`, mcp.go:318,
355, 441), and say that registering a server or connecting to it again does not
reset the breaker it has: a breaker that `CreateClient` or `Register` makes
replaces none.

`AgentServiceProofs`, for any agents, servers and number of requests

| Theorem | Statement |
|---|---|
| `TypeCorrect` | `Spec => []TypeOK` |
| `BindingsStay` | `Spec => []BindingsAreConfigured` |
| `RequestsImplementRow` | `Spec => ImplementsAgentRow` |
| `NoOrphanLocks` | `Spec => []LocksAreHeld`: the holder of a row's lock is a transaction under way |
| `RequestStatementsBounded` | `Spec => [][RequestProgress]_vars`: each statement leaves its request fewer to execute; with the above, the core of `RequestsReturn` |

The invariant adds that a transaction past its first statement holds the row's
lock and that the bindings it has listed are still the current ones, so
unbinding those and binding the new ones leaves exactly the new ones.

`ListingProofs`, for any users, agents, page sizes and times to live

| Theorem | Statement |
|---|---|
| `TypeCorrect` | `Spec => []TypeOK` |
| `NoncesBuyOnce` | `Spec => []OneTokenPerNonce` |
| `AnswersAuthorized` | `Spec => []AnswersAreAuthorized` |
| `EachPageIsOlder` | `Spec => []PagesDescend` |
| `ListMissesOnlyTies` | `Spec => []ListedOrAtCursor` |

A nonce that is spent is not stored and is held by one request or one token,
never both.  Everything a client has seen is at least as new as its cursor, and
everything that was there all the time and is at least as new was seen or has
the time of a cursor; a page takes a whole segment of what is older.

`InvestProofs`, for every precision, share of the profit and set of positive
amounts, under two assumptions: requests do not overlap (`Serial`: one request)
and the sums fit an int64 (`Fits`).

| Theorem | Statement |
|---|---|
| `SerialBooks` | `Spec => []BooksBalance` |
| `SerialSolvent` | `Spec => []Solvent` |
| `SerialFund` | `Spec => ImplementsFund` |

The invariant says that rows have the right shape, that shares are at most one
(`Scale`), that AUM and ledger agree and are within the bound the number of
investments allows, and that a request which has read the AUM holds its current
value.  The fee being at most the value, and the value at most the AUM, is what
keeps the clamp at zero from ever hiding a shortfall.  That the count is right
is a fact about cardinalities: one more or one less active investment.

`OverlapProofs`, for any number of overlapping requests

| Theorem | Statement |
|---|---|
| `TypeCorrect` | `Spec => []TypeOK`, overflow included |
| `FeesSparePrincipals` | finitely many requests, sums that fit: `Spec => []FeeSparesPrincipal` |

AUMs that were read long ago break the books, but not the fee: a stale AUM is
still at most what the number of rows allows, so that nothing computed from it
wraps, and the fee is a part of the profit whatever the AUM was.  The bound
counts the deposits under way, whence the finite number of requests.  Without
`Fits` the last theorem is false: with `MaxInt64` 1000 and the amounts 10 and
600, TLC finds a fee that eats into a deposit, from a computation that wrapped
around.

**Model-checked only.**  Liveness under fairness is out of the prover's reach:
`CycleTerminates`, `StoppedLoopExits`, `RestoreCompletes`, `OpenIsProbed`,
`Recovers`, `StaleCountHeals` and `RequestsReturn`.  For `CycleTerminates`,
`RestoreCompletes` and `RequestsReturn` the theorems have the safety part, that
work only gets less and that nothing waits for what cannot come; what is left to
TLC is that the fair steps are enabled and are therefore taken.  The invariants, the
action properties and the refinements of the passing runs are all proved, under
the assumptions named above.

## 6. Not modelled

- *Library code*: signatures, the formats of messages and tokens (a message
  stands for what it says and who signed it), HTTP, JSON but for the amounts.
- *In a cycle*: the wording of prompts and of tool results, token counts, the
  regular expression of `TryParse`, an indicator that reads NaN (it compares with
  nothing), amounts with a fraction (they do not decode and are one more
  malformed argument).
- *Configuration, HTTP handlers of investments and MCP, wiring*: they decode a
  request, call one operation and encode its result; they keep no state.
- *Pure reads*: `GetPortfolio`, `Get`, `GetToolDefinitions`, the MCP handler's
  list.
- *Generated queries* are modelled where their text decides something (the
  cursor, `DeleteAgent`, the status updates, `ListAgentMCPServers`).
- The empty packages `api`, `observe` and `ws` have nothing to model.

## 7. Plan

1. The row of an agent with investments: AUM written by overlapping deposits
   while loops copy it, as a composition of `Invest` and `Engine` over
   `AgentRow`.
2. Two MCP servers and the bindings an update changes while a cycle routes to
   them (`Cycle` takes the servers as fixed for its length, as the code does).
3. What a restart leaves of the pair status and state, as a refinement of an
   abstract agent that is running or paused.
