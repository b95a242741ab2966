----------------------------- MODULE McpManager -----------------------------
(***************************************************************************)
(* internal/mcp/mcp.go for one MCP server: its registration, its client,   *)
(* its circuit breaker, its status in the database, the callers of         *)
(* CallTool and Connect and the health-check goroutine, of which there is  *)
(* at most one.  CircuitBreaker is what the breaker promises.              *)
(*                                                                         *)
(* The breaker is two atomics, `state` and `failures`.  Each Load, Store,  *)
(* Add and CompareAndSwap is a step of its own; RecordSuccess and          *)
(* RecordFailure are sequences of them that interleave with the others'.   *)
(*                                                                         *)
(* All counts from FailureThreshold on behave alike, so `failures` stops   *)
(* there.                                                                  *)
(***************************************************************************)
EXTENDS Integers, FiniteSets

CONSTANTS Callers,            \* goroutines that use the manager
          Checker,            \* the health-check goroutine
          FailureThreshold,
          DbMayFail           \* updates may fail or come late under a context that is alive

ASSUME CheckerAssumption == Checker \notin Callers
ASSUME ThresholdAssumption == FailureThreshold \in Nat \ {0}
ASSUME DbMayFailAssumption == DbMayFail \in BOOLEAN

Procs == Callers \cup {Checker}

VARIABLES
    state, failures,     \* the circuit breaker
    breaker, client,     \* m.breakers and m.clients have an entry
    dbStatus,            \* mcp_servers.status, "none" before the row exists
    late,                \* updates of it given up on, which PostgreSQL may yet execute
    inDoubt,             \* history: since this process's last update that succeeded,
                         \* one failed or came late
    stopped,             \* stopCh is closed
    done,                \* the context of the health checks is done
    up,                  \* the server answers (environment)
    pc,                  \* where each goroutine is
    seen,                \* the circuit state a goroutine has loaded
    streak               \* history: health checks failed in a row, up to the threshold

cbVars  == <<state, failures>>
mapVars == <<breaker, client>>
dbVars  == <<dbStatus, late, inDoubt>>
stopVars == <<stopped, done>>
vars    == <<cbVars, mapVars, dbVars, stopVars, up, pc, seen, streak>>

CircuitState == {"closed", "open", "half-open"}

\* Steps of RecordSuccess and RecordFailure still to be taken.
Recording == {"reset", "close", "add", "trip"}
CallerPCs  == {"idle", "create", "check", "sent"} \cup Recording
CheckerPCs == {"off", "idle", "look", "cas", "probe", "dbActive", "load", "dbDown"} \cup Recording

\* A new process: empty maps, over a database an earlier one may have written.
Init ==
    /\ state = "closed" /\ failures = 0
    /\ client = FALSE /\ breaker = FALSE
    /\ dbStatus \in {"none", "active", "unavailable"}
    /\ late = {} /\ inDoubt = FALSE
    /\ stopped = FALSE /\ done = FALSE
    /\ up \in BOOLEAN
    /\ pc = [p \in Procs |-> IF p = Checker THEN "off" ELSE "idle"]
    /\ seen = [p \in Procs |-> "closed"]
    /\ streak = 0

Goto(p, label) == pc' = [pc EXCEPT ![p] = label]

-----------------------------------------------------------------------------
(* The breaker.                                                            *)

Bump(n) == IF n < FailureThreshold THEN n + 1 ELSE n

\* Mutant: the count is not reset.
MutResetFailures(p) ==
    /\ pc[p] = "reset"
    /\ Goto(p, "close")
    /\ UNCHANGED <<cbVars, mapVars, dbVars, stopVars, up, seen, streak>>

\* RecordSuccess: failures.Store(0), then state.Store(CircuitClosed).
ResetFailures(p) ==
    /\ pc[p] = "reset"
    /\ failures' = 0
    /\ Goto(p, "close")
    /\ UNCHANGED <<state, mapVars, dbVars, stopVars, up, seen, streak>>

StoreClosed(p) ==
    /\ pc[p] = "close"
    /\ state' = "closed"
    /\ Goto(p, "idle")
    /\ UNCHANGED <<failures, mapVars, dbVars, stopVars, up, seen, streak>>

\* Only the health check uses the state RecordFailure returns.
AfterFailure(p) == IF p = Checker THEN "load" ELSE "idle"

\* Mutant: the circuit opens one failure late.
MutTrips(n) == n > FailureThreshold

Trips(n) == n >= FailureThreshold

\* RecordFailure: failures.Add(1), then state.Store(CircuitOpen) if the count
\* it returned has reached the threshold.
AddFailure(p) ==
    /\ pc[p] = "add"
    /\ failures' = Bump(failures)
    /\ Goto(p, IF Trips(failures') THEN "trip" ELSE AfterFailure(p))
    /\ UNCHANGED <<state, mapVars, dbVars, stopVars, up, seen, streak>>

StoreOpen(p) ==
    /\ pc[p] = "trip"
    /\ state' = "open"
    /\ Goto(p, AfterFailure(p))
    /\ UNCHANGED <<failures, mapVars, dbVars, stopVars, up, seen, streak>>

Record(p) == ResetFailures(p) \/ StoreClosed(p) \/ AddFailure(p) \/ StoreOpen(p)

-----------------------------------------------------------------------------
(* Callers.                                                                *)

\* An answer needs the server; an error needs nothing: it may be the tool's
\* own, a malformed response, a timeout or a cancelled context.
rpc(answered) == answered => up

\* CallTool's look-up; without a client it returns ErrNotFound.
CallTool(c) ==
    /\ pc[c] = "idle" /\ client
    /\ Goto(c, "check")
    /\ UNCHANGED <<cbVars, mapVars, dbVars, stopVars, up, seen, streak>>

\* Register inserts the row, then fills both maps with a fresh client and a
\* fresh breaker.  Nobody knows the server's id before it returns.
Register ==
    /\ dbStatus = "none" /\ dbStatus' = "active"
    /\ client' = TRUE /\ breaker' = TRUE
    /\ state' = "closed" /\ failures' = 0
    /\ UNCHANGED <<late, inDoubt, stopVars, up, pc, seen, streak>>

\* Connect's look-up; without a client it reads the server from the database
\* and creates one, with a breaker if there is none.
Connect(c) ==
    /\ pc[c] = "idle"
    /\ Goto(c, IF client THEN "check" ELSE "create")
    /\ UNCHANGED <<cbVars, mapVars, dbVars, stopVars, up, seen, streak>>

CreateClient(c) ==
    /\ pc[c] = "create"
    /\ \/ /\ dbStatus # "none"
          /\ client' = TRUE /\ breaker' = TRUE
          /\ IF breaker THEN UNCHANGED cbVars ELSE state' = "closed" /\ failures' = 0
          /\ Goto(c, "check")
       \/ Goto(c, "idle") /\ UNCHANGED <<cbVars, mapVars>>
    /\ UNCHANGED <<dbVars, stopVars, up, seen, streak>>

\* An open circuit answers ErrServerUnavailable, any other sends the request.
CheckCircuit(c) ==
    /\ pc[c] = "check"
    /\ seen' = [seen EXCEPT ![c] = state]
    /\ Goto(c, IF state = "open" THEN "idle" ELSE "sent")
    /\ UNCHANGED <<cbVars, mapVars, dbVars, stopVars, up, streak>>

\* The tool's answer, or Connect's health check.
Respond(c) ==
    /\ pc[c] = "sent"
    /\ \E answered \in BOOLEAN :
           rpc(answered) /\ Goto(c, IF answered THEN "reset" ELSE "add")
    /\ UNCHANGED <<cbVars, mapVars, dbVars, stopVars, up, seen, streak>>

\* Disconnect drops the client and keeps the breaker.
Disconnect ==
    /\ client' = FALSE
    /\ UNCHANGED <<cbVars, breaker, dbVars, stopVars, up, pc, seen, streak>>

-----------------------------------------------------------------------------
(* The health checks.                                                      *)

\* With a context of its own.
StartHealthChecks ==
    /\ pc[Checker] = "off"
    /\ Goto(Checker, "idle")
    /\ done' = FALSE
    /\ UNCHANGED <<cbVars, mapVars, dbVars, stopped, up, seen, streak>>

Stop ==
    /\ stopped' = TRUE
    /\ UNCHANGED <<cbVars, mapVars, dbVars, done, up, pc, seen, streak>>

\* The context ends, in the middle of a check or between two.
CancelChecks ==
    /\ done' = TRUE
    /\ UNCHANGED <<cbVars, mapVars, dbVars, stopped, up, pc, seen, streak>>

\* The goroutine selects ctx.Done() or stopCh; a tick that is due may be
\* selected first.
ExitChecks ==
    /\ pc[Checker] = "idle" /\ (stopped \/ done)
    /\ Goto(Checker, "off")
    /\ UNCHANGED <<cbVars, mapVars, dbVars, stopVars, up, seen, streak>>

\* The ticker fires and the snapshot of the servers holds this one.
Tick ==
    /\ pc[Checker] = "idle" /\ client
    /\ Goto(Checker, "look")
    /\ UNCHANGED <<cbVars, mapVars, dbVars, stopVars, up, seen, streak>>

\* The client may be gone by now; otherwise state := cb.State().
\* Mutant: open circuits are not probed.
MutLook ==
    /\ pc[Checker] = "look"
    /\ seen' = [seen EXCEPT ![Checker] = state]
    /\ Goto(Checker, IF client /\ state # "open" THEN "probe" ELSE "idle")
    /\ UNCHANGED <<cbVars, mapVars, dbVars, stopVars, up, streak>>

Look ==
    /\ pc[Checker] = "look"
    /\ IF client
       THEN /\ seen' = [seen EXCEPT ![Checker] = state]
            /\ Goto(Checker, IF state = "open" THEN "cas" ELSE "probe")
       ELSE Goto(Checker, "idle") /\ UNCHANGED seen
    /\ UNCHANGED <<cbVars, mapVars, dbVars, stopVars, up, streak>>

TryHalfOpen ==
    /\ pc[Checker] = "cas"
    /\ IF state = "open"
       THEN state' = "half-open" /\ Goto(Checker, "probe")
       ELSE Goto(Checker, "idle") /\ UNCHANGED state
    /\ UNCHANGED <<failures, mapVars, dbVars, stopVars, up, seen, streak>>

\* HealthCheck with its own deadline; it fails when the server is down or the
\* context of the checks is done.
Probe ==
    /\ pc[Checker] = "probe"
    /\ \/ /\ rpc(TRUE)
          /\ streak' = 0
          /\ Goto(Checker, IF seen[Checker] = "closed" THEN "reset" ELSE "dbActive")
       \/ /\ ~up \/ done
          /\ streak' = Bump(streak)
          /\ Goto(Checker, "add")
    /\ UNCHANGED <<cbVars, mapVars, dbVars, stopVars, up, seen>>

\* Mutant: the circuit's state is stored.
MutUpdateStatus(s) == dbStatus' = state /\ UNCHANGED <<late, inDoubt>>

\* UpdateMCPServerStatus, whose error is dropped.  Under a context that is done
\* nothing is sent.  One that is sent may fail, and if that is for its context
\* or its connection, PostgreSQL may execute it all the same, now or later.
UpdateStatus(s) ==
    \/ ~done /\ dbStatus' = s /\ inDoubt' = FALSE /\ UNCHANGED late
    \/ done /\ inDoubt' = TRUE /\ UNCHANGED <<dbStatus, late>>
    \/ /\ ~done /\ DbMayFail
       /\ late' \in {late, late \cup {s}}
       /\ inDoubt' = TRUE /\ UNCHANGED dbStatus

\* Mutant: the success is not recorded.
MutMarkActive ==
    /\ pc[Checker] = "dbActive"
    /\ UpdateStatus("active")
    /\ Goto(Checker, "idle")
    /\ UNCHANGED <<cbVars, mapVars, stopVars, up, seen, streak>>

MarkActive ==
    /\ pc[Checker] = "dbActive"
    /\ UpdateStatus("active")
    /\ Goto(Checker, "reset")
    /\ UNCHANGED <<cbVars, mapVars, stopVars, up, seen, streak>>

\* Mutant: the status is changed for the wrong outcome.
MutLoadState ==
    /\ pc[Checker] = "load"
    /\ Goto(Checker, IF state = "half-open" THEN "dbDown" ELSE "idle")
    /\ UNCHANGED <<cbVars, mapVars, dbVars, stopVars, up, seen, streak>>

\* newState := RecordFailure()
LoadState ==
    /\ pc[Checker] = "load"
    /\ Goto(Checker, IF state = "open" THEN "dbDown" ELSE "idle")
    /\ UNCHANGED <<cbVars, mapVars, dbVars, stopVars, up, seen, streak>>

MarkUnavailable ==
    /\ pc[Checker] = "dbDown"
    /\ UpdateStatus("unavailable")
    /\ Goto(Checker, "idle")
    /\ UNCHANGED <<cbVars, mapVars, stopVars, up, seen, streak>>

RunHealthChecks == ExitChecks \/ Tick \/ Look \/ TryHalfOpen \/ Probe \/ LoadState
                   \/ MarkActive \/ MarkUnavailable \/ Record(Checker)

-----------------------------------------------------------------------------
(* Environment.                                                            *)

ServerFlips == up' = ~up /\ UNCHANGED <<cbVars, mapVars, dbVars, stopVars, pc, seen, streak>>

\* The database executes an update nobody waits for any more.
LateUpdate ==
    /\ \E s \in late : dbStatus' = s /\ late' = late \ {s}
    /\ inDoubt' = TRUE
    /\ UNCHANGED <<cbVars, mapVars, stopVars, up, pc, seen, streak>>

\* The update under way, if any.
UnderWay == {s \in {"active", "unavailable"} :
                /\ DbMayFail /\ ~done
                /\ pc[Checker] = IF s = "active" THEN "dbActive" ELSE "dbDown"}

\* The process is restarted: the maps are empty, the database is kept and an
\* update may be under way to it.
Restart ==
    /\ client' = FALSE /\ breaker' = FALSE
    /\ state' = "closed" /\ failures' = 0
    /\ stopped' = FALSE /\ done' = FALSE
    /\ pc' = [p \in Procs |-> IF p = Checker THEN "off" ELSE "idle"]
    /\ seen' = [p \in Procs |-> "closed"]
    /\ streak' = 0
    /\ late' \in {late, late \cup UnderWay}
    /\ inDoubt' = FALSE
    /\ UNCHANGED <<dbStatus, up>>

RunCall(c) == CreateClient(c) \/ CheckCircuit(c) \/ Respond(c) \/ Record(c)

Next == \/ Register \/ Disconnect \/ StartHealthChecks \/ Stop \/ CancelChecks
        \/ RunHealthChecks \/ ServerFlips \/ LateUpdate \/ Restart
        \/ \E c \in Callers : CallTool(c) \/ Connect(c) \/ RunCall(c)

Spec == Init /\ [][Next]_vars

\* The ticker goes on firing and goroutines that can go on do.
FairSpec == Spec /\ WF_vars(RunHealthChecks) /\ \A c \in Callers : WF_vars(RunCall(c))

-----------------------------------------------------------------------------
(* Properties.                                                             *)

TypeOK ==
    /\ state \in CircuitState
    /\ failures \in 0..FailureThreshold
    /\ breaker \in BOOLEAN /\ client \in BOOLEAN
    /\ dbStatus \in {"none", "active", "unavailable"}
    /\ late \subseteq {"active", "unavailable"} /\ inDoubt \in BOOLEAN
    /\ stopped \in BOOLEAN /\ done \in BOOLEAN
    /\ up \in BOOLEAN
    /\ pc \in [Procs -> CallerPCs \cup CheckerPCs]
    /\ seen \in [Procs -> CircuitState]
    /\ streak \in 0..FailureThreshold

\* No goroutine is between its step on one atomic and its step on the other.
Settled == \A p \in Procs : pc[p] \notin {"close", "trip", "cas"}

\* The circuit is open exactly when the count has reached the threshold
\* (mcp.go:199,219,225), and half-open exactly while the health check that
\* found it open probes it: no probe leaves it behind in that state.
BreakerConsistent ==
    /\ (Settled /\ state # "half-open")
           => (state = "open" <=> failures >= FailureThreshold)
    /\ state = "half-open" => pc[Checker] \notin {"idle", "off"}

\* mcp.go:397-400 and mcp_pbt_test.go:112-113: after 3 consecutive failed
\* health checks the circuit is open.
ThreeStrikesOpen ==
    [][(LoadState /\ streak >= FailureThreshold) => state = "open"]_vars

\* A server whose circuit is open is "unavailable" in the database as well,
\* except while the health check is between opening the circuit and saying so
\* and except for an update that failed or came late: no restart, registration,
\* lost client or stop in the middle of a check leaves an open circuit that the
\* database was told is closed (mcp.go:460-476).
OpenIsPublished ==
    (state # "closed" /\ pc[Checker] \in {"off", "idle", "look", "cas", "probe"})
        => dbStatus = "unavailable" \/ inDoubt

\* Without callers the two atomics behave as one value, which a success
\* changes when it resets the count and a failure when it has counted.
Breaker == INSTANCE CircuitBreaker WITH
    circuit <- CASE pc[Checker] = "close" -> "closed"
                 [] pc[Checker] = "trip"  -> "open"
                 [] OTHER                 -> state,
    failed  <- failures

\* Health checks, registrations and restarts leave a breaker that counts
\* failures in a row and is open or probed exactly from the threshold on
\* (circuitBreaker, runHealthChecks).
ImplementsBreaker == Breaker!Spec

\* The health checks were started and nobody has stopped them.
Checking == pc[Checker] # "off" /\ ~stopped /\ ~done

\* An open circuit does not stay open untested as long as the client is there
\* and the health checks run.
OpenIsProbed == state = "open" ~> (state # "open" \/ ~client \/ ~Checking)

\* A server that answers for good is usable again and again, whatever state
\* the races of its callers left the breaker in.
Recovers == <>[](up /\ client /\ Checking) => []<>(state = "closed")

\* A closed circuit whose count says it should be open is put right by the
\* next health check.
StaleCountHeals ==
    (state = "closed" /\ failures >= FailureThreshold)
        ~> (state # "closed" \/ failures < FailureThreshold \/ ~client \/ ~Checking)
=============================================================================
