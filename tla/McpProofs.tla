------------------------------ MODULE McpProofs ------------------------------
(***************************************************************************)
(* Theorems about McpManager.  Those about the breaker are for the health  *)
(* checks alone (Alone): with callers the two atomics may disagree.        *)
(***************************************************************************)
EXTENDS McpManager, TLAPS

Alone == Callers = {}

-----------------------------------------------------------------------------
(* Types.                                                                  *)

\* The places and the circuit states of a new process.
LEMMA NewProcess ==
    /\ [p \in Procs |-> IF p = Checker THEN "off" ELSE "idle"]
           \in [Procs -> CallerPCs \cup CheckerPCs]
    /\ [p \in Procs |-> "closed"] \in [Procs -> CircuitState]
  BY DEF CallerPCs, CheckerPCs, CircuitState

LEMMA TypeInit == Init => TypeOK
  <1> SUFFICES ASSUME Init PROVE TypeOK
    OBVIOUS
  <1>1. /\ pc \in [Procs -> CallerPCs \cup CheckerPCs]
        /\ seen \in [Procs -> CircuitState]
    BY NewProcess DEF Init
  <1>2. state \in CircuitState /\ failures \in 0..FailureThreshold
    BY ThresholdAssumption DEF Init, CircuitState
  <1>3. streak \in 0..FailureThreshold
    BY ThresholdAssumption DEF Init
  <1> QED  BY <1>1, <1>2, <1>3 DEF Init, TypeOK

\* A goroutine may go to any place the program has.
LEMMA GotoType ==
    ASSUME NEW p \in Procs, NEW label \in CallerPCs \cup CheckerPCs,
           pc \in [Procs -> CallerPCs \cup CheckerPCs], Goto(p, label)
    PROVE  pc' \in [Procs -> CallerPCs \cup CheckerPCs]
  BY DEF Goto

LEMMA BumpType ==
    ASSUME NEW n \in 0..FailureThreshold
    PROVE  Bump(n) \in 0..FailureThreshold
  BY ThresholdAssumption DEF Bump

LEMMA UpdateType ==
    ASSUME TypeOK, NEW s \in {"active", "unavailable"}, UpdateStatus(s)
    PROVE  /\ dbStatus' \in {dbStatus, s} /\ late' \in {late, late \cup {s}}
           /\ inDoubt' \in BOOLEAN
  BY DEF UpdateStatus, TypeOK

LEMMA RecordType ==
    ASSUME TypeOK, NEW p \in Procs, Record(p)
    PROVE  TypeOK'
  <1>1. CASE ResetFailures(p)
    <2>1. pc' \in [Procs -> CallerPCs \cup CheckerPCs]
      BY <1>1, GotoType DEF ResetFailures, TypeOK, CallerPCs, CheckerPCs, Recording
    <2>2. failures' \in 0..FailureThreshold
      BY <1>1, ThresholdAssumption DEF ResetFailures
    <2> QED  BY <1>1, <2>1, <2>2 DEF ResetFailures, TypeOK, mapVars, dbVars, stopVars
  <1>2. CASE StoreClosed(p)
    <2>1. pc' \in [Procs -> CallerPCs \cup CheckerPCs]
      BY <1>2, GotoType DEF StoreClosed, TypeOK, CallerPCs, CheckerPCs
    <2> QED  BY <1>2, <2>1 DEF StoreClosed, TypeOK, mapVars, dbVars, stopVars, CircuitState
  <1>3. CASE AddFailure(p)
    <2>1. pc' \in [Procs -> CallerPCs \cup CheckerPCs]
      BY <1>3, GotoType
      DEF AddFailure, AfterFailure, TypeOK, CallerPCs, CheckerPCs, Recording
    <2>2. failures' \in 0..FailureThreshold
      BY <1>3, BumpType DEF AddFailure, TypeOK
    <2> QED  BY <1>3, <2>1, <2>2 DEF AddFailure, TypeOK, mapVars, dbVars, stopVars
  <1>4. CASE StoreOpen(p)
    <2>1. pc' \in [Procs -> CallerPCs \cup CheckerPCs]
      BY <1>4, GotoType
      DEF StoreOpen, AfterFailure, TypeOK, CallerPCs, CheckerPCs, Recording
    <2> QED  BY <1>4, <2>1 DEF StoreOpen, TypeOK, mapVars, dbVars, stopVars, CircuitState
  <1> QED  BY <1>1, <1>2, <1>3, <1>4 DEF Record

LEMMA CallerType ==
    ASSUME TypeOK, NEW c \in Callers, CallTool(c) \/ Connect(c) \/ RunCall(c)
    PROVE  TypeOK'
  <1> c \in Procs  BY DEF Procs
  <1>1. CASE CallTool(c)
    BY <1>1, GotoType DEF CallTool, TypeOK, CallerPCs, cbVars, mapVars, dbVars, stopVars
  <1>2. CASE Connect(c)
    BY <1>2, GotoType DEF Connect, TypeOK, CallerPCs, cbVars, mapVars, dbVars, stopVars
  <1>3. CASE CreateClient(c)
    <2>1. pc' \in [Procs -> CallerPCs \cup CheckerPCs]
      BY <1>3, GotoType DEF CreateClient, TypeOK, CallerPCs
    <2>2. failures' \in 0..FailureThreshold /\ state' \in CircuitState
      BY <1>3, ThresholdAssumption DEF CreateClient, TypeOK, cbVars, CircuitState
    <2>3. client' \in BOOLEAN /\ breaker' \in BOOLEAN
      BY <1>3 DEF CreateClient, TypeOK, mapVars
    <2> QED  BY <1>3, <2>1, <2>2, <2>3 DEF CreateClient, TypeOK, dbVars, stopVars
  <1>4. CASE CheckCircuit(c)
    BY <1>4, GotoType DEF CheckCircuit, TypeOK, CallerPCs, cbVars, mapVars, dbVars, stopVars
  <1>5. CASE Respond(c)
    <2>1. pc' \in [Procs -> CallerPCs \cup CheckerPCs]
      BY <1>5, GotoType DEF Respond, TypeOK, CallerPCs, Recording
    <2> QED  BY <1>5, <2>1 DEF Respond, TypeOK, cbVars, mapVars, dbVars, stopVars
  <1>6. CASE Record(c)
    BY <1>6, RecordType
  <1> QED  BY <1>1, <1>2, <1>3, <1>4, <1>5, <1>6 DEF RunCall

LEMMA CheckerType ==
    ASSUME TypeOK, RunHealthChecks \/ StartHealthChecks
    PROVE  TypeOK'
  <1> Checker \in Procs  BY DEF Procs
  <1> USE DEF TypeOK, cbVars, mapVars, dbVars, stopVars
  <1>1. CASE ExitChecks
    BY <1>1, GotoType DEF ExitChecks, CheckerPCs
  <1>2. CASE Tick
    BY <1>2, GotoType DEF Tick, CheckerPCs
  <1>3. CASE Look
    <2>1. \E label \in CheckerPCs : Goto(Checker, label)
      BY <1>3, Zenon DEF Look, CheckerPCs
    <2>2. pc' \in [Procs -> CallerPCs \cup CheckerPCs]
      BY <2>1, GotoType
    <2>3. seen' \in [Procs -> CircuitState]
      BY <1>3 DEF Look
    <2> QED  BY <1>3, <2>2, <2>3 DEF Look
  <1>4. CASE TryHalfOpen
    BY <1>4, GotoType DEF TryHalfOpen, CheckerPCs, CircuitState
  <1>5. CASE Probe
    <2>1. pc' \in [Procs -> CallerPCs \cup CheckerPCs]
      BY <1>5, GotoType DEF Probe, CheckerPCs, Recording
    <2>2. streak' = 0 \/ streak' = Bump(streak)
      BY <1>5 DEF Probe
    <2>3. streak' \in 0..FailureThreshold
      BY <2>2, BumpType, ThresholdAssumption
    <2> QED  BY <1>5, <2>1, <2>3 DEF Probe
  <1>6. CASE LoadState
    BY <1>6, GotoType DEF LoadState, CheckerPCs
  <1>7. CASE MarkActive
    <2>1. pc' \in [Procs -> CallerPCs \cup CheckerPCs]
      BY <1>7, GotoType DEF MarkActive, CheckerPCs, Recording
    <2> QED  BY <1>7, <2>1, UpdateType DEF MarkActive
  <1>8. CASE MarkUnavailable
    <2>1. pc' \in [Procs -> CallerPCs \cup CheckerPCs]
      BY <1>8, GotoType DEF MarkUnavailable, CheckerPCs
    <2> QED  BY <1>8, <2>1, UpdateType DEF MarkUnavailable
  <1>9. CASE Record(Checker)
    BY <1>9, RecordType
  <1>10. CASE StartHealthChecks
    BY <1>10, GotoType DEF StartHealthChecks, CheckerPCs
  <1> QED
    BY <1>1, <1>2, <1>3, <1>4, <1>5, <1>6, <1>7, <1>8, <1>9, <1>10 DEF RunHealthChecks

LEMMA TypeNext == TypeOK /\ [Next]_vars => TypeOK'
  <1> SUFFICES ASSUME TypeOK, [Next]_vars PROVE TypeOK'
    OBVIOUS
  <1>1. CASE RunHealthChecks \/ StartHealthChecks
    BY <1>1, CheckerType
  <1>2. ASSUME NEW c \in Callers, CallTool(c) \/ Connect(c) \/ RunCall(c)
        PROVE  TypeOK'
    BY <1>2, CallerType
  <1>3. CASE Register
    BY <1>3, ThresholdAssumption DEF Register, TypeOK, CircuitState, stopVars
  <1>4. CASE Disconnect \/ Stop \/ CancelChecks \/ ServerFlips \/ LateUpdate
    BY <1>4
    DEF Disconnect, Stop, CancelChecks, ServerFlips, LateUpdate, TypeOK, cbVars, mapVars, dbVars, stopVars
  <1>5. CASE Restart
    <2>1. /\ pc' \in [Procs -> CallerPCs \cup CheckerPCs]
          /\ seen' \in [Procs -> CircuitState]
      BY <1>5, NewProcess DEF Restart
    <2>2. /\ state' \in CircuitState /\ failures' \in 0..FailureThreshold
          /\ streak' \in 0..FailureThreshold
      BY <1>5, ThresholdAssumption DEF Restart, CircuitState
    <2>3. late' \subseteq {"active", "unavailable"}
      BY <1>5 DEF Restart, UnderWay, TypeOK
    <2> QED  BY <1>5, <2>1, <2>2, <2>3 DEF Restart, TypeOK
  <1>6. CASE UNCHANGED vars
    BY <1>6 DEF vars, cbVars, mapVars, dbVars, stopVars, TypeOK
  <1> QED  BY <1>1, <1>2, <1>3, <1>4, <1>5, <1>6 DEF Next

\* Every variable stays in its set, whatever the callers and the health checks
\* do, for any number of callers (all of mcp.go's state changes).
THEOREM TypeCorrect == Spec => []TypeOK
  <1> QED  BY TypeInit, TypeNext, PTL DEF Spec

-----------------------------------------------------------------------------
(* The maps, with any number of callers.                                   *)

\* Every client has a breaker, whoever has looked a client up has one too, and
\* a server nobody has registered has neither.  A breaker that does not exist
\* stands as it will be created.
BreakersExist ==
    /\ client => breaker
    /\ \A c \in Callers : pc[c] \notin {"idle", "create"} => breaker
    /\ pc[Checker] \notin {"off", "idle"} => breaker
    /\ breaker => dbStatus # "none"
    /\ ~breaker => state = "closed" /\ failures = 0

\* Only a step of RecordSuccess or RecordFailure, the CompareAndSwap of a probe
\* or a restart changes a breaker.
BreakerStep == \/ UNCHANGED cbVars
               \/ \E p \in Procs : pc[p] \in Recording
               \/ pc[Checker] = "cas"
               \/ Restart

LEMMA BreakersInit == Init => BreakersExist
  <1> SUFFICES ASSUME Init PROVE BreakersExist
    OBVIOUS
  <1>1. pc[Checker] = "off" /\ \A c \in Callers : pc[c] = "idle"
    BY CheckerAssumption DEF Init, Procs
  <1> QED  BY <1>1 DEF Init, BreakersExist

\* A step of RecordSuccess or RecordFailure moves the goroutine that takes it
\* and leaves the maps and the database alone.
LEMMA RecordFrame ==
    ASSUME TypeOK, NEW p \in Procs, Record(p)
    PROVE  /\ pc[p] \in Recording
           /\ \A q \in Procs \ {p} : pc'[q] = pc[q]
           /\ UNCHANGED <<mapVars, dbVars>>
  <1> USE DEF Goto, TypeOK, Recording
  <1>1. CASE ResetFailures(p)  BY <1>1 DEF ResetFailures
  <1>2. CASE StoreClosed(p)  BY <1>2 DEF StoreClosed
  <1>3. CASE AddFailure(p)  BY <1>3 DEF AddFailure
  <1>4. CASE StoreOpen(p)  BY <1>4 DEF StoreOpen
  <1> QED  BY <1>1, <1>2, <1>3, <1>4 DEF Record

\* A step of one goroutine that leaves the maps alone, from a place where the
\* breaker exists.
LEMMA BreakerStays ==
    ASSUME BreakersExist, breaker, UNCHANGED <<mapVars, dbVars>>
    PROVE  BreakersExist'
  BY DEF BreakersExist, mapVars, dbVars

LEMMA CallerBreakers ==
    ASSUME TypeOK, BreakersExist, NEW c \in Callers, CallTool(c) \/ Connect(c) \/ RunCall(c)
    PROVE  BreakersExist' /\ BreakerStep
  <1>1. c \in Procs /\ c # Checker
    BY CheckerAssumption DEF Procs
  <1>2. CASE CallTool(c)
    <2>1. breaker /\ UNCHANGED <<mapVars, dbVars>>
      BY <1>2 DEF CallTool, BreakersExist
    <2>2. UNCHANGED cbVars
      BY <1>2 DEF CallTool
    <2> QED  BY <2>1, <2>2, BreakerStays DEF BreakerStep
  <1>3. CASE Connect(c)
    <2>1. /\ pc'[c] = IF client THEN "check" ELSE "create"
          /\ \A q \in Procs \ {c} : pc'[q] = pc[q]
      BY <1>1, <1>3 DEF Connect, Goto, TypeOK
    <2>2. UNCHANGED <<cbVars, mapVars, dbVars>>
      BY <1>3 DEF Connect
    <2> QED
      BY <1>1, <2>1, <2>2 DEF BreakersExist, BreakerStep, cbVars, mapVars, dbVars, Procs
  <1>4. CASE CreateClient(c)
    <2>1. /\ pc'[c] \in {"check", "idle"} /\ UNCHANGED dbVars
          /\ \A q \in Procs \ {c} : pc'[q] = pc[q]
      BY <1>1, <1>4 DEF CreateClient, Goto, TypeOK
    <2>2. CASE dbStatus # "none" /\ client' /\ breaker'
               /\ (IF breaker THEN UNCHANGED cbVars ELSE state' = "closed" /\ failures' = 0)
      <3>1. UNCHANGED cbVars
        BY <2>2 DEF BreakersExist, cbVars
      <3> QED  BY <2>1, <2>2, <3>1 DEF BreakersExist, BreakerStep, dbVars
    <2>3. CASE UNCHANGED <<cbVars, mapVars>> /\ pc'[c] = "idle"
      BY <1>1, <2>1, <2>3 DEF BreakersExist, BreakerStep, cbVars, mapVars, dbVars, Procs
    <2> QED
      BY <1>1, <1>4, <2>2, <2>3 DEF CreateClient, Goto, TypeOK
  <1>5. CASE CheckCircuit(c) \/ Respond(c)
    <2>1. breaker /\ UNCHANGED <<mapVars, dbVars>>
      BY <1>5 DEF CheckCircuit, Respond, BreakersExist
    <2>2. UNCHANGED cbVars
      BY <1>5 DEF CheckCircuit, Respond
    <2> QED  BY <2>1, <2>2, BreakerStays DEF BreakerStep
  <1>6. CASE Record(c)
    <2>1. pc[c] \in Recording /\ UNCHANGED <<mapVars, dbVars>>
      BY <1>1, <1>6, RecordFrame
    <2>2. breaker
      BY <2>1 DEF BreakersExist, Recording
    <2> QED  BY <1>1, <2>1, <2>2, BreakerStays DEF BreakerStep
  <1> QED  BY <1>2, <1>3, <1>4, <1>5, <1>6 DEF RunCall

LEMMA CheckerBreakers ==
    ASSUME TypeOK, BreakersExist, RunHealthChecks \/ StartHealthChecks
    PROVE  BreakersExist' /\ BreakerStep
  <1>1. Checker \in Procs /\ Checker \notin Callers /\ Callers \subseteq Procs
    BY CheckerAssumption DEF Procs
  <1>2. CASE ExitChecks \/ StartHealthChecks
    <2>1. /\ pc'[Checker] \in {"off", "idle"} /\ UNCHANGED <<cbVars, mapVars, dbVars>>
          /\ \A c \in Callers : pc'[c] = pc[c]
      BY <1>1, <1>2 DEF ExitChecks, StartHealthChecks, Goto, TypeOK
    <2> QED  BY <2>1 DEF BreakersExist, BreakerStep, cbVars, mapVars, dbVars
  <1>3. CASE Tick \/ Look \/ Probe \/ LoadState
    <2>1. /\ breaker
          /\ UNCHANGED <<cbVars, mapVars, dbVars>>
      BY <1>3 DEF Tick, Look, Probe, LoadState, BreakersExist
    <2> QED  BY <2>1, BreakerStays DEF BreakerStep
  <1>4. CASE TryHalfOpen
    <2>1. breaker /\ pc[Checker] = "cas" /\ UNCHANGED <<mapVars, dbVars>>
      BY <1>4 DEF TryHalfOpen, BreakersExist
    <2> QED  BY <2>1, BreakerStays DEF BreakerStep
  <1>5. CASE MarkActive \/ MarkUnavailable
    <2>1. breaker /\ dbStatus # "none" /\ UNCHANGED <<cbVars, mapVars>>
      BY <1>5 DEF MarkActive, MarkUnavailable, BreakersExist
    <2>2. dbStatus' # "none"
      BY <1>5, <2>1 DEF MarkActive, MarkUnavailable, UpdateStatus
    <2> QED  BY <2>1, <2>2 DEF BreakersExist, BreakerStep, mapVars
  <1>6. CASE Record(Checker)
    <2>1. pc[Checker] \in Recording /\ UNCHANGED <<mapVars, dbVars>>
      BY <1>1, <1>6, RecordFrame
    <2>2. breaker
      BY <2>1 DEF BreakersExist, Recording
    <2> QED  BY <1>1, <2>1, <2>2, BreakerStays DEF BreakerStep
  <1> QED  BY <1>2, <1>3, <1>4, <1>5, <1>6 DEF RunHealthChecks

LEMMA BreakersNext == TypeOK /\ BreakersExist /\ [Next]_vars => BreakersExist' /\ [BreakerStep]_vars
  <1> SUFFICES ASSUME TypeOK, BreakersExist, [Next]_vars
               PROVE  BreakersExist' /\ BreakerStep
    OBVIOUS
  <1>1. CASE RunHealthChecks \/ StartHealthChecks
    BY <1>1, CheckerBreakers
  <1>2. ASSUME NEW c \in Callers, CallTool(c) \/ Connect(c) \/ RunCall(c)
        PROVE  BreakersExist' /\ BreakerStep
    BY <1>2, CallerBreakers
  <1>3. CASE Register
    \* Nothing had the server's breaker, which is created as it stood.
    <2>1. UNCHANGED cbVars
      BY <1>3 DEF Register, BreakersExist, cbVars
    <2> QED  BY <1>3, <2>1 DEF Register, BreakersExist, BreakerStep
  <1>4. CASE Disconnect \/ Stop \/ CancelChecks \/ ServerFlips
    BY <1>4
    DEF Disconnect, Stop, CancelChecks, ServerFlips, BreakersExist, BreakerStep,
        cbVars, mapVars, dbVars
  <1>5. CASE Restart
    <2>1. pc'[Checker] = "off" /\ \A c \in Callers : pc'[c] = "idle"
      BY <1>5, CheckerAssumption DEF Restart, Procs
    <2> QED  BY <1>5, <2>1 DEF Restart, BreakersExist, BreakerStep
  <1>6. CASE UNCHANGED vars
    BY <1>6 DEF vars, cbVars, mapVars, dbVars, BreakersExist, BreakerStep
  <1>7. CASE LateUpdate
    <2>1. dbStatus' # "none" /\ UNCHANGED <<cbVars, mapVars, pc>>
      BY <1>7 DEF LateUpdate, TypeOK
    <2> QED  BY <2>1 DEF BreakersExist, BreakerStep, cbVars, mapVars
  <1> QED  BY <1>1, <1>2, <1>3, <1>4, <1>5, <1>6, <1>7 DEF Next

\* Nobody who has found a client misses its breaker, whatever is registered,
\* dropped, reconnected or restarted meanwhile: the `cb != nil` that guard
\* every use of a breaker in CallTool, Connect and runHealthChecks never fail.
THEOREM ClientsHaveBreakers == Spec => []BreakersExist
  <1> QED  BY TypeInit, TypeNext, BreakersInit, BreakersNext, PTL DEF Spec

\* Registering a server or connecting to it again forgives it nothing: neither
\* touches the circuit or the count of a breaker somebody may be using, with
\* any number of callers (Register, Connect, Disconnect).
THEOREM ReconnectsKeepBreaker == Spec => [][BreakerStep]_vars
  <1> QED  BY TypeInit, TypeNext, BreakersInit, BreakersNext, PTL DEF Spec

-----------------------------------------------------------------------------
(* The health checks alone.                                                *)

At(places) == pc[Checker] \in places

\* The circuit follows the count, but for the step between the two atomics.
CircuitFollowsCount ==
    /\ At({"close"}) => failures = 0
    /\ At({"trip"}) => failures >= FailureThreshold
    /\ ~At({"close", "trip"}) => (state = "closed" <=> failures < FailureThreshold)

\* A probe is under way as long as the circuit is half-open, and the circuit
\* is open from the decision to probe it on.
ProbesAreFinished ==
    /\ state = "half-open" =>
           At({"probe", "dbActive", "reset", "close", "add", "trip"})
    /\ At({"cas", "dbDown"}) => state = "open"

\* What the health check knows of the failures in a row is in the count.
StreakIsCounted ==
    /\ IF At({"add"}) THEN streak <= Bump(failures) ELSE streak <= failures
    /\ At({"dbActive", "reset", "close"}) => streak = 0

\* Before the server is registered nothing checks it.
UnknownIsUnchecked ==
    dbStatus = "none" => /\ ~client /\ At({"off", "idle"}) /\ late = {}
                         /\ failures = 0 /\ streak = 0

AloneInv == /\ TypeOK
            /\ CircuitFollowsCount
            /\ ProbesAreFinished
            /\ StreakIsCounted
            /\ UnknownIsUnchecked
            /\ OpenIsPublished

\* The five parts, which are what a step has to preserve besides TypeOK.
Parts == /\ CircuitFollowsCount /\ ProbesAreFinished
         /\ StreakIsCounted /\ UnknownIsUnchecked /\ OpenIsPublished

LEMMA GotoChecker ==
    ASSUME TypeOK, NEW label, Goto(Checker, label)
    PROVE  pc'[Checker] = label
  BY DEF TypeOK, Goto, Procs

LEMMA AloneInit == Init => AloneInv
  <1> SUFFICES ASSUME Init PROVE AloneInv
    OBVIOUS
  <1>1. pc[Checker] = "off"
    BY DEF Init, Procs
  <1>2. TypeOK
    BY TypeInit
  <1> QED
    BY <1>1, <1>2, ThresholdAssumption
    DEF Init, AloneInv, At, CircuitFollowsCount, ProbesAreFinished, StreakIsCounted,
        UnknownIsUnchecked, OpenIsPublished

LEMMA RecordKeeps ==
    ASSUME AloneInv, Record(Checker)
    PROVE  Parts'
  <1> TypeOK  BY DEF AloneInv
  <1> USE ThresholdAssumption
  <1> USE DEF AloneInv, Parts, TypeOK, At, CircuitFollowsCount, ProbesAreFinished,
              StreakIsCounted, UnknownIsUnchecked, OpenIsPublished, mapVars, dbVars
  <1>1. CASE ResetFailures(Checker)
    <2>1. pc'[Checker] = "close"
      BY <1>1, GotoChecker DEF ResetFailures
    <2> QED  BY <1>1, <2>1 DEF ResetFailures
  <1>2. CASE StoreClosed(Checker)
    <2>1. pc'[Checker] = "idle"
      BY <1>2, GotoChecker DEF StoreClosed
    <2> QED  BY <1>2, <2>1 DEF StoreClosed
  <1>3. CASE AddFailure(Checker)
    <2>1. pc'[Checker] = IF failures' >= FailureThreshold THEN "trip" ELSE "load"
      BY <1>3, GotoChecker DEF AddFailure, AfterFailure, Trips
    <2>2. failures' = IF failures < FailureThreshold THEN failures + 1 ELSE failures
      BY <1>3 DEF AddFailure, Bump
    <2> QED  BY <1>3, <2>1, <2>2 DEF AddFailure, Bump
  <1>4. CASE StoreOpen(Checker)
    <2>1. pc'[Checker] = "load"
      BY <1>4, GotoChecker DEF StoreOpen, AfterFailure
    <2> QED  BY <1>4, <2>1 DEF StoreOpen
  <1> QED  BY <1>1, <1>2, <1>3, <1>4 DEF Record

LEMMA ChecksKeep ==
    ASSUME AloneInv, RunHealthChecks
    PROVE  Parts'
  <1> TypeOK  BY DEF AloneInv
  <1> USE ThresholdAssumption
  <1> USE DEF AloneInv, Parts, TypeOK, At, CircuitFollowsCount, ProbesAreFinished, StreakIsCounted,
              UnknownIsUnchecked, OpenIsPublished, CircuitState, cbVars, mapVars, dbVars
  <1>1. CASE ExitChecks
    <2>1. pc'[Checker] = "off"
      BY <1>1, GotoChecker DEF ExitChecks
    <2> QED  BY <1>1, <2>1 DEF ExitChecks
  <1>2. CASE Tick
    <2>1. pc'[Checker] = "look"
      BY <1>2, GotoChecker DEF Tick
    <2> QED  BY <1>2, <2>1 DEF Tick
  <1>3. CASE Look
    <2>1. pc'[Checker] = IF ~client THEN "idle" ELSE IF state = "open" THEN "cas" ELSE "probe"
      BY <1>3, GotoChecker DEF Look
    <2> QED  BY <1>3, <2>1 DEF Look
  <1>4. CASE TryHalfOpen
    <2>1. state = "open" /\ state' = "half-open" /\ pc'[Checker] = "probe"
      BY <1>4, GotoChecker DEF TryHalfOpen
    <2> QED  BY <1>4, <2>1 DEF TryHalfOpen
  <1>5. CASE Probe
    <2>1. \/ pc'[Checker] \in {"reset", "dbActive"} /\ streak' = 0
          \/ pc'[Checker] = "add" /\ streak' = Bump(streak)
      BY <1>5, GotoChecker DEF Probe
    <2>2. UNCHANGED <<state, failures, client, dbVars>> /\ pc[Checker] = "probe"
      BY <1>5 DEF Probe
    <2> QED  BY <2>1, <2>2 DEF Bump
  <1>6. CASE LoadState
    <2>1. pc'[Checker] = IF state = "open" THEN "dbDown" ELSE "idle"
      BY <1>6, GotoChecker DEF LoadState
    <2> QED  BY <1>6, <2>1 DEF LoadState
  <1>7. CASE MarkActive
    <2>1. pc'[Checker] = "reset"
      BY <1>7, GotoChecker DEF MarkActive
    <2> QED  BY <1>7, <2>1 DEF MarkActive, UpdateStatus
  <1>8. CASE MarkUnavailable
    <2>1. pc'[Checker] = "idle"
      BY <1>8, GotoChecker DEF MarkUnavailable
    <2> QED  BY <1>8, <2>1 DEF MarkUnavailable, UpdateStatus
  <1>9. CASE Record(Checker)
    BY <1>9, RecordKeeps
  <1> QED
    BY <1>1, <1>2, <1>3, <1>4, <1>5, <1>6, <1>7, <1>8, <1>9 DEF RunHealthChecks

LEMMA AloneNext ==
    ASSUME Alone, AloneInv, [Next]_vars
    PROVE  AloneInv'
  <1> TypeOK  BY DEF AloneInv
  <1> SUFFICES Parts'
    BY TypeNext DEF AloneInv, Parts
  <1> USE ThresholdAssumption
  <1> USE DEF Parts, TypeOK, At, CircuitFollowsCount, ProbesAreFinished,
              StreakIsCounted, UnknownIsUnchecked, OpenIsPublished
  <1>1. CASE RunHealthChecks
    BY <1>1, ChecksKeep
  <1>2. CASE StartHealthChecks
    <2>1. pc[Checker] = "off" /\ pc'[Checker] = "idle"
      BY <1>2, GotoChecker DEF StartHealthChecks
    <2> QED  BY <1>2, <2>1 DEF AloneInv, StartHealthChecks, cbVars, mapVars, dbVars
  <1>3. CASE Register
    <2>1. At({"off", "idle"}) /\ failures = 0 /\ streak = 0
      BY <1>3 DEF AloneInv, Register
    <2>2. /\ state' = "closed" /\ failures' = 0 /\ dbStatus' # "none"
          /\ UNCHANGED <<pc, streak>>
      BY <1>3 DEF Register
    <2> QED  BY <2>1, <2>2
  <1>4. CASE Disconnect \/ Stop \/ CancelChecks \/ ServerFlips
    <2>1. UNCHANGED <<state, failures, dbStatus, late, inDoubt, pc, streak>>
      BY <1>4 DEF Disconnect, Stop, CancelChecks, ServerFlips, cbVars, dbVars
    <2>2. client' => client
      BY <1>4 DEF Disconnect, Stop, CancelChecks, ServerFlips, mapVars
    <2> QED  BY <2>1, <2>2 DEF AloneInv
  <1>5. CASE Restart
    <2>1. pc'[Checker] = "off"
      BY <1>5 DEF Restart, Procs
    <2> QED  BY <1>5, <2>1 DEF AloneInv, Restart, UnderWay
  <1>6. CASE UNCHANGED vars
    BY <1>6 DEF AloneInv, vars, cbVars, mapVars, dbVars
  <1>7. CASE LateUpdate
    <2>1. inDoubt' /\ dbStatus' # "none" /\ UNCHANGED <<cbVars, mapVars, pc, streak>>
      BY <1>7 DEF AloneInv, LateUpdate
    <2> QED  BY <2>1 DEF AloneInv, cbVars, mapVars
  <1> QED  BY <1>1, <1>2, <1>3, <1>4, <1>5, <1>6, <1>7 DEF Alone, Next

LEMMA AloneHolds ==
    ASSUME Alone
    PROVE  Spec => []AloneInv
  <1>1. AloneInv /\ [Next]_vars => AloneInv'
    BY AloneNext
  <1> QED  BY <1>1, AloneInit, PTL DEF Spec

\* Without callers the circuit of every server is open exactly from the
\* threshold of failures in a row on, and no probe is left half-open
\* (circuitBreaker, runHealthChecks).
THEOREM ChecksKeepBreakerConsistent ==
    ASSUME Alone
    PROVE  Spec => []BreakerConsistent
  <1>1. ASSUME AloneInv, Settled, state # "half-open"
        PROVE  state = "open" <=> failures >= FailureThreshold
    <2>1. pc[Checker] \notin {"close", "trip"}
      BY <1>1 DEF Settled, Procs
    <2> QED
      BY <1>1, <2>1, ThresholdAssumption
      DEF AloneInv, TypeOK, CircuitState, CircuitFollowsCount, At
  <1>2. AloneInv /\ state = "half-open" => pc[Checker] \notin {"idle", "off"}
    BY DEF AloneInv, ProbesAreFinished, At
  <1>3. AloneInv => BreakerConsistent
    BY <1>1, <1>2 DEF BreakerConsistent
  <1>4. Spec => []AloneInv
    BY AloneHolds
  <1> QED  BY <1>3, <1>4, PTL

\* An open circuit is known to the database unless an update of this process
\* failed or came late, as it does when the checks are stopped in the middle of
\* one (runHealthChecks, Register, restarts).
THEOREM ChecksPublishOpen ==
    ASSUME Alone
    PROVE  Spec => []OpenIsPublished
  <1>1. AloneInv => OpenIsPublished
    BY DEF AloneInv
  <1>2. Spec => []AloneInv
    BY AloneHolds
  <1> QED  BY <1>1, <1>2, PTL

\* FailureThreshold failed health checks in a row open the circuit
\* (mcp.go:397-400).
THEOREM ThreeStrikes ==
    ASSUME Alone
    PROVE  Spec => ThreeStrikesOpen
  <1>1. AloneInv /\ [Next]_vars =>
            [(LoadState /\ streak >= FailureThreshold) => state = "open"]_vars
    <2> SUFFICES ASSUME AloneInv, LoadState, streak >= FailureThreshold
                 PROVE  state = "open"
      OBVIOUS
    <2>1. pc[Checker] = "load"
      BY DEF LoadState
    <2>2. failures >= FailureThreshold
      BY <2>1, ThresholdAssumption DEF AloneInv, StreakIsCounted, At, TypeOK
    <2>3. state # "closed" /\ state # "half-open"
      BY <2>1, <2>2, ThresholdAssumption
      DEF AloneInv, CircuitFollowsCount, ProbesAreFinished, At, TypeOK
    <2> QED  BY <2>3 DEF AloneInv, TypeOK, CircuitState
  <1>2. Spec => []AloneInv
    BY AloneHolds
  <1> QED  BY <1>1, <1>2, PTL DEF Spec, ThreeStrikesOpen

-----------------------------------------------------------------------------
(* The abstract breaker.                                                   *)

\* The circuit CircuitBreaker sees.
Circuit == CASE pc[Checker] = "close" -> "closed"
             [] pc[Checker] = "trip"  -> "open"
             [] OTHER                 -> state

LEMMA BreakerInit == Init => Breaker!Fresh
  <1> SUFFICES ASSUME Init PROVE Breaker!Fresh
    OBVIOUS
  <1>1. pc[Checker] = "off"
    BY DEF Init, Procs
  <1> QED  BY <1>1 DEF Init, Breaker!Fresh

\* Each step of the health checks closes, fails or probes the breaker, or
\* leaves it as it is.
LEMMA RecordSimulates ==
    ASSUME AloneInv, Record(Checker)
    PROVE  Breaker!Close \/ Breaker!Fail \/ UNCHANGED <<Circuit, failures>>
  <1> TypeOK  BY DEF AloneInv
  <1>1. CASE ResetFailures(Checker)
    <2>1. pc'[Checker] = "close" /\ failures' = 0
      BY <1>1, GotoChecker DEF ResetFailures
    <2> QED  BY <2>1 DEF Breaker!Close
  <1>2. CASE StoreClosed(Checker)
    <2>1. pc'[Checker] = "idle"
      BY <1>2, GotoChecker DEF StoreClosed
    <2> QED  BY <1>2, <2>1 DEF StoreClosed, Circuit
  <1>3. CASE AddFailure(Checker)
    <2>1. pc'[Checker] = IF failures' >= FailureThreshold THEN "trip" ELSE "load"
      BY <1>3, GotoChecker DEF AddFailure, AfterFailure, Trips
    <2>2. failures' = IF failures < FailureThreshold THEN failures + 1 ELSE failures
      BY <1>3 DEF AddFailure, Bump
    <2>3. pc[Checker] = "add" /\ state' = state
      BY <1>3 DEF AddFailure
    <2> QED  BY <2>1, <2>2, <2>3 DEF Breaker!Fail, Breaker!Counted
  <1>4. CASE StoreOpen(Checker)
    <2>1. pc'[Checker] = "load"
      BY <1>4, GotoChecker DEF StoreOpen, AfterFailure
    <2> QED  BY <1>4, <2>1 DEF StoreOpen, Circuit
  <1> QED  BY <1>1, <1>2, <1>3, <1>4 DEF Record

\* A step that leaves the two atomics alone and starts and ends outside the
\* pair of steps leaves the breaker as it is.
LEMMA NoRecordStutters ==
    ASSUME UNCHANGED cbVars,
           pc[Checker] \notin {"close", "trip"}, pc'[Checker] \notin {"close", "trip"}
    PROVE  UNCHANGED <<Circuit, failures>>
  BY DEF Circuit, cbVars

LEMMA ChecksSimulate ==
    ASSUME AloneInv, RunHealthChecks
    PROVE  Breaker!Close \/ Breaker!Fail \/ Breaker!Probe \/ UNCHANGED <<Circuit, failures>>
  <1> TypeOK  BY DEF AloneInv
  <1>1. CASE ExitChecks
    BY <1>1, GotoChecker, NoRecordStutters DEF ExitChecks
  <1>2. CASE Tick
    BY <1>2, GotoChecker, NoRecordStutters DEF Tick
  <1>3. CASE Look
    <2>1. pc[Checker] = "look" /\ UNCHANGED cbVars
      BY <1>3 DEF Look
    <2>2. pc'[Checker] = IF ~client THEN "idle" ELSE IF state = "open" THEN "cas" ELSE "probe"
      BY <1>3, GotoChecker DEF Look
    <2> QED  BY <2>1, <2>2, NoRecordStutters
  <1>4. CASE TryHalfOpen
    <2>1. /\ pc[Checker] = "cas" /\ state = "open" /\ state' = "half-open"
          /\ pc'[Checker] = "probe" /\ UNCHANGED failures
      BY <1>4, GotoChecker DEF TryHalfOpen, AloneInv, ProbesAreFinished, At
    <2> QED  BY <2>1 DEF Breaker!Probe
  <1>5. CASE Probe
    <2>1. pc'[Checker] \in {"reset", "dbActive", "add"}
      BY <1>5, GotoChecker DEF Probe
    <2> QED  BY <1>5, <2>1, NoRecordStutters DEF Probe
  <1>6. CASE LoadState
    <2>1. pc'[Checker] \in {"dbDown", "idle"}
      BY <1>6, GotoChecker DEF LoadState
    <2> QED  BY <1>6, <2>1, NoRecordStutters DEF LoadState
  <1>7. CASE MarkActive
    BY <1>7, GotoChecker, NoRecordStutters DEF MarkActive
  <1>8. CASE MarkUnavailable
    BY <1>8, GotoChecker, NoRecordStutters DEF MarkUnavailable
  <1>9. CASE Record(Checker)
    BY <1>9, RecordSimulates
  <1> QED
    BY <1>1, <1>2, <1>3, <1>4, <1>5, <1>6, <1>7, <1>8, <1>9 DEF RunHealthChecks

LEMMA BreakerNext ==
    ASSUME Alone, AloneInv, [Next]_vars
    PROVE  [Breaker!Close \/ Breaker!Fail \/ Breaker!Probe]_(Breaker!vars)
  <1> TypeOK  BY DEF AloneInv
  <1> SUFFICES Breaker!Close \/ Breaker!Fail \/ Breaker!Probe
                   \/ UNCHANGED <<Circuit, failures>>
    BY DEF Breaker!vars, Circuit
  <1>1. CASE RunHealthChecks
    BY <1>1, ChecksSimulate
  <1>2. CASE StartHealthChecks
    BY <1>2, GotoChecker, NoRecordStutters DEF StartHealthChecks
  <1>3. CASE Register
    <2>1. pc'[Checker] \in {"off", "idle"} /\ state' = "closed" /\ failures' = 0
      BY <1>3 DEF Register, AloneInv, UnknownIsUnchecked, At
    <2> QED  BY <2>1 DEF Breaker!Close
  <1>4. CASE Disconnect \/ Stop \/ CancelChecks \/ ServerFlips \/ LateUpdate
    BY <1>4 DEF Disconnect, Stop, CancelChecks, ServerFlips, LateUpdate, cbVars, Circuit
  <1>5. CASE Restart
    <2>1. pc'[Checker] = "off" /\ state' = "closed" /\ failures' = 0
      BY <1>5 DEF Restart, Procs
    <2> QED  BY <2>1 DEF Breaker!Close
  <1>6. CASE UNCHANGED vars
    BY <1>6 DEF vars, cbVars, Circuit
  <1> QED  BY <1>1, <1>2, <1>3, <1>4, <1>5, <1>6 DEF Alone, Next

\* Health checks, registrations and restarts implement the abstract breaker,
\* whose circuit and count change in one step (mcp.go:198-238, 427-479).
THEOREM ChecksImplementBreaker ==
    ASSUME Alone
    PROVE  Spec => ImplementsBreaker
  <1>1. Spec => []AloneInv
    BY AloneHolds
  <1>2. AloneInv /\ [Next]_vars =>
            [Breaker!Close \/ Breaker!Fail \/ Breaker!Probe]_(Breaker!vars)
    BY BreakerNext
  <1> QED
    BY <1>1, <1>2, BreakerInit, PTL DEF Spec, ImplementsBreaker, Breaker!Spec
=============================================================================
