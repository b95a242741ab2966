------------------------- MODULE AgentServiceProofs -------------------------
(***************************************************************************)
(* Theorems about AgentService: an update's transaction is alone with the  *)
(* agent's row, so that configuration and bindings stay together, and the  *)
(* requests do to a row only what AgentRow allows.                         *)
(***************************************************************************)
EXTENDS AgentService, Integers, TLAPS

\* Where a request's data come from.
RequestOK(r) ==
    req[r].op # "idle" => req[r].agent \in Agents /\ life[req[r].agent] # "unborn"

\* A transaction that has updated the row holds its lock, and what it has
\* read of the bindings is still there when it unbinds.
TransactionOK(r) ==
    /\ req[r].op \in {"rebind", "commit"} => /\ lock[req[r].agent] = r
                                             /\ life[req[r].agent] = "alive"
    /\ req[r].op = "commit" => req[r].old = bindings[req[r].agent]

Inv == /\ TypeOK
       /\ BindingsAreConfigured
       /\ \A r \in Requests : RequestOK(r) /\ TransactionOK(r)

LEMMA InitInv == Init => Inv
BY DEF Init, Inv, TypeOK, BindingsAreConfigured, RequestOK, TransactionOK, Idle, Statuses, Ops

-----------------------------------------------------------------------------
(* Each kind of step preserves the invariant, for the request that takes   *)
(* it and for the others.                                                  *)

LEMMA BeginInv ==
    ASSUME Inv, NEW r \in Requests, NEW a \in Agents,
           NEW op \in {"update", "delete", "start", "pause"}, NEW asked \in SUBSET Servers,
           Begin(r, a, op, asked)
    PROVE  Inv'
<1>1. TypeOK'
  BY DEF Inv, TypeOK, Begin, Become, agentVars, Ops
<1>2. ASSUME NEW q \in Requests PROVE RequestOK(q)' /\ TransactionOK(q)'
  BY <1>2 DEF Inv, TypeOK, Begin, Become, agentVars, RequestOK, TransactionOK
<1>3. BindingsAreConfigured'
  BY DEF Inv, Begin, agentVars, BindingsAreConfigured
<1> QED
  BY <1>1, <1>2, <1>3 DEF Inv

LEMMA LockInv ==
    ASSUME Inv, NEW r \in Requests, LockRow(r) \/ ListBindings(r)
    PROVE  Inv'
<1>1. TypeOK'
  <2>1. req'[r] \in [op : Ops, agent : Agents \cup {None},
                    asked : SUBSET Servers, old : SUBSET Servers]
    <3>1. CASE LockRow(r)
      BY <3>1 DEF Inv, TypeOK, LockRow, Become, Ops
    <3>2. CASE ListBindings(r)
      BY <3>2 DEF Inv, TypeOK, RequestOK, ListBindings, Become, Ops
    <3> QED
      BY <3>1, <3>2
  <2>2. lock' \in [Agents -> Requests \cup {None}]
    BY DEF Inv, TypeOK, LockRow, ListBindings
  <2>3. req' = [req EXCEPT ![r] = req'[r]] /\ UNCHANGED agentVars
    BY DEF Inv, TypeOK, LockRow, ListBindings, Become
  <2> QED
    BY <2>1, <2>2, <2>3 DEF Inv, TypeOK, agentVars
<1>2. ASSUME NEW q \in Requests PROVE RequestOK(q)' /\ TransactionOK(q)'
  <2>1. CASE LockRow(r)
    BY <1>2, <2>1, NoneAssumption
       DEF Inv, TypeOK, LockRow, Writes, Become, agentVars, RequestOK, TransactionOK
  <2>2. CASE ListBindings(r)
    BY <1>2, <2>2 DEF Inv, TypeOK, ListBindings, Become, agentVars, RequestOK, TransactionOK
  <2> QED
    BY <2>1, <2>2
<1>3. BindingsAreConfigured'
  BY DEF Inv, LockRow, ListBindings, agentVars, BindingsAreConfigured
<1> QED
  BY <1>1, <1>2, <1>3 DEF Inv

\* The old bindings are all of them, so what is left is what was asked for.
LEMMA CommitInv ==
    ASSUME Inv, NEW r \in Requests, CommitUpdate(r)
    PROVE  Inv'
<1> DEFINE a == req[r].agent
<1>1. /\ a \in Agents /\ lock[a] = r /\ life[a] = "alive"
      /\ req[r].old = bindings[a]
  BY DEF Inv, RequestOK, TransactionOK, CommitUpdate
<1>2. TypeOK'
  BY <1>1 DEF Inv, TypeOK, CommitUpdate, Release, Become, Idle, Ops
<1>3. ASSUME NEW q \in Requests PROVE RequestOK(q)' /\ TransactionOK(q)'
  <2>1. CASE q = r
    BY <2>1 DEF Inv, TypeOK, CommitUpdate, Become, Idle, RequestOK, TransactionOK
  <2>2. CASE q # r
    <3>1. req'[q] = req[q] /\ UNCHANGED <<life, status>>
      BY <2>2 DEF Inv, TypeOK, CommitUpdate, Become
    <3>2. RequestOK(q) /\ TransactionOK(q)
      BY DEF Inv
    <3>3. ASSUME req[q].op \in {"rebind", "commit"}
          PROVE  /\ req[q].agent \in Agents /\ req[q].agent # a
                 /\ lock'[req[q].agent] = q
                 /\ bindings'[req[q].agent] = bindings[req[q].agent]
      BY <1>1, <2>2, <3>2, <3>3
         DEF Inv, TypeOK, RequestOK, TransactionOK, CommitUpdate, Release
    <3> QED
      BY <3>1, <3>2, <3>3 DEF RequestOK, TransactionOK
  <2> QED
    BY <2>1, <2>2
<1>4. BindingsAreConfigured'
  <2>1. bindings' = [bindings EXCEPT ![a] = (bindings[a] \ req[r].old) \cup req[r].asked]
        /\ config' = [config EXCEPT ![a] = req[r].asked] /\ UNCHANGED life
    BY DEF CommitUpdate
  <2>2. bindings'[a] = req[r].asked /\ config'[a] = req[r].asked
    BY <1>1, <2>1 DEF Inv, TypeOK
  <2> QED
    BY <1>1, <2>1, <2>2 DEF Inv, TypeOK, BindingsAreConfigured
<1> QED
  BY <1>2, <1>3, <1>4 DEF Inv

\* A row that is locked is not deleted.
LEMMA DeleteInv ==
    ASSUME Inv, NEW r \in Requests, DeleteAgent(r)
    PROVE  Inv'
<1> DEFINE a == req[r].agent
<1>1. a \in Agents /\ lock[a] = None
  BY DEF Inv, RequestOK, DeleteAgent, Writes
<1>2. TypeOK'
  BY <1>1 DEF Inv, TypeOK, DeleteAgent, Become, Idle, Ops
<1>3. ASSUME NEW q \in Requests PROVE RequestOK(q)' /\ TransactionOK(q)'
  <2>1. RequestOK(q) /\ TransactionOK(q)
    BY DEF Inv
  <2>2. req[q].op \in {"rebind", "commit"} => req[q].agent # a
    BY <1>1, <2>1, NoneAssumption DEF TransactionOK
  <2> QED
    BY <1>1, <2>1, <2>2
       DEF Inv, TypeOK, DeleteAgent, Become, Idle, RequestOK, TransactionOK
<1>4. BindingsAreConfigured'
  BY <1>1 DEF Inv, TypeOK, DeleteAgent, BindingsAreConfigured
<1> QED
  BY <1>2, <1>3, <1>4 DEF Inv

\* A status may be written whatever it was.
LEMMA StatusInv ==
    ASSUME Inv, NEW r \in Requests, SetStatus(r)
    PROVE  Inv'
<1>1. req[r].agent \in Agents
  BY DEF Inv, RequestOK, SetStatus, Writes
<1>2. TypeOK'
  BY <1>1 DEF Inv, TypeOK, SetStatus, Become, Idle, Ops, Statuses
<1>3. \A q \in Requests : RequestOK(q)' /\ TransactionOK(q)'
  BY <1>1 DEF Inv, TypeOK, SetStatus, Become, Idle, RequestOK, TransactionOK
<1>4. BindingsAreConfigured'
  BY DEF Inv, SetStatus, BindingsAreConfigured
<1> QED
  BY <1>2, <1>3, <1>4 DEF Inv

\* Only the locks of the request itself are released.
LEMMA EndInv ==
    ASSUME Inv, NEW r \in Requests, Refuse(r) \/ Abort(r)
    PROVE  Inv'
<1>1. TypeOK'
  BY DEF Inv, TypeOK, Refuse, Abort, Release, Become, Idle, Ops, agentVars
<1>2. ASSUME NEW q \in Requests PROVE RequestOK(q)' /\ TransactionOK(q)'
  <2>1. RequestOK(q) /\ TransactionOK(q)
    BY DEF Inv
  <2>2. CASE q = r
    BY <2>2 DEF Inv, TypeOK, Refuse, Abort, Become, Idle, RequestOK, TransactionOK
  <2>3. CASE q # r
    <3>1. req'[q] = req[q] /\ UNCHANGED agentVars
      BY <2>3 DEF Inv, TypeOK, Refuse, Abort, Become
    <3>2. ASSUME req[q].op \in {"rebind", "commit"}
          PROVE  lock'[req[q].agent] = q
      BY <2>1, <2>3, <3>2 DEF RequestOK, TransactionOK, Refuse, Abort, Release
    <3> QED
      BY <2>1, <3>1, <3>2 DEF RequestOK, TransactionOK, agentVars
  <2> QED
    BY <2>2, <2>3
<1>3. BindingsAreConfigured'
  BY DEF Inv, Refuse, Abort, agentVars, BindingsAreConfigured
<1> QED
  BY <1>1, <1>2, <1>3 DEF Inv

\* A row that is created is nobody's business yet.
LEMMA CreateInv ==
    ASSUME Inv, NEW a \in Agents, NEW servers \in SUBSET Servers, Create(a, servers)
    PROVE  Inv'
<1>1. TypeOK'
  BY DEF Inv, TypeOK, Create
<1>2. ASSUME NEW q \in Requests PROVE RequestOK(q)' /\ TransactionOK(q)'
  <2>1. RequestOK(q) /\ TransactionOK(q)
    BY DEF Inv
  <2>2. req[q].op # "idle" => req[q].agent # a
    BY <2>1 DEF RequestOK, Create
  <2>3. UNCHANGED <<status, lock, req>>
    BY DEF Create
  <2>4. req[q].op # "idle" => /\ life'[req[q].agent] = life[req[q].agent]
                              /\ bindings'[req[q].agent] = bindings[req[q].agent]
    BY <2>1, <2>2 DEF Inv, TypeOK, RequestOK, Create
  <2> QED
    BY <2>1, <2>3, <2>4 DEF RequestOK, TransactionOK
<1>3. BindingsAreConfigured'
  BY DEF Inv, TypeOK, Create, BindingsAreConfigured
<1> QED
  BY <1>1, <1>2, <1>3 DEF Inv

LEMMA OthersInv ==
    ASSUME Inv, NEW a \in Agents, Use(a) \/ RiskPause(a)
    PROVE  Inv'
<1>1. TypeOK'
  <2>1. CASE Use(a)
    BY <2>1 DEF Inv, TypeOK, Use
  <2>2. CASE RiskPause(a)
    BY <2>2 DEF Inv, TypeOK, RiskPause, Statuses
  <2> QED
    BY <2>1, <2>2
<1>2. ASSUME NEW q \in Requests PROVE RequestOK(q)' /\ TransactionOK(q)'
  BY DEF Inv, TypeOK, Use, RiskPause, RequestOK, TransactionOK
<1>3. BindingsAreConfigured'
  BY DEF Inv, Use, RiskPause, BindingsAreConfigured
<1> QED
  BY <1>1, <1>2, <1>3 DEF Inv

LEMMA NextInv == Inv /\ [Next]_vars => Inv'
<1> SUFFICES ASSUME Inv, [Next]_vars PROVE Inv'
  OBVIOUS
<1>1. CASE UNCHANGED vars
  BY <1>1 DEF vars, agentVars, Inv, TypeOK, BindingsAreConfigured, RequestOK, TransactionOK
<1>2. ASSUME NEW a \in Agents,
             Use(a) \/ RiskPause(a) \/ \E servers \in SUBSET Servers : Create(a, servers)
      PROVE  Inv'
  BY <1>2, OthersInv, CreateInv
<1>3. ASSUME NEW r \in Requests, Proceed(r) \/ Abort(r) PROVE Inv'
  BY <1>3, LockInv, CommitInv, DeleteInv, StatusInv, EndInv DEF Proceed
<1>4. ASSUME NEW r \in Requests, NEW a \in Agents,
             \/ BeginDelete(r, a) \/ BeginStart(r, a) \/ BeginPause(r, a)
             \/ \E servers \in SUBSET Servers : BeginUpdate(r, a, servers)
      PROVE  Inv'
  BY <1>4, BeginInv DEF BeginDelete, BeginStart, BeginPause, BeginUpdate
<1> QED
  BY <1>1, <1>2, <1>3, <1>4 DEF Next

LEMMA Invariance == Spec => []Inv
BY InitInv, NextInv, PTL DEF Spec

-----------------------------------------------------------------------------
\* An agent's bindings are those its configuration came with, and a deleted
\* agent has none, however many updates and deletions overlap.
THEOREM BindingsStay == Spec => []BindingsAreConfigured
<1>1. Inv => BindingsAreConfigured
  BY DEF Inv
<1> QED
  BY <1>1, Invariance, PTL

\* Every variable keeps its type, whatever the agents, servers and requests.
THEOREM TypeCorrect == Spec => []TypeOK
<1>1. Inv => TypeOK
  BY DEF Inv
<1> QED
  BY <1>1, Invariance, PTL

-----------------------------------------------------------------------------
(* The requests do to a row what AgentRow allows.                          *)

LEMMA RowInit == Init => Row!Init
BY DEF Init, Row!Init

\* Requests that begin, lock, read, are refused or aborted leave the row alone.
LEMMA RowFrame ==
    ASSUME \/ \E r \in Requests : LockRow(r) \/ ListBindings(r) \/ Refuse(r) \/ Abort(r)
           \/ \E r \in Requests, a \in Agents :
                 \/ BeginDelete(r, a) \/ BeginStart(r, a) \/ BeginPause(r, a)
                 \/ \E servers \in SUBSET Servers : BeginUpdate(r, a, servers)
           \/ UNCHANGED vars
    PROVE  UNCHANGED Row!vars
BY DEF LockRow, ListBindings, Refuse, Abort, BeginDelete, BeginStart, BeginPause, BeginUpdate,
       Begin, vars, agentVars, Row!vars

LEMMA RowNext == Inv /\ [Next]_vars => [Row!Next]_(Row!vars)
<1> SUFFICES ASSUME Inv, Next, ~UNCHANGED Row!vars PROVE Row!Next
  BY RowFrame
<1>1. ASSUME NEW a \in Agents, NEW servers \in SUBSET Servers, Create(a, servers)
      PROVE  Row!Next
  <2>1. Row!Create(a, servers)
    BY <1>1 DEF Create, Row!Create
  <2> QED
    BY <2>1 DEF Row!Next
<1>2. ASSUME NEW a \in Agents, Use(a) PROVE Row!Next
  <2>1. Row!Refer(a)
    BY <1>2 DEF Use, Row!Refer, Row!Alive
  <2> QED
    BY <2>1 DEF Row!Next
<1>3. ASSUME NEW a \in Agents, RiskPause(a) PROVE Row!Next
  <2>1. Row!SetStatus(a, "paused")
    BY <1>3 DEF RiskPause, Row!SetStatus, Row!Alive
  <2> QED
    BY <2>1 DEF Row!Next, Row!Serve
<1>4. ASSUME NEW r \in Requests, CommitUpdate(r) PROVE Row!Next
  <2>1. /\ req[r].agent \in Agents /\ life[req[r].agent] = "alive"
        /\ req[r].asked \in SUBSET Servers
    BY <1>4 DEF CommitUpdate, Inv, TypeOK, RequestOK, TransactionOK
  <2>2. Row!Configure(req[r].agent, req[r].asked)
    BY <1>4, <2>1 DEF CommitUpdate, Row!Configure, Row!Alive
  <2> QED
    BY <2>1, <2>2 DEF Row!Next, Row!Serve
<1>5. ASSUME NEW r \in Requests, DeleteAgent(r), life[req[r].agent] = "alive" PROVE Row!Next
  <2>1. req[r].agent \in Agents
    BY <1>5 DEF DeleteAgent, Writes, Inv, RequestOK
  <2>2. Row!Delete(req[r].agent)
    BY <1>5 DEF DeleteAgent, Row!Delete, Row!Alive
  <2> QED
    BY <2>1, <2>2 DEF Row!Next, Row!Serve
<1>6. ASSUME NEW r \in Requests, DeleteAgent(r), life[req[r].agent] # "alive" PROVE FALSE
  \* Another request has deleted the row: the statement changes nothing.
  <2>1. life[req[r].agent] = "deleted"
    BY <1>6 DEF DeleteAgent, Writes, Inv, TypeOK, RequestOK
  <2> QED
    BY <1>6, <2>1 DEF DeleteAgent, Row!vars, Inv, TypeOK
<1>7. ASSUME NEW r \in Requests, SetStatus(r) PROVE Row!Next
  <2> DEFINE a == req[r].agent
  <2>1. a \in Agents
    BY <1>7 DEF SetStatus, Writes, Inv, RequestOK
  <2>2. \E s \in {"running", "paused"} : Row!SetStatus(a, s)
    BY <1>7 DEF SetStatus, Writes, Inv, RequestOK, Row!SetStatus, Row!Alive
  <2> QED
    BY <2>1, <2>2 DEF Row!Next, Row!Serve
<1> QED
  BY <1>1, <1>2, <1>3, <1>4, <1>5, <1>6, <1>7, RowFrame DEF Next, Proceed

\* Requests of several statements, interleaved in any way, are to an agent's
\* row what AgentRow says: the assumption the engine's proofs make of them.
THEOREM RequestsImplementRow == Spec => ImplementsAgentRow
BY RowInit, RowNext, Invariance, PTL DEF Spec, ImplementsAgentRow, Row!Spec

-----------------------------------------------------------------------------
(* Requests return: the part of it that is not about fairness.             *)

\* A locked row is locked by a request whose transaction is under way on it,
\* and no statement of which waits for a lock.
LocksAreHeld ==
    \A a \in Agents : lock[a] # None => /\ req[lock[a]].op \in {"rebind", "commit"}
                                        /\ req[lock[a]].agent = a

LEMMA LocksNext == Inv /\ LocksAreHeld /\ [Next]_vars => LocksAreHeld'
<1> SUFFICES ASSUME Inv, LocksAreHeld, [Next]_vars PROVE LocksAreHeld'
  OBVIOUS
<1> USE DEF LocksAreHeld
<1>1. CASE UNCHANGED vars
  BY <1>1 DEF vars
<1>2. ASSUME NEW a \in Agents,
             Use(a) \/ RiskPause(a) \/ \E servers \in SUBSET Servers : Create(a, servers)
      PROVE  LocksAreHeld'
  BY <1>2 DEF Use, RiskPause, Create
<1>3. ASSUME NEW r \in Requests, Refuse(r) \/ DeleteAgent(r) \/ SetStatus(r)
      PROVE  LocksAreHeld'
  BY <1>3 DEF Refuse, DeleteAgent, SetStatus, Writes, Become, Inv, TypeOK
<1>4. ASSUME NEW r \in Requests, CommitUpdate(r) \/ Abort(r)
      PROVE  LocksAreHeld'
  BY <1>4, NoneAssumption DEF CommitUpdate, Abort, Release, Become, Inv, TypeOK
<1>5. ASSUME NEW r \in Requests, LockRow(r)
      PROVE  LocksAreHeld'
  BY <1>5, NoneAssumption DEF LockRow, Writes, Become, Inv, TypeOK
<1>6. ASSUME NEW r \in Requests, ListBindings(r)
      PROVE  LocksAreHeld'
  BY <1>6, NoneAssumption DEF ListBindings, Become, Inv, TypeOK
<1>7. ASSUME NEW r \in Requests, NEW a \in Agents,
             \/ BeginDelete(r, a) \/ BeginStart(r, a) \/ BeginPause(r, a)
             \/ \E servers \in SUBSET Servers : BeginUpdate(r, a, servers)
      PROVE  LocksAreHeld'
  BY <1>7, NoneAssumption DEF BeginDelete, BeginStart, BeginPause, BeginUpdate, Begin, Become,
                              Idle, Inv, TypeOK
<1> QED
  BY <1>1, <1>2, <1>3, <1>4, <1>5, <1>6, <1>7 DEF Next, Proceed

\* No transaction leaves its lock behind, whatever fails or is aborted, and who
\* holds a lock never waits for another: there is no circle of waiters.
THEOREM NoOrphanLocks == Spec => []LocksAreHeld
<1>1. Init => LocksAreHeld
  BY DEF Init, LocksAreHeld
<1> QED
  BY <1>1, LocksNext, InitInv, NextInv, PTL DEF Spec

\* The statements a request still has to get through.
StatementsLeft(r) ==
    CASE req[r].op = "idle"   -> 0
      [] req[r].op = "update" -> 3
      [] req[r].op = "rebind" -> 2
      [] OTHER                -> 1

\* Each statement brings its request closer to its end, and nobody else's
\* takes it back: with the fairness of Proceed this is why RequestsReturn holds.
RequestProgress ==
    \A r \in Requests : req[r] # Idle =>
        /\ StatementsLeft(r)' <= StatementsLeft(r)
        /\ Proceed(r) => StatementsLeft(r)' < StatementsLeft(r)

\* A request executes at most three statements once it has begun (Update: lock
\* the row, list the bindings, commit).
THEOREM RequestStatementsBounded == Spec => [][RequestProgress]_vars
<1>1. ASSUME Inv, [Next]_vars, NEW r \in Requests, req[r] # Idle
      PROVE  /\ StatementsLeft(r)' <= StatementsLeft(r)
             /\ Proceed(r) => StatementsLeft(r)' < StatementsLeft(r)
  <2>1. ASSUME Proceed(r) PROVE StatementsLeft(r)' < StatementsLeft(r)
    <3>1. CASE LockRow(r)
      <4>1. req[r].op = "update" /\ req'[r].op = "rebind"
        BY <1>1, <3>1 DEF LockRow, Writes, Become, Inv, TypeOK
      <4> QED
        BY <4>1 DEF StatementsLeft
    <3>2. CASE ListBindings(r)
      <4>1. req[r].op = "rebind" /\ req'[r].op = "commit"
        BY <1>1, <3>2 DEF ListBindings, Become, Inv, TypeOK
      <4> QED
        BY <4>1 DEF StatementsLeft
    <3>3. CASE CommitUpdate(r) \/ DeleteAgent(r) \/ SetStatus(r) \/ Refuse(r)
      <4>1. req'[r] = Idle
        BY <1>1, <3>3 DEF CommitUpdate, DeleteAgent, SetStatus, Refuse, Become, Inv, TypeOK
      <4>2. req[r].op # "idle"
        BY <3>3 DEF CommitUpdate, DeleteAgent, SetStatus, Refuse, Writes
      <4> QED
        BY <4>1, <4>2 DEF StatementsLeft, Idle
    <3> QED
      BY <2>1, <3>1, <3>2, <3>3 DEF Proceed
  <2>2. ASSUME req'[r] = req[r] PROVE StatementsLeft(r)' <= StatementsLeft(r)
    BY <2>2 DEF StatementsLeft
  <2>3. ASSUME req'[r] = Idle PROVE StatementsLeft(r)' <= StatementsLeft(r)
    BY <2>3 DEF StatementsLeft, Idle
  <2>4. ASSUME Proceed(r) PROVE StatementsLeft(r)' <= StatementsLeft(r)
    <3>1. StatementsLeft(r) \in 0..3 /\ StatementsLeft(r)' \in 0..3
      BY DEF StatementsLeft
    <3> QED
      BY <2>1, <2>4, <3>1
  <2>5. req'[r] = req[r] \/ req'[r] = Idle \/ Proceed(r)
    <3> USE DEF Become, Inv, TypeOK
    <3>1. CASE UNCHANGED vars
      BY <3>1 DEF vars
    <3>2. CASE \E a \in Agents : Use(a) \/ RiskPause(a) \/ \E servers \in SUBSET Servers : Create(a, servers)
      BY <3>2 DEF Use, RiskPause, Create
    <3>3. CASE \E q \in Requests : Abort(q)
      BY <1>1, <3>3 DEF Abort
    <3>4. ASSUME NEW q \in Requests \ {r}, Proceed(q)
          PROVE  req'[r] = req[r]
      BY <1>1, <3>4 DEF Proceed, LockRow, ListBindings, CommitUpdate, DeleteAgent, SetStatus, Refuse
    <3>5. CASE \E q \in Requests, a \in Agents :
                 \/ BeginDelete(q, a) \/ BeginStart(q, a) \/ BeginPause(q, a)
                 \/ \E servers \in SUBSET Servers : BeginUpdate(q, a, servers)
      BY <1>1, <3>5 DEF BeginDelete, BeginStart, BeginPause, BeginUpdate, Begin
    <3> QED
      BY <1>1, <3>1, <3>2, <3>3, <3>4, <3>5 DEF Next
  <2> QED
    BY <2>1, <2>2, <2>3, <2>4, <2>5
<1>2. Inv /\ [Next]_vars => RequestProgress
  BY <1>1 DEF RequestProgress
<1> QED
  BY <1>2, InitInv, NextInv, PTL DEF Spec

=============================================================================
