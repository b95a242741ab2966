---------------------------- MODULE AgentService ----------------------------
(***************************************************************************)
(* internal/agent/agent.go: the rows of agents and agent_mcp_bindings, and *)
(* the requests that create, update, delete, start and pause agents.       *)
(*                                                                         *)
(* Each operation reads the agent first (GetAgent, the owner, the status)  *)
(* and writes in a later statement or transaction; requests interleave in  *)
(* between.  PostgreSQL locks a row from the statement that writes it to   *)
(* the end of its transaction, shows others committed rows only            *)
(* (READ COMMITTED) and refuses to delete a row that others refer to.      *)
(*                                                                         *)
(* AgentRow is what they promise the engine, which shares the row.         *)
(*                                                                         *)
(* A request is made by the agent's owner (any other gets ErrForbidden and *)
(* changes nothing), and passes validateCreate or validateUpdate.          *)
(***************************************************************************)
EXTENDS FiniteSets

CONSTANTS Agents,     \* agent ids, each for one Create
          Servers,    \* registered MCP servers
          Requests,   \* requests under way
          None

ASSUME NoneAssumption == None \notin Agents \cup Requests

VARIABLES
    life,       \* "unborn", "alive", "deleted": whether agents has the row
    status,     \* agents.status
    config,     \* what the row's configuration came with: the servers asked for
    bindings,   \* agent_mcp_bindings
    inUse,      \* rows of other tables refer to the agent
    lock,       \* the request whose transaction has locked the row
    req         \* [op, agent, asked, old] of each request

agentVars == <<life, status, config, bindings, inUse>>
vars      == <<agentVars, lock, req>>

Statuses == {"created", "running", "paused"}
Ops      == {"idle", "update", "rebind", "commit", "delete", "start", "pause"}
Idle     == [op |-> "idle", agent |-> None, asked |-> {}, old |-> {}]

Init == /\ life = [a \in Agents |-> "unborn"]
        /\ status = [a \in Agents |-> "created"]
        /\ config = [a \in Agents |-> {}]
        /\ bindings = [a \in Agents |-> {}]
        /\ inUse = [a \in Agents |-> FALSE]
        /\ lock = [a \in Agents |-> None]
        /\ req = [r \in Requests |-> Idle]

-----------------------------------------------------------------------------
(* Requests.                                                               *)

Become(r, state) == req' = [req EXCEPT ![r] = state]

\* GetAgent and the owner's check, with which every request but Create starts.
Begin(r, a, op, asked) ==
    /\ req[r] = Idle /\ life[a] = "alive"
    /\ Become(r, [op |-> op, agent |-> a, asked |-> asked, old |-> {}])
    /\ UNCHANGED <<agentVars, lock>>

\* A statement that writes the agent's row waits for the row's lock.
Writes(r, op) == /\ req[r].op = op
                 /\ lock[req[r].agent] = None

\* Create: nobody sees the row or its bindings before the commit, so its
\* transaction is one step.  Invalid servers roll it back.
Create(a, servers) ==
    /\ life[a] = "unborn"
    /\ life' = [life EXCEPT ![a] = "alive"]
    /\ config' = [config EXCEPT ![a] = servers]
    /\ bindings' = [bindings EXCEPT ![a] = servers]
    /\ UNCHANGED <<status, inUse, lock, req>>

BeginUpdate(r, a, servers) == Begin(r, a, "update", servers)

\* Mutant: the row is updated outside the transaction, which locks nothing.
MutLockRow(r) ==
    /\ Writes(r, "update")
    /\ life[req[r].agent] = "alive"
    /\ Become(r, [req[r] EXCEPT !.op = "rebind"])
    /\ UNCHANGED <<agentVars, lock>>

\* The transaction's first statement, UpdateAgent, locks the row.  (Without a
\* row it returns ErrNoRows: Refuse.)
LockRow(r) ==
    /\ Writes(r, "update")
    /\ life[req[r].agent] = "alive"
    /\ lock' = [lock EXCEPT ![req[r].agent] = r]
    /\ Become(r, [req[r] EXCEPT !.op = "rebind"])
    /\ UNCHANGED agentVars

\* ListAgentMCPServers.
ListBindings(r) ==
    /\ req[r].op = "rebind"
    /\ Become(r, [req[r] EXCEPT !.op = "commit", !.old = bindings[req[r].agent]])
    /\ UNCHANGED <<agentVars, lock>>

Release(r) == lock' = [a \in Agents |-> IF lock[a] = r THEN None ELSE lock[a]]

\* Unbind the old servers, bind the new ones (ON CONFLICT DO NOTHING), commit.
CommitUpdate(r) ==
    LET d == req[r]
    IN  /\ d.op = "commit"
        /\ config' = [config EXCEPT ![d.agent] = d.asked]
        /\ bindings' = [bindings EXCEPT ![d.agent] = (@ \ d.old) \cup d.asked]
        /\ Release(r)
        /\ Become(r, Idle)
        /\ UNCHANGED <<life, status, inUse>>

BeginDelete(r, a) == Begin(r, a, "delete", {})

\* Mutant: no foreign key keeps a row that others refer to.
MutDeleteAgent(r) ==
    /\ Writes(r, "delete")
    /\ life' = [life EXCEPT ![req[r].agent] = "deleted"]
    /\ bindings' = [bindings EXCEPT ![req[r].agent] = {}]
    /\ Become(r, Idle)
    /\ UNCHANGED <<status, config, inUse, lock>>

\* DeleteAgent; the bindings go with it.  An agent that trades, cycles,
\* investments, events or ledger entries refer to is not deleted (Refuse).
DeleteAgent(r) ==
    /\ Writes(r, "delete")
    /\ ~inUse[req[r].agent]
    /\ life' = [life EXCEPT ![req[r].agent] = "deleted"]
    /\ bindings' = [bindings EXCEPT ![req[r].agent] = {}]
    /\ Become(r, Idle)
    /\ UNCHANGED <<status, config, inUse, lock>>

\* Start's and Pause's check of the status they have read.
BeginStart(r, a) == status[a] \in {"created", "paused"} /\ Begin(r, a, "start", {})

BeginPause(r, a) == status[a] = "running" /\ Begin(r, a, "pause", {})

\* Mutant: the row gets the name of the operation.
MutSetStatus(r) ==
    /\ req[r].op \in {"start", "pause"} /\ Writes(r, req[r].op)
    /\ life[req[r].agent] = "alive"
    /\ status' = [status EXCEPT ![req[r].agent] = req[r].op]
    /\ Become(r, Idle)
    /\ UNCHANGED <<life, config, bindings, inUse, lock>>

\* UpdateAgentStatus has no condition on the status.
SetStatus(r) ==
    LET a == req[r].agent
    IN  /\ \/ Writes(r, "start") /\ status' = [status EXCEPT ![a] = "running"]
           \/ Writes(r, "pause") /\ status' = [status EXCEPT ![a] = "paused"]
        /\ life[a] = "alive"
        /\ Become(r, Idle)
        /\ UNCHANGED <<life, config, bindings, inUse, lock>>

\* The statement finds no row (ErrNoRows), or rows that refer to it.
Refuse(r) ==
    LET d == req[r]
    IN  /\ \/ d.op \in {"update", "start", "pause"} /\ life[d.agent] = "deleted"
           \/ d.op = "delete" /\ inUse[d.agent]
        /\ Writes(r, d.op)
        /\ Become(r, Idle)
        /\ UNCHANGED <<agentVars, lock>>

\* Mutant: the deferred Rollback is missing.
MutAbort(r) == /\ req[r] # Idle
               /\ Become(r, Idle)
               /\ UNCHANGED <<agentVars, lock>>

\* Any statement may fail, the connection be lost or a server's id be
\* invalid: an error is returned and the transaction rolled back.  (A request
\* given up while its last statement is under way is, to the row, one that has
\* not ended yet.)
Abort(r) == /\ req[r] # Idle
            /\ Release(r)
            /\ Become(r, Idle)
            /\ UNCHANGED agentVars

\* What a request does once it has begun.
Proceed(r) == \/ LockRow(r) \/ ListBindings(r) \/ CommitUpdate(r)
              \/ DeleteAgent(r) \/ SetStatus(r) \/ Refuse(r)

-----------------------------------------------------------------------------
(* The engine and the investment service.                                  *)

\* The first trade, cycle, event, investment or ledger entry.
Use(a) == /\ life[a] = "alive"
          /\ inUse' = [inUse EXCEPT ![a] = TRUE]
          /\ UNCHANGED <<life, status, config, bindings, lock, req>>

\* The engine pauses an agent, whatever its status: StartAgent looks at none.
RiskPause(a) == /\ life[a] = "alive" /\ lock[a] = None
                /\ status' = [status EXCEPT ![a] = "paused"]
                /\ UNCHANGED <<life, config, bindings, inUse, lock, req>>

Next == \/ \E a \in Agents : \/ Use(a) \/ RiskPause(a)
                             \/ \E servers \in SUBSET Servers : Create(a, servers)
        \/ \E r \in Requests :
              \/ Proceed(r) \/ Abort(r)
              \/ \E a \in Agents : \/ BeginDelete(r, a) \/ BeginStart(r, a) \/ BeginPause(r, a)
                                   \/ \E servers \in SUBSET Servers : BeginUpdate(r, a, servers)

Spec == Init /\ [][Next]_vars

\* A request that waits for a row gets it: PostgreSQL queues the waiters.
Fairness == \A r \in Requests : SF_vars(Proceed(r))

FairSpec == Spec /\ Fairness

-----------------------------------------------------------------------------
(* Properties.                                                             *)

TypeOK ==
    /\ life \in [Agents -> {"unborn", "alive", "deleted"}]
    /\ status \in [Agents -> Statuses]
    /\ config \in [Agents -> SUBSET Servers]
    /\ bindings \in [Agents -> SUBSET Servers]
    /\ inUse \in [Agents -> BOOLEAN]
    /\ lock \in [Agents -> Requests \cup {None}]
    /\ req \in [Requests -> [op : Ops, agent : Agents \cup {None},
                            asked : SUBSET Servers, old : SUBSET Servers]]

\* However updates and deletions of an agent interleave, fail or overtake each
\* other, its bindings are those asked for by the request that wrote its
\* configuration, and a deleted agent has none (Update, Delete;
\* agent_pbt_test.go:279, "Agent deletion removes all traces").
BindingsAreConfigured ==
    \A a \in Agents : bindings[a] = IF life[a] = "deleted" THEN {} ELSE config[a]

Row == INSTANCE AgentRow WITH Confs <- SUBSET Servers, conf <- config

\* The requests, each of several statements, together do to an agent's row only
\* what AgentRow allows: an update or a change of status never reaches a row
\* that is gone, although it was there when the request looked, and nothing is
\* deleted that other rows came to refer to since (Update, Delete, Start, Pause).
ImplementsAgentRow == Row!Spec

\* Every request returns: no transaction leaves its lock behind, and waiting
\* for a lock is not for ever (Store.Tx).
RequestsReturn == \A r \in Requests : req[r] # Idle ~> req[r] = Idle
=============================================================================
