------------------------------ MODULE AgentRow ------------------------------
(***************************************************************************)
(* The row of `agents` as the services and the engine share it: what each  *)
(* of them may do to it, and nothing else.  A row is created once, changed *)
(* while it is there, and deleted only as long as no other table refers to *)
(* it (migrations/001_init.sql: foreign keys without ON DELETE CASCADE).   *)
(* AgentService implements this module; Engine takes its environment's     *)
(* steps and its own writes to the row from it.                            *)
(***************************************************************************)
CONSTANTS Agents, Confs

VARIABLES life,       \* "unborn", "alive" or "deleted"
          status, conf,
          inUse       \* rows of other tables refer to it

vars == <<life, status, conf, inUse>>

Init == /\ life = [a \in Agents |-> "unborn"]
        /\ status = [a \in Agents |-> "created"]
        /\ conf \in [Agents -> Confs]
        /\ inUse = [a \in Agents |-> FALSE]

Alive(a) == life[a] = "alive"

Create(a, c) ==
    /\ life[a] = "unborn"
    /\ life' = [life EXCEPT ![a] = "alive"]
    /\ conf' = [conf EXCEPT ![a] = c]
    /\ UNCHANGED <<status, inUse>>

Configure(a, c) ==
    /\ Alive(a)
    /\ conf' = [conf EXCEPT ![a] = c]
    /\ UNCHANGED <<life, status, inUse>>

SetStatus(a, s) ==
    /\ Alive(a)
    /\ status' = [status EXCEPT ![a] = s]
    /\ UNCHANGED <<life, conf, inUse>>

Delete(a) ==
    /\ Alive(a) /\ ~inUse[a]
    /\ life' = [life EXCEPT ![a] = "deleted"]
    /\ UNCHANGED <<status, conf, inUse>>

\* A row of another table that refers to this one is inserted.
Refer(a) ==
    /\ Alive(a)
    /\ inUse' = [inUse EXCEPT ![a] = TRUE]
    /\ UNCHANGED <<life, status, conf>>

\* A step of the services on an agent that exists.
Serve(a) == \/ \E c \in Confs : Configure(a, c)
            \/ \E s \in {"running", "paused"} : SetStatus(a, s)
            \/ Delete(a)

Next == \E a \in Agents : Serve(a) \/ Refer(a) \/ \E c \in Confs : Create(a, c)

Spec == Init /\ [][Next]_vars
=============================================================================
