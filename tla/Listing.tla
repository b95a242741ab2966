------------------------------ MODULE Listing -------------------------------
(***************************************************************************)
(* GET /api/agents (internal/agent): a client goes through its agents page *)
(* by page, newest first, while agents are created and deleted.            *)
(*                                                                         *)
(* Each page is a request of its own: the JWT middleware checks the token, *)
(* List runs one query for limit + 1 rows, and the time of the row that is *)
(* one too many becomes the cursor of the next page.  Rows of equal time   *)
(* come in any order.  A token that expires between two pages is replaced  *)
(* by another of the same user; the cursor stays good.                     *)
(***************************************************************************)
EXTENDS Auth, FiniteSets

CONSTANTS Agents,
          Owner,         \* each agent's user
          Clients,       \* traversals under way
          Asked,         \* what int32(limit) may be in a request
          DefaultLimit, MaxLimit,   \* 20 and 100
          MaxCreate      \* the longest a Create transaction takes

ASSUME OwnerAssumption == Owner \in [Agents -> Users]
ASSUME LimitAssumption == /\ DefaultLimit \in Nat \ {0} /\ MaxLimit \in Nat
                          /\ MaxCreate \in Nat /\ Asked \subseteq Int

VARIABLES created,   \* agents.created_at, None for a row not created yet
          gone,      \* the agents whose row was deleted
          client     \* each traversal, see Traversals

rowVars == <<created, gone>>
vars    == <<authVars, rowVars, client>>

\* What a client has, and what it went through.
Traversals ==
    [user    : Users \cup {None},   \* whose agents
     pc      : {"idle", "sent", "paged", "done"},
     at      : Times,               \* when the middleware let the last request pass
     cursor  : Times \cup {None},   \* next_cursor of the last answer
     page    : SUBSET Agents,       \* the last answer
     seen    : SUBSET Agents,       \* the answers before it
     cursors : SUBSET Times,        \* every cursor so far
     always  : SUBSET Agents]       \* agents there since the first query

Blank == [user |-> None, pc |-> "idle", at |-> 0, cursor |-> None, page |-> {},
          seen |-> {}, cursors |-> {}, always |-> {}]

Init == /\ AuthInit
        /\ created = [a \in Agents |-> None]
        /\ gone = {}
        /\ client = [c \in Clients |-> Blank]

Rows(u) == {a \in Agents : Owner[a] = u /\ created[a] # None /\ a \notin gone}

\* created_at is NOW(), the beginning of Create's transaction; the row is there
\* when it commits.
Create(a) ==
    /\ created[a] = None
    /\ \E t \in Times : /\ now - MaxCreate <= t /\ t <= now
                        /\ created' = [created EXCEPT ![a] = t]
    /\ UNCHANGED <<authVars, gone, client>>

Delete(a) ==
    /\ created[a] # None /\ a \notin gone
    /\ gone' = gone \cup {a}
    /\ client' = [c \in Clients |-> [client[c] EXCEPT !.always = client[c].always \ {a}]]
    /\ UNCHANGED <<authVars, created>>

\* The request for the first page or the next one passes JWTMiddleware, whose
\* claims say whose agents are listed.
JWTMiddleware(c, t) ==
    /\ ValidateJWT(t)
    /\ \/ client[c].pc = "idle"
       \/ client[c].pc = "paged" /\ client[c].user = t.sub
    /\ client' = [client EXCEPT ![c] =
                     [@ EXCEPT !.pc = "sent", !.user = t.sub, !.at = now,
                               !.page = {},
                               !.seen = client[c].seen \cup client[c].page]]
    /\ UNCHANGED <<authVars, rowVars>>

\* The limit the query works with: the handler passes on what is a positive
\* number, List takes no more than its maximum.
PageSize(asked) == IF asked \in 1..MaxLimit THEN asked ELSE DefaultLimit

\* Mutant: the row the cursor is from is asked for again.
MutOlder(u, cursor) ==
    {a \in Rows(u) : cursor # None => created[a] <= cursor}

\* ListAgentsByUser, or ListAgentsByUserCursor when there is a cursor.
Older(u, cursor) ==
    {a \in Rows(u) : cursor # None => created[a] < cursor}

\* Mutant: DESC is missing.
MutFirst(S, n) ==
    {F \in SUBSET S : \/ F = S /\ Cardinality(S) <= n
                      \/ /\ Cardinality(F) = n
                         /\ \A a \in F, b \in S \ F : created[a] <= created[b]}

\* ORDER BY created_at DESC LIMIT n, in whatever order rows of one time come.
First(S, n) ==
    {F \in SUBSET S : \/ F = S /\ Cardinality(S) <= n
                      \/ /\ Cardinality(F) = n
                         /\ \A a \in F, b \in S \ F : created[a] >= created[b]}

Last(F) == {a \in F : \A b \in F : created[b] >= created[a]}

\* What an answer with these rows and this cursor makes of a traversal.
Answered(d, rows, cursor) ==
    [d EXCEPT !.pc = IF cursor = None THEN "done" ELSE "paged",
              !.page = rows,
              !.cursor = cursor,
              !.cursors = d.cursors \cup ({cursor} \ {None}),
              !.always = IF d.cursor = None THEN Rows(d.user) ELSE d.always]

\* One row more than the page holds says that there is a next page, and lends
\* it its time as the cursor.
List(c) ==
    /\ client[c].pc = "sent"
    /\ \E asked \in Asked :
       \E F \in First(Older(client[c].user, client[c].cursor), PageSize(asked) + 1) :
          \/ /\ Cardinality(F) > PageSize(asked)
             /\ \E x \in Last(F) :
                   client' = [client EXCEPT ![c] = Answered(@, F \ {x}, created[x])]
          \/ /\ Cardinality(F) <= PageSize(asked)
             /\ client' = [client EXCEPT ![c] = Answered(@, F, None)]
    /\ UNCHANGED <<authVars, rowVars>>

\* The query fails, or the answer is lost: the client asks again.
ListFails(c) ==
    /\ client[c].pc = "sent"
    /\ client' = [client EXCEPT ![c] = IF @.cursor = None THEN Blank
                                       ELSE [@ EXCEPT !.pc = "paged"]]
    /\ UNCHANGED <<authVars, rowVars>>

Next == \/ AuthNext /\ UNCHANGED <<rowVars, client>>
        \/ \E a \in Agents : Create(a) \/ Delete(a)
        \/ \E c \in Clients : \/ List(c) \/ ListFails(c)
                              \/ \E t \in tokens : JWTMiddleware(c, t)

Spec == Init /\ [][Next]_vars

-----------------------------------------------------------------------------
TypeOK == /\ AuthTypeOK
          /\ created \in [Agents -> Times \cup {None}]
          /\ gone \subseteq Agents
          /\ client \in [Clients -> Traversals]

\* Whoever was answered had signed a message in the time to live of its nonce
\* and held a token for it that had not expired when the request came, and was
\* shown rows of its own only (JWTMiddleware, HandleList).
AnswersAreAuthorized ==
    \A c \in Clients : client[c].pc # "idle" =>
        /\ \E t \in tokens : t.sub = client[c].user /\ t.spentAt <= client[c].at
                             /\ client[c].at < t.exp
        /\ \A a \in client[c].page \cup client[c].seen : Owner[a] = client[c].user

\* Every page is older than all before it, whatever is created in between and
\* however rows of one time are ordered: nothing is listed twice.
PagesDescend ==
    \A c \in Clients : \A a \in client[c].page, b \in client[c].seen :
        created[a] < created[b]

\* Who has gone through all pages has seen every agent that was there all the
\* time, but for those created at the very time of a cursor (List takes the
\* cursor from a row it has not listed, and then asks for older ones).
ListedOrAtCursor ==
    \A c \in Clients : client[c].pc = "done" =>
        \A a \in client[c].always \ (client[c].page \cup client[c].seen) :
            created[a] \in client[c].cursors
=============================================================================
