--------------------------- MODULE ListingProofs ----------------------------
(***************************************************************************)
(* Theorems about Auth and Listing, for any users, nonces, agents, limits  *)
(* and times to live: a nonce buys one token, answers go to their owners,  *)
(* pages descend, and what a traversal misses sat at one of its cursors.   *)
(***************************************************************************)
EXTENDS Listing, TLAPS

-----------------------------------------------------------------------------
(* Types.                                                                  *)

LEMMA TypeInit == Init => TypeOK
BY TimeAssumption DEF Init, AuthInit, TypeOK, AuthTypeOK, Times, Idle, Blank, Traversals

LEMMA TypeAuth == TypeOK /\ AuthNext /\ UNCHANGED <<rowVars, client>> => TypeOK'
<1> SUFFICES ASSUME TypeOK, AuthNext, UNCHANGED <<rowVars, client>> PROVE TypeOK'
  OBVIOUS
<1> USE TimeAssumption DEF TypeOK, AuthTypeOK, Times, rowVars, nonceVars
<1>1. CASE Tick
  BY <1>1 DEF Tick
<1>2. CASE \E n \in Nonces : GenerateNonce(n)
  BY <1>2 DEF GenerateNonce
<1>3. CASE \E r \in Requests : Abandon(r)
  BY <1>3 DEF Abandon, Idle
<1>4. ASSUME NEW r \in Requests, issueJWT(r) PROVE TypeOK'
  <2>1. verify[r].user \in Users /\ verify[r].nonce \in Nonces /\ verify[r].spentAt \in Times
    BY <1>4 DEF issueJWT
  <2> QED
    BY <1>4, <2>1 DEF issueJWT, Idle
<1>5. CASE \E r \in Requests, u \in Users, n \in Nonces : GetDel(r, u, n)
  BY <1>5 DEF GetDel, Spent
<1> QED
  BY <1>1, <1>2, <1>3, <1>4, <1>5 DEF AuthNext

LEMMA TypeListing ==
    ASSUME TypeOK,
           \/ \E a \in Agents : Create(a) \/ Delete(a)
           \/ \E c \in Clients : \/ List(c) \/ ListFails(c)
                                 \/ \E t \in tokens : JWTMiddleware(c, t)
    PROVE  TypeOK'
<1> USE DEF TypeOK
<1> SUFFICES /\ created' \in [Agents -> Times \cup {None}]
             /\ gone' \subseteq Agents
             /\ client' \in [Clients -> Traversals]
             /\ AuthTypeOK'
  OBVIOUS
<1>1. AuthTypeOK'
  BY DEF Create, Delete, List, ListFails, JWTMiddleware, authVars, nonceVars, AuthTypeOK
<1>2. CASE \E a \in Agents : Create(a)
  BY <1>1, <1>2 DEF Create
<1>3. CASE \E a \in Agents : Delete(a)
  <2>1. \A c \in Clients, a \in Agents :
           [client[c] EXCEPT !.always = client[c].always \ {a}] \in Traversals
    BY DEF Traversals
  <2> QED
    BY <1>1, <1>3, <2>1 DEF Delete
<1>4. ASSUME NEW c \in Clients, NEW t \in tokens, JWTMiddleware(c, t) PROVE TypeOK'
  <2>1. t.sub \in Users /\ now \in Times
    BY DEF AuthTypeOK
  <2> DEFINE d == [client[c] EXCEPT !.pc = "sent", !.user = t.sub, !.at = now,
                                    !.page = {}, !.seen = client[c].seen \cup client[c].page]
  <2>2. d \in Traversals
    BY <2>1 DEF Traversals
  <2>3. client' = [client EXCEPT ![c] = d] /\ UNCHANGED rowVars
    BY <1>4 DEF JWTMiddleware
  <2> HIDE DEF d
  <2> QED
    BY <1>1, <2>2, <2>3 DEF rowVars
<1>5. CASE \E c \in Clients : ListFails(c)
  <2>1. Blank \in Traversals
    BY TimeAssumption DEF Blank, Traversals, Times
  <2>2. \A c \in Clients : [client[c] EXCEPT !.pc = "paged"] \in Traversals
    BY DEF Traversals
  <2> QED
    BY <1>1, <1>5, <2>1, <2>2 DEF ListFails, rowVars
<1>6. ASSUME NEW c \in Clients, List(c) PROVE TypeOK'
  <2>1. ASSUME NEW F \in SUBSET Agents, NEW cursor \in Times \cup {None}
        PROVE  Answered(client[c], F, cursor) \in Traversals
    BY DEF Answered, Traversals, Rows
  <2>2. \A S \in SUBSET Agents : \A n : First(S, n) \subseteq SUBSET Agents
    BY DEF First
  <2>3. Older(client[c].user, client[c].cursor) \in SUBSET Agents
    BY DEF Older, Rows
  <2>4. \E d \in Traversals : client' = [client EXCEPT ![c] = d]
    <3>0. PICK asked \in Asked :
            \E F \in First(Older(client[c].user, client[c].cursor), PageSize(asked) + 1) :
             \/ \E x \in Last(F) : client' = [client EXCEPT ![c] = Answered(@, F \ {x}, created[x])]
             \/ client' = [client EXCEPT ![c] = Answered(@, F, None)]
      BY <1>6 DEF List
    <3>1. PICK F \in First(Older(client[c].user, client[c].cursor), PageSize(asked) + 1) :
             \/ \E x \in Last(F) : client' = [client EXCEPT ![c] = Answered(@, F \ {x}, created[x])]
             \/ client' = [client EXCEPT ![c] = Answered(@, F, None)]
      BY <3>0
    <3>2. F \in SUBSET Agents
      BY <2>2, <2>3
    <3>3. CASE client' = [client EXCEPT ![c] = Answered(@, F, None)]
      BY <2>1, <3>2, <3>3
    <3>4. ASSUME NEW x \in Last(F),
                 client' = [client EXCEPT ![c] = Answered(@, F \ {x}, created[x])]
          PROVE  \E d \in Traversals : client' = [client EXCEPT ![c] = d]
      <4>1. x \in Agents /\ created[x] \in Times \cup {None}
        BY <3>2 DEF Last
      <4> QED
        BY <2>1, <3>2, <3>4, <4>1
    <3> QED
      BY <3>1, <3>3, <3>4
  <2> QED
    BY <1>1, <1>6, <2>4 DEF List, rowVars
<1> QED
  BY <1>2, <1>3, <1>4, <1>5, <1>6

LEMMA TypeNext == TypeOK /\ [Next]_vars => TypeOK'
<1>1. TypeOK /\ UNCHANGED vars => TypeOK'
  BY DEF TypeOK, AuthTypeOK, vars, authVars, nonceVars, rowVars
<1> QED
  BY <1>1, TypeAuth, TypeListing DEF Next

\* Every variable keeps its type, whatever the sets, limits and times to live.
THEOREM TypeCorrect == Spec => []TypeOK
BY TypeInit, TypeNext, PTL DEF Spec

-----------------------------------------------------------------------------
(* A nonce buys one token.                                                 *)

\* Where a spent nonce is, in a request or in a token, it is nowhere else.
SpentOnce ==
    /\ \A r \in Requests : verify[r] # Idle =>
          /\ verify[r].nonce \notin stored /\ born[verify[r].nonce] # None
          /\ verify[r].spentAt < born[verify[r].nonce] + NonceTTL /\ verify[r].spentAt <= now
          /\ \A q \in Requests : verify[q] # Idle /\ verify[q].nonce = verify[r].nonce => q = r
          /\ \A t \in tokens : t.nonce # verify[r].nonce
    /\ \A t \in tokens :
          /\ t.nonce \notin stored /\ born[t.nonce] # None
          /\ t.spentAt < born[t.nonce] + NonceTTL /\ t.spentAt <= now
          /\ \A s \in tokens : s.nonce = t.nonce => s = t

\* What Redis has was generated.
StoredBorn == \A n \in stored : born[n] # None

TokenInv == SpentOnce /\ StoredBorn

LEMMA TokenInit == Init => TokenInv
BY DEF Init, AuthInit, TokenInv, SpentOnce, StoredBorn

LEMMA TokenNext == TypeOK /\ TokenInv /\ [Next]_vars => TokenInv'
<1> SUFFICES ASSUME TypeOK, TokenInv, [Next]_vars PROVE TokenInv'
  OBVIOUS
<1> USE DEF TypeOK, AuthTypeOK, TokenInv, SpentOnce, StoredBorn
<1>1. CASE UNCHANGED authVars
  BY <1>1 DEF authVars, nonceVars
<1>2. CASE UNCHANGED vars
  BY <1>1, <1>2 DEF vars
<1>3. CASE \/ \E a \in Agents : Create(a) \/ Delete(a)
           \/ \E c \in Clients : \/ List(c) \/ ListFails(c)
                                 \/ \E t \in tokens : JWTMiddleware(c, t)
  BY <1>1, <1>3 DEF Create, Delete, List, ListFails, JWTMiddleware
<1>4. CASE Tick
  BY <1>4 DEF Tick, Times, nonceVars
<1>5. ASSUME NEW n \in Nonces, GenerateNonce(n) PROVE TokenInv'
  BY <1>5, NoneAuthAssumption DEF GenerateNonce, Times
<1>6. ASSUME NEW r \in Requests, NEW u \in Users, NEW n \in Nonces, GetDel(r, u, n)
      PROVE  TokenInv'
  <2>1. verify'[r] = [pc |-> "spent", user |-> u, nonce |-> n, spentAt |-> now]
        /\ \A q \in Requests \ {r} : verify'[q] = verify[q]
    BY <1>6 DEF GetDel, Spent
  <2>2. n \in stored /\ stored' = stored \ {n} /\ now < born[n] + NonceTTL
        /\ UNCHANGED <<now, born, tokens>>
    BY <1>6 DEF GetDel, Live
  <2> QED
    BY <2>1, <2>2 DEF Times
<1>7. ASSUME NEW r \in Requests, Abandon(r) PROVE TokenInv'
  <2>1. verify'[r] = Idle /\ \A q \in Requests \ {r} : verify'[q] = verify[q]
    BY <1>7 DEF Abandon
  <2> QED
    BY <1>7, <2>1 DEF Abandon, nonceVars
<1>8. ASSUME NEW r \in Requests, issueJWT(r) PROVE TokenInv'
  <2>1. verify'[r] = Idle /\ \A q \in Requests \ {r} : verify'[q] = verify[q]
    BY <1>8 DEF issueJWT
  <2> DEFINE t == [sub |-> verify[r].user, nonce |-> verify[r].nonce,
                   spentAt |-> verify[r].spentAt, exp |-> now + JwtTTL]
  <2>2. /\ t.nonce = verify[r].nonce /\ t.spentAt = verify[r].spentAt
        /\ tokens' = tokens \cup {t} /\ verify[r] # Idle
        /\ UNCHANGED <<now, born, stored>>
    BY <1>8 DEF issueJWT, nonceVars
  <2> HIDE DEF t
  <2> QED
    BY <2>1, <2>2
<1> QED
  BY <1>2, <1>3, <1>4, <1>5, <1>6, <1>7, <1>8 DEF Next, AuthNext

\* However many requests present a nonce, at most one gets a token for it, and
\* it came in time.
THEOREM NoncesBuyOnce == Spec => []OneTokenPerNonce
<1>1. TokenInv => OneTokenPerNonce
  BY DEF TokenInv, SpentOnce, OneTokenPerNonce
<1> QED
  BY <1>1, TypeInit, TypeNext, TokenInit, TokenNext, PTL DEF Spec

-----------------------------------------------------------------------------
(* Traversals.                                                             *)

Covered(d, a) == \/ a \in d.page \cup d.seen
                 \/ created[a] \in d.cursors
                 \/ d.cursor # None /\ created[a] < d.cursor

\* A traversal, from one answer to the next.
PagesOK(d) ==
    /\ d.pc = "idle" => d = Blank
    /\ d.page \cup d.seen \subseteq {a \in Agents : Owner[a] = d.user /\ created[a] # None}
    /\ d.always \subseteq Rows(d.user)
    /\ \A a \in d.page, b \in d.seen : created[a] < created[b]
    /\ d.cursor # None => /\ d.pc \in {"sent", "paged"}
                          /\ d.cursor \in d.cursors
                          /\ \A a \in d.page \cup d.seen : d.cursor <= created[a]
    /\ d.pc = "sent" => d.page = {} /\ (d.cursor = None => d.seen = {} /\ d.always = {})
    /\ d.pc = "paged" => d.cursor # None
    /\ d.pc # "idle" => \A a \in d.always : Covered(d, a)

PagesInv == \A c \in Clients : PagesOK(client[c])

LEMMA PagesInit == Init => PagesInv
BY DEF Init, PagesInv, PagesOK, Blank

\* Once created, a row has its time; nothing else about it counts here.
LEMMA PagesFrame ==
    ASSUME TypeOK, NEW d \in Traversals, NEW e \in Traversals, PagesOK(d),
           \A a \in Agents : created[a] # None => created'[a] = created[a],
           e = [d EXCEPT !.always = e.always],
           e.always \subseteq d.always, e.always \cap gone' = {}
    PROVE  PagesOK(e)'
<1>1. /\ e.user = d.user /\ e.pc = d.pc /\ e.page = d.page /\ e.seen = d.seen
      /\ e.cursor = d.cursor /\ e.cursors = d.cursors
  BY DEF Traversals
<1>2. e.always \subseteq Rows(e.user)'
  BY <1>1 DEF PagesOK, Rows
<1>3. e.pc = "idle" => e = Blank
  BY <1>1 DEF PagesOK, Blank, Traversals
<1>4. \A a \in e.page \cup e.seen \cup e.always : created'[a] = created[a] /\ created[a] # None
  BY <1>1 DEF PagesOK, Rows
<1> QED
  BY <1>1, <1>2, <1>3, <1>4 DEF PagesOK, Covered

LEMMA PagesOKPrime ==
    ASSUME \A c \in Clients : \A d \in Traversals : d = client'[c] => PagesOK(d)',
           TypeOK'
    PROVE  PagesInv'
BY DEF PagesInv, PagesOK, Covered, Rows, TypeOK

\* Steps of the token service and of the agents' owners.
LEMMA PagesOthers ==
    ASSUME TypeOK, TypeOK', PagesInv,
           \/ UNCHANGED <<rowVars, client>>
           \/ \E a \in Agents : Create(a) \/ Delete(a)
    PROVE  PagesInv'
<1> SUFFICES ASSUME NEW c \in Clients, NEW e \in Traversals, e = client'[c]
             PROVE  PagesOK(e)'
  BY PagesOKPrime
<1> DEFINE d == client[c]
<1>1. d \in Traversals /\ PagesOK(d)
  BY DEF TypeOK, PagesInv
<1>2. CASE UNCHANGED <<rowVars, client>> \/ \E a \in Agents : Create(a)
  <2>1. e = d /\ gone' = gone /\ \A a \in Agents : created[a] # None => created'[a] = created[a]
    BY <1>2 DEF Create, rowVars, TypeOK
  <2>2. e = [d EXCEPT !.always = e.always]
    BY <1>1, <2>1 DEF Traversals
  <2>3. e.always \cap gone' = {}
    BY <1>1, <2>1 DEF PagesOK, Rows
  <2> HIDE DEF d
  <2> QED
    BY <1>1, <2>1, <2>2, <2>3, PagesFrame
<1>3. ASSUME NEW a \in Agents, Delete(a) PROVE PagesOK(e)'
  <2>1. e = [d EXCEPT !.always = d.always \ {a}] /\ UNCHANGED created /\ gone' = gone \cup {a}
    BY <1>3 DEF Delete
  <2>2. e.always = d.always \ {a}
    BY <1>1, <2>1 DEF Traversals
  <2>3. e.always \cap gone' = {}
    BY <1>1, <2>1, <2>2 DEF PagesOK, Rows
  <2> HIDE DEF d
  <2> QED
    BY <1>1, <2>1, <2>2, <2>3, PagesFrame
<1> QED
  BY <1>2, <1>3

\* Where the rows stay, an answered traversal only has to be good now.
LEMMA PagesStep ==
    ASSUME TypeOK, TypeOK', PagesInv, UNCHANGED rowVars,
           NEW c \in Clients, NEW d, client' = [client EXCEPT ![c] = d], PagesOK(d)
    PROVE  PagesInv'
<1> SUFFICES ASSUME NEW q \in Clients, NEW e \in Traversals, e = client'[q]
             PROVE  PagesOK(e)'
  BY PagesOKPrime
<1>1. PagesOK(e)
  <2>1. CASE q = c
    BY <2>1 DEF TypeOK
  <2>2. CASE q # c
    BY <2>2 DEF TypeOK, PagesInv
  <2> QED
    BY <2>1, <2>2
<1> QED
  BY <1>1 DEF PagesOK, Covered, Rows, rowVars

LEMMA PagesRequest ==
    ASSUME TypeOK, TypeOK', PagesInv, NEW c \in Clients, NEW t \in tokens, JWTMiddleware(c, t)
    PROVE  PagesInv'
<1> DEFINE d == client[c]
           e == [d EXCEPT !.pc = "sent", !.user = t.sub, !.at = now,
                          !.page = {}, !.seen = d.seen \cup d.page]
<1>1. d \in Traversals /\ PagesOK(d)
  BY DEF TypeOK, PagesInv
<1>2. client' = [client EXCEPT ![c] = e] /\ UNCHANGED rowVars
  BY DEF JWTMiddleware
<1>0. d.pc = "idle" \/ (d.pc = "paged" /\ d.user = t.sub)
  BY DEF JWTMiddleware
<1>3. /\ e.pc = "sent" /\ e.user = t.sub /\ e.page = {} /\ e.seen = d.seen \cup d.page
      /\ e.cursor = d.cursor /\ e.cursors = d.cursors /\ e.always = d.always
  BY <1>1 DEF Traversals
<1>4. PagesOK(e)
  <2>1. CASE d.pc = "idle"
    <3>1. d.cursor = None /\ d.seen = {} /\ d.page = {} /\ d.always = {}
      BY <1>1, <2>1 DEF PagesOK, Blank
    <3> HIDE DEF d, e
    <3> QED
      BY <1>3, <3>1 DEF PagesOK
  <2>2. CASE d.pc = "paged" /\ d.user = t.sub
    <3> HIDE DEF d, e
    <3> QED
      BY <1>1, <1>3, <2>2 DEF PagesOK, Covered
  <2> QED
    BY <1>0, <2>1, <2>2
<1> HIDE DEF e
<1> QED
  BY <1>2, <1>4, PagesStep

LEMMA PagesFails ==
    ASSUME TypeOK, TypeOK', PagesInv, NEW c \in Clients, ListFails(c)
    PROVE  PagesInv'
<1> DEFINE d == client[c]
           e == [d EXCEPT !.pc = "paged"]
<1>1. d \in Traversals /\ PagesOK(d) /\ d.pc = "sent" /\ UNCHANGED rowVars
  BY DEF TypeOK, PagesInv, ListFails
<1>2. PagesOK(Blank)
  BY DEF PagesOK, Blank
<1>3. CASE d.cursor = None
  <2>1. client' = [client EXCEPT ![c] = Blank]
    BY <1>3 DEF ListFails
  <2> QED
    BY <1>1, <1>2, <2>1, PagesStep
<1>4. CASE d.cursor # None
  <2>1. client' = [client EXCEPT ![c] = e]
    BY <1>4 DEF ListFails
  <2>2. /\ e.pc = "paged" /\ e.user = d.user /\ e.page = d.page /\ e.seen = d.seen
        /\ e.cursor = d.cursor /\ e.cursors = d.cursors /\ e.always = d.always
    BY <1>1 DEF Traversals
  <2>3. PagesOK(e)
    <3> HIDE DEF d, e
    <3> QED
      BY <1>1, <1>4, <2>2 DEF PagesOK, Covered
  <2> HIDE DEF e
  <2> QED
    BY <1>1, <2>1, <2>3, PagesStep
<1> QED
  BY <1>3, <1>4

\* What the query asks for is all that a traversal may still miss.
LEMMA StillOlder ==
    ASSUME NEW d \in Traversals, PagesOK(d), d.pc = "sent"
    PROVE  \A a \in IF d.cursor = None THEN Rows(d.user) ELSE d.always :
              a \in Older(d.user, d.cursor) \/ a \in d.seen \/ created[a] \in d.cursors
BY DEF PagesOK, Covered, Older

\* A page with a row after it: the row's time becomes the cursor.
LEMMA FullPage ==
    ASSUME TypeOK, NEW d \in Traversals, PagesOK(d), d.pc = "sent",
           NEW F \in SUBSET Older(d.user, d.cursor), NEW x \in Last(F),
           \A a \in F, b \in Older(d.user, d.cursor) \ F : created[a] >= created[b]
    PROVE  PagesOK(Answered(d, F \ {x}, created[x]))
<1> DEFINE e == Answered(d, F \ {x}, created[x])
<1>1. /\ \A a \in Older(d.user, d.cursor) :
            /\ a \in Agents /\ Owner[a] = d.user /\ created[a] # None /\ created[a] \in Int
            /\ d.cursor # None => created[a] < d.cursor
      /\ d.cursor # None => d.cursor \in Int
      /\ \A a \in d.seen : created[a] # None /\ created[a] \in Int
  BY DEF Older, Rows, TypeOK, Times, PagesOK, Traversals
<1>2. x \in F /\ \A b \in F : created[b] >= created[x]
  BY DEF Last
<1>3. /\ e.pc = "paged" /\ e.user = d.user /\ e.page = F \ {x} /\ e.seen = d.seen
      /\ e.cursor = created[x] /\ e.cursors = d.cursors \cup {created[x]}
      /\ e.always = IF d.cursor = None THEN Rows(d.user) ELSE d.always
  BY <1>1, <1>2 DEF Answered, Traversals
<1>4. \A a \in e.always : Covered(e, a)
  <2> SUFFICES ASSUME NEW a \in e.always, a \in Older(d.user, d.cursor), a # x, a \notin F
               PROVE  Covered(e, a)
    BY <1>2, <1>3, StillOlder DEF Covered
  <2>1. created[a] <= created[x]
    BY <1>1, <1>2
  <2> HIDE DEF e
  <2> QED
    BY <1>1, <1>2, <1>3, <2>1 DEF Covered
<1>5. \A a \in e.page, b \in e.seen : created[a] < created[b]
  BY <1>1, <1>3 DEF PagesOK
<1>6. \A a \in e.page \cup e.seen : e.cursor <= created[a]
  <2>1. \A a \in d.seen : d.cursor # None /\ d.cursor <= created[a]
    BY DEF PagesOK
  <2>2. \A a \in d.seen : created[x] <= created[a]
    BY <1>1, <1>2, <2>1
  <2> HIDE DEF e
  <2> QED
    BY <1>2, <1>3, <2>2
<1>7. e.always \subseteq Rows(e.user)
  BY <1>3 DEF PagesOK
<1>8. e.page \cup e.seen \subseteq {a \in Agents : Owner[a] = e.user /\ created[a] # None}
  BY <1>1, <1>3 DEF PagesOK
<1> HIDE DEF e
<1>9. PagesOK(e)
  BY <1>1, <1>2, <1>3, <1>4, <1>5, <1>6, <1>7, <1>8 DEF PagesOK
<1> QED
  BY <1>9 DEF e

\* The last page: nothing is left to ask for.
LEMMA LastPage ==
    ASSUME TypeOK, NEW d \in Traversals, PagesOK(d), d.pc = "sent"
    PROVE  PagesOK(Answered(d, Older(d.user, d.cursor), None))
<1> DEFINE e == Answered(d, Older(d.user, d.cursor), None)
<1>1. /\ \A a \in Older(d.user, d.cursor) :
            /\ a \in Agents /\ Owner[a] = d.user /\ created[a] # None /\ created[a] \in Int
            /\ d.cursor # None => created[a] < d.cursor
      /\ d.cursor # None => d.cursor \in Int
      /\ \A a \in d.seen : created[a] # None /\ created[a] \in Int
  BY DEF Older, Rows, TypeOK, Times, PagesOK, Traversals
<1>2. /\ e.pc = "done" /\ e.user = d.user /\ e.page = Older(d.user, d.cursor)
      /\ e.seen = d.seen /\ e.cursor = None /\ e.cursors = d.cursors
      /\ e.always = IF d.cursor = None THEN Rows(d.user) ELSE d.always
  BY DEF Answered, Traversals
<1>3. \A a \in e.always : Covered(e, a)
  BY <1>2, StillOlder DEF Covered
<1>4. \A a \in e.page, b \in e.seen : created[a] < created[b]
  BY <1>1, <1>2 DEF PagesOK
<1> HIDE DEF e
<1>5. PagesOK(e)
  BY <1>1, <1>2, <1>3, <1>4 DEF PagesOK
<1> QED
  BY <1>5 DEF e

LEMMA PagesList ==
    ASSUME TypeOK, TypeOK', PagesInv, NEW c \in Clients, List(c)
    PROVE  PagesInv'
<1> DEFINE d == client[c]
           S == Older(d.user, d.cursor)
<1>1. d \in Traversals /\ PagesOK(d) /\ d.pc = "sent" /\ UNCHANGED rowVars
  BY DEF TypeOK, PagesInv, List
<1>2. PICK n \in Int : \E F \in First(S, n + 1) :
         \/ /\ Cardinality(F) > n
            /\ \E x \in Last(F) :
                  client' = [client EXCEPT ![c] = Answered(@, F \ {x}, created[x])]
         \/ /\ Cardinality(F) <= n
            /\ client' = [client EXCEPT ![c] = Answered(@, F, None)]
  <2>1. \A asked \in Asked : PageSize(asked) \in Int
    BY LimitAssumption DEF PageSize
  <2> QED
    BY <2>1 DEF List
<1>3. PICK F \in First(S, n + 1) :
         \/ /\ Cardinality(F) > n
            /\ \E x \in Last(F) :
                  client' = [client EXCEPT ![c] = Answered(@, F \ {x}, created[x])]
         \/ /\ Cardinality(F) <= n
            /\ client' = [client EXCEPT ![c] = Answered(@, F, None)]
  BY <1>2
<1>4. /\ F \subseteq S
      /\ F = S \/ Cardinality(F) = n + 1
      /\ \A a \in F, b \in S \ F : created[a] >= created[b]
  BY DEF First
<1>5. ASSUME NEW x \in Last(F),
             client' = [client EXCEPT ![c] = Answered(@, F \ {x}, created[x])]
      PROVE  PagesInv'
  <2>1. PagesOK(Answered(d, F \ {x}, created[x]))
    BY <1>1, <1>4, FullPage
  <2> QED
    BY <1>1, <1>5, <2>1, PagesStep
<1>6. CASE /\ Cardinality(F) <= n
           /\ client' = [client EXCEPT ![c] = Answered(@, F, None)]
  <2>1. F = S
    BY <1>4, <1>6
  <2>2. PagesOK(Answered(d, F, None))
    BY <1>1, <2>1, LastPage
  <2> QED
    BY <1>1, <1>6, <2>2, PagesStep
<1> QED
  BY <1>3, <1>5, <1>6

LEMMA PagesNext == TypeOK /\ TypeOK' /\ PagesInv /\ [Next]_vars => PagesInv'
<1>1. TypeOK /\ TypeOK' /\ PagesInv /\ UNCHANGED vars => PagesInv'
  BY PagesOthers DEF vars
<1> QED
  BY <1>1, PagesOthers, PagesRequest, PagesFails, PagesList DEF Next

\* Nothing is listed twice: every page is older than all pages before it.
THEOREM EachPageIsOlder == Spec => []PagesDescend
<1>1. PagesInv => PagesDescend
  BY DEF PagesInv, PagesOK, PagesDescend
<1> QED
  BY <1>1, TypeInit, TypeNext, PagesInit, PagesNext, PTL DEF Spec

\* All that a whole traversal can miss are rows of the very time of a cursor.
THEOREM ListMissesOnlyTies == Spec => []ListedOrAtCursor
<1>1. PagesInv => ListedOrAtCursor
  BY DEF PagesInv, PagesOK, Covered, ListedOrAtCursor
<1> QED
  BY <1>1, TypeInit, TypeNext, PagesInit, PagesNext, PTL DEF Spec

-----------------------------------------------------------------------------
(* Who is answered.                                                        *)

\* The token a traversal's last request was let pass with.
Admitted(d) == \E t \in tokens : t.sub = d.user /\ t.spentAt <= d.at /\ d.at < t.exp

AdmittedInv == \A c \in Clients : client[c].pc # "idle" => Admitted(client[c])

LEMMA AdmittedNext ==
    TypeOK /\ TypeOK' /\ TokenInv /\ PagesInv /\ AdmittedInv /\ [Next]_vars => AdmittedInv'
<1> SUFFICES ASSUME TypeOK, TypeOK', TokenInv, PagesInv, AdmittedInv, [Next]_vars,
                    NEW c \in Clients, NEW e \in Traversals, e = client'[c], e.pc # "idle"
             PROVE  \E t \in tokens' : t.sub = e.user /\ t.spentAt <= e.at /\ e.at < t.exp
  BY DEF AdmittedInv, Admitted, TypeOK
<1> DEFINE d == client[c]
<1>1. tokens \subseteq tokens'
  BY DEF Next, AuthNext, vars, authVars, Tick, GenerateNonce, GetDel, Abandon, issueJWT,
         Create, Delete, List, ListFails, JWTMiddleware
<1>2. d \in Traversals /\ PagesOK(d) /\ (d.pc # "idle" => Admitted(d))
  BY DEF TypeOK, PagesInv, AdmittedInv
<1>3. CASE d.pc # "idle" /\ e.user = d.user /\ e.at = d.at
  BY <1>1, <1>2, <1>3 DEF Admitted
<1>4. CASE client'[c] = client[c]
  BY <1>3, <1>4
<1>5. CASE \E a \in Agents : Delete(a)
  <2>1. \E a \in Agents : e = [d EXCEPT !.always = d.always \ {a}]
    BY <1>5 DEF Delete
  <2> QED
    BY <1>2, <1>3, <2>1 DEF Traversals
<1>6. ASSUME NEW t \in tokens, JWTMiddleware(c, t)
      PROVE  \E s \in tokens : s.sub = e.user /\ s.spentAt <= e.at /\ e.at < s.exp
  <2>1. e = [d EXCEPT !.pc = "sent", !.user = t.sub, !.at = now,
                      !.page = {}, !.seen = d.seen \cup d.page]
    BY <1>6 DEF JWTMiddleware, TypeOK
  <2>2. e.user = t.sub /\ e.at = now
    BY <1>2, <2>1 DEF Traversals
  <2>3. now < t.exp /\ t.spentAt <= now
    BY <1>6 DEF JWTMiddleware, ValidateJWT, TokenInv, SpentOnce
  <2> QED
    BY <2>2, <2>3
<1>7. CASE ListFails(c)
  <2>1. d.pc = "sent" /\ (e = Blank \/ e = [d EXCEPT !.pc = "paged"])
    BY <1>7 DEF ListFails, TypeOK
  <2>2. e # Blank
    BY DEF Blank
  <2> QED
    BY <1>2, <1>3, <2>1, <2>2 DEF Traversals
<1>8. CASE List(c)
  <2>1. d.pc = "sent" /\ \E rows, cursor : e = Answered(d, rows, cursor)
    BY <1>8 DEF List, TypeOK
  <2>2. \A rows, cursor : Answered(d, rows, cursor).user = d.user
                          /\ Answered(d, rows, cursor).at = d.at
    BY <1>2 DEF Answered, Traversals
  <2> QED
    BY <1>3, <2>1, <2>2
<1>9. ASSUME NEW q \in Clients, q # c,
             List(q) \/ ListFails(q) \/ \E t \in tokens : JWTMiddleware(q, t)
      PROVE  client'[c] = client[c]
  BY <1>9 DEF List, ListFails, JWTMiddleware, TypeOK
<1>10. CASE UNCHANGED client \/ \E a \in Agents : Create(a)
  BY <1>4, <1>10 DEF Create
<1> QED
  BY <1>1, <1>4, <1>5, <1>6, <1>7, <1>8, <1>9, <1>10 DEF Next, vars

\* Who is answered had signed a message in time and held a token that had not
\* expired, and sees rows of its own only.
THEOREM AnswersAuthorized == Spec => []AnswersAreAuthorized
<1>1. Init => AdmittedInv
  BY DEF Init, AdmittedInv, Blank
<1>2. PagesInv /\ AdmittedInv => AnswersAreAuthorized
  BY DEF PagesInv, PagesOK, AdmittedInv, Admitted, AnswersAreAuthorized
<1> QED
  BY <1>1, <1>2, TypeInit, TypeNext, TokenInit, TokenNext, PagesInit, PagesNext,
     AdmittedNext, PTL DEF Spec
=============================================================================
