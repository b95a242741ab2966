-------------------------------- MODULE Auth --------------------------------
(***************************************************************************)
(* internal/auth/auth.go: a wallet's owner signs a message with a nonce of *)
(* the service and gets a token for it.  Nonces live in Redis, where they  *)
(* expire; a token is not stored anywhere, it carries its subject and its  *)
(* end.  Requests overlap: the same signed message may be posted again, by *)
(* an impatient client or after a lost answer.                             *)
(*                                                                         *)
(* Time is counted in ticks.  A message whose signature does not verify    *)
(* gets ErrInvalidSignature before anything is read, and is left out.      *)
(***************************************************************************)
EXTENDS Integers

CONSTANTS Users,       \* wallet addresses
          Nonces,      \* what crypto/rand may draw
          Requests,    \* VerifySIWE calls under way
          None,
          NonceTTL, JwtTTL,
          MaxTime      \* the instance's last tick

ASSUME NoneAuthAssumption == None \notin Users \cup Nonces \cup Nat
ASSUME TimeAssumption == NonceTTL \in Nat /\ JwtTTL \in Nat /\ MaxTime \in Nat

VARIABLES now,
          born,      \* when a nonce was generated, None before
          stored,    \* the nonces Redis has a key for
          verify,    \* each request: [pc, user, nonce, spentAt]
          tokens     \* the tokens issued: [sub, nonce, spentAt, exp]

\* A token as signed holds sub and exp; nonce and spentAt say where it is from.
nonceVars == <<born, stored>>
authVars  == <<now, nonceVars, verify, tokens>>

Times == 0..MaxTime
Idle  == [pc |-> "idle", user |-> None, nonce |-> None, spentAt |-> 0]

AuthInit == /\ now = 0
            /\ born = [n \in Nonces |-> None]
            /\ stored = {}
            /\ verify = [r \in Requests |-> Idle]
            /\ tokens = {}

\* Redis keeps a key for its time to live.
Live(n) == n \in stored /\ now < born[n] + NonceTTL

\* Sixteen random bytes: a nonce is never drawn twice.  If the call to Redis
\* fails nobody learns the nonce, as if it had not been drawn.
GenerateNonce(n) ==
    /\ born[n] = None
    /\ born' = [born EXCEPT ![n] = now]
    /\ stored' = stored \cup {n}
    /\ UNCHANGED <<now, verify, tokens>>

Spent(r, u, n) ==
    [verify EXCEPT ![r] = [pc |-> "spent", user |-> u, nonce |-> n, spentAt |-> now]]

\* Mutant: the nonce is read and not deleted.
MutGetDel(r, u, n) ==
    /\ verify[r] = Idle /\ Live(n)
    /\ verify' = Spent(r, u, n)
    /\ UNCHANGED <<now, nonceVars, tokens>>

\* A message u has signed parses and its signature is good: GETDEL reads and
\* deletes its nonce in one step.  What comes before reads nothing that others
\* change; without the key the request ends (ErrNonceNotFound).
GetDel(r, u, n) ==
    /\ verify[r] = Idle /\ Live(n)
    /\ stored' = stored \ {n}
    /\ verify' = Spent(r, u, n)
    /\ UNCHANGED <<now, born, tokens>>

\* The call to Redis reports an error although it was executed, or the process
\* dies: the nonce is spent and there is no token.
Abandon(r) ==
    /\ verify[r] # Idle
    /\ verify' = [verify EXCEPT ![r] = Idle]
    /\ UNCHANGED <<now, nonceVars, tokens>>

\* Mutant: the claims lack the subject.
MutIssueJWT(r) ==
    /\ verify[r] # Idle
    /\ tokens' = tokens \cup {[sub |-> None, nonce |-> verify[r].nonce,
                               spentAt |-> verify[r].spentAt, exp |-> now + JwtTTL]}
    /\ verify' = [verify EXCEPT ![r] = Idle]
    /\ UNCHANGED <<now, nonceVars>>

\* The answer to it may be lost: then the token is issued and nobody has it.
issueJWT(r) ==
    /\ verify[r] # Idle
    /\ tokens' = tokens \cup {[sub |-> verify[r].user, nonce |-> verify[r].nonce,
                               spentAt |-> verify[r].spentAt, exp |-> now + JwtTTL]}
    /\ verify' = [verify EXCEPT ![r] = Idle]
    /\ UNCHANGED <<now, nonceVars>>

\* Mutant: the expiry is not looked at.
MutValidateJWT(t) == t \in tokens

\* ValidateJWT: signed with the secret, and not expired.
ValidateJWT(t) == t \in tokens /\ now < t.exp

Tick == /\ now < MaxTime /\ now' = now + 1
        /\ UNCHANGED <<nonceVars, verify, tokens>>

AuthNext == \/ Tick
            \/ \E n \in Nonces : GenerateNonce(n)
            \/ \E r \in Requests : \/ Abandon(r) \/ issueJWT(r)
                                   \/ \E u \in Users, n \in Nonces : GetDel(r, u, n)

-----------------------------------------------------------------------------
AuthTypeOK ==
    /\ now \in Times
    /\ born \in [Nonces -> Times \cup {None}]
    /\ stored \subseteq Nonces
    /\ verify \in [Requests -> {Idle} \cup [pc : {"spent"}, user : Users,
                                            nonce : Nonces, spentAt : Times]]
    /\ tokens \subseteq [sub : Users, nonce : Nonces, spentAt : Times, exp : Nat]

\* A nonce buys one token, however many requests present it, and only within
\* its time to live (VerifySIWE: "one-time use").
OneTokenPerNonce ==
    \A t \in tokens :
        /\ t.spentAt < born[t.nonce] + NonceTTL
        /\ \A s \in tokens : s.nonce = t.nonce => s = t
=============================================================================
