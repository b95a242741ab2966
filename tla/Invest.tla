------------------------------- MODULE Invest -------------------------------
(***************************************************************************)
(* internal/invest/invest.go for one agent: deposits, redemptions and the  *)
(* profit-share sweep over the agent's row, the investments and the        *)
(* ledger.                                                                 *)
(*                                                                         *)
(* A request reads outside its transaction and then writes, in one         *)
(* transaction, values computed from what it read.  The transactions read  *)
(* nothing and write absolute values, and the lock on the agent's row      *)
(* orders them, so each is one step; a failing statement rolls it back.    *)
(*                                                                         *)
(* Amounts are cents; a share of x stands for x / Scale (10^8 in the code).*)
(***************************************************************************)
EXTENDS RiskRules, Sequences, FiniteSets

CONSTANTS Users,
          Requests,           \* request slots: how many requests may overlap
          Amounts,            \* what users deposit
          Scale,              \* ratToNumeric's precision
          ProfitSharePct,
          MaxInvestments,     \* bound on the deposits of a behaviour
          MaxSweeps           \* bound on the calls of CalculateProfitShare

ASSUME AmountsAssumption == Amounts \subseteq 1..MaxInt64
ASSUME ScaleAssumption == Scale \in Nat \ {0}
ASSUME PctAssumption == ProfitSharePct \in 0..100
ASSUME InvestBounds == MaxInvestments \in Nat /\ MaxSweeps \in Nat

VARIABLES
    investments,  \* the rows of the table, in the order of their creation
    aum,          \* agents.aum
    investorCount,\* agents.investor_count
    ledger,       \* SUM(amount) of the agent's ledger entries, by type
    req,          \* what each request slot is doing
    sweeps,       \* CalculateProfitShare calls so far
    swept         \* history: what the sweeps have charged

tables == <<investments, aum, investorCount, ledger, swept>>
vars   == <<investments, aum, investorCount, ledger, req, sweeps, swept>>

Idle == [op |-> "idle"]

Init == /\ investments = << >>
        /\ aum = 0 /\ investorCount = 0
        /\ ledger = [deposit |-> 0, withdrawal |-> 0, profit_share |-> 0]
        /\ req = [r \in Requests |-> Idle]
        /\ sweeps = 0 /\ swept = 0

-----------------------------------------------------------------------------
(* The arithmetic.                                                         *)

\* Mutant: the share of the AUM before the deposit.
MutShareRatio(amount, newAUM) ==
    IF newAUM > amount THEN (amount * Scale) \div (newAUM - amount) ELSE Scale

\* amount / newAUM as ratToNumeric stores it, rounded down.
ShareRatio(amount, newAUM) ==
    IF newAUM > 0 THEN (amount * Scale) \div newAUM
                  ELSE (-(amount * Scale)) \div (-newAUM)

\* ratToInt64(share * aum), rounded down.
CurrentValue(share, total) == Wrap64((share * total) \div Scale)

\* Mutant: a share of the whole value.
MutProfitShare(value, amount) == (value * ProfitSharePct) \div 100

\* profit * pct / 100 in int64: the product wraps, Go's division truncates.
ProfitShare(value, amount) ==
    LET profit  == Wrap64(value - amount)
        product == Wrap64(profit * ProfitSharePct)
    IN  IF profit <= 0 THEN 0
        ELSE IF product >= 0 THEN product \div 100 ELSE -((-product) \div 100)

AtLeast0(n) == IF n < 0 THEN 0 ELSE n

\* Mutant: the profit share stays in the AUM.
MutNewAUM(total, returned, charged) == AtLeast0(Wrap64(total - returned))

\* Redeem's new AUM.
NewAUM(total, returned, charged) == AtLeast0(Wrap64(Wrap64(total - returned) - charged))

-----------------------------------------------------------------------------
Become(r, state) == req' = [req EXCEPT ![r] = state]

\* Deposit: the user exists or is created; GetAgent.
BeginDeposit(r, u, amount) ==
    /\ req[r] = Idle
    /\ Len(investments)
         + Cardinality({q \in Requests : req[q].op = "deposit"}) < MaxInvestments
    /\ Become(r, [op |-> "deposit", user |-> u, amount |-> amount,
                  aum |-> aum, count |-> investorCount])
    /\ UNCHANGED <<tables, sweeps>>

\* Deposit's transaction.  A new AUM of 0 (after an overflow) makes SetFrac panic.
CommitDeposit(r) ==
    LET d == req[r]
        newAUM == Wrap64(d.aum + d.amount)
    IN  /\ d.op = "deposit"
        /\ newAUM # 0
        /\ investments' = Append(investments,
               [owner |-> d.user, amount |-> d.amount, status |-> "active",
                share |-> ShareRatio(d.amount, newAUM), payouts |-> 0, paid |-> 0, fee |-> 0])
        /\ aum' = newAUM
        /\ investorCount' = d.count + 1
        /\ ledger' = [ledger EXCEPT !.deposit = @ + d.amount]
        /\ Become(r, Idle)
        /\ UNCHANGED <<sweeps, swept>>

\* Mutant: ErrAlreadyRedeemed is never returned.
MutBeginRedeem(r, u, i) ==
    /\ req[r] = Idle
    /\ investments[i].owner = u
    /\ Become(r, [op |-> "checked", inv |-> i])
    /\ UNCHANGED <<tables, sweeps>>

\* Redeem: GetUser, GetInvestment, and the checks of its owner and status.
BeginRedeem(r, u, i) ==
    /\ req[r] = Idle
    /\ investments[i].owner = u
    /\ investments[i].status = "active"
    /\ Become(r, [op |-> "checked", inv |-> i])
    /\ UNCHANGED <<tables, sweeps>>

\* Redeem: GetAgent.
ReadAgent(r) ==
    /\ req[r].op = "checked"
    /\ Become(r, [op |-> "redeem", inv |-> req[r].inv, aum |-> aum, count |-> investorCount])
    /\ UNCHANGED <<tables, sweeps>>

\* Mutant: the row gets the name of the operation.
MutSettled(row, returned, charged) ==
    [row EXCEPT !.status = "redeem", !.payouts = @ + 1,
                !.paid = @ + returned, !.fee = @ + charged]

\* The row that RedeemInvestment leaves, and what it has been paid in all.
Settled(row, returned, charged) ==
    [row EXCEPT !.status = "redeemed", !.payouts = @ + 1,
                !.paid = @ + returned, !.fee = @ + charged]

\* Redeem's transaction.  RedeemInvestment has no condition on the status.
CommitRedeem(r) ==
    LET d == req[r]
        row == investments[d.inv]
        value == CurrentValue(row.share, d.aum)
        fee == ProfitShare(value, row.amount)
        returned == Wrap64(value - fee)
        charged == IF fee > 0 THEN fee ELSE 0
    IN  /\ d.op = "redeem"
        /\ investments' = [investments EXCEPT ![d.inv] = Settled(row, returned, charged)]
        /\ aum' = NewAUM(d.aum, returned, charged)
        /\ investorCount' = AtLeast0(d.count - 1)
        /\ ledger' = [ledger EXCEPT !.withdrawal = @ - returned, !.profit_share = @ - charged]
        /\ Become(r, Idle)
        /\ UNCHANGED <<sweeps, swept>>

Active == {i \in DOMAIN investments : investments[i].status = "active"}

\* CalculateProfitShare: ListInvestmentsByAgent (the active ones).
BeginSweep(r) ==
    /\ req[r] = Idle /\ sweeps < MaxSweeps
    /\ sweeps' = sweeps + 1
    /\ Become(r, [op |-> "listed", todo |-> Active])
    /\ UNCHANGED tables

\* CalculateProfitShare: GetAgent.
ReadAgentForSweep(r) ==
    /\ req[r].op = "listed"
    /\ Become(r, IF req[r].todo = {} THEN Idle
                 ELSE [op |-> "sweep", todo |-> req[r].todo, aum |-> aum])
    /\ UNCHANGED <<tables, sweeps>>

\* One round of its loop, in any order (the query has no ORDER BY): a
\* transaction of its own for each positive profit share.  The AUM is not written.
ChargeNext(r, i) ==
    LET d == req[r]
        row == investments[i]
        fee == AtLeast0(ProfitShare(CurrentValue(row.share, d.aum), row.amount))
    IN  /\ d.op = "sweep" /\ i \in d.todo
        /\ ledger' = [ledger EXCEPT !.profit_share = @ - fee]
        /\ swept' = swept + fee
        /\ Become(r, IF d.todo = {i} THEN Idle ELSE [d EXCEPT !.todo = @ \ {i}])
        /\ UNCHANGED <<investments, aum, investorCount, sweeps>>

\* A query or a transaction fails, the process panics or is stopped: what the
\* request has committed stays, the rest is not done.
Abort(r) == /\ req[r] # Idle
            /\ Become(r, Idle)
            /\ UNCHANGED <<tables, sweeps>>

Next == \E r \in Requests :
           \/ \E u \in Users, amount \in Amounts : BeginDeposit(r, u, amount)
           \/ CommitDeposit(r)
           \/ \E u \in Users, i \in DOMAIN investments : BeginRedeem(r, u, i)
           \/ ReadAgent(r)
           \/ CommitRedeem(r)
           \/ BeginSweep(r)
           \/ ReadAgentForSweep(r)
           \/ \E i \in DOMAIN investments : ChargeNext(r, i)
           \/ Abort(r)

Spec == Init /\ [][Next]_vars

-----------------------------------------------------------------------------
(* Properties.                                                             *)

Int64 == -(MaxInt64 + 1)..MaxInt64

Row == [owner : Users, amount : Amounts, status : {"active", "redeemed"},
        share : Int, payouts : Nat, paid : Int, fee : Nat]

Indices == DOMAIN investments

RequestOK(d) ==
    \/ d = Idle
    \/ d \in [op : {"deposit"}, user : Users, amount : Amounts, aum : Int64, count : Nat]
    \/ d \in [op : {"checked"}, inv : Indices]
    \/ d \in [op : {"redeem"}, inv : Indices, aum : Int64, count : Nat]
    \/ d \in [op : {"listed"}, todo : SUBSET Indices]
    \/ d \in [op : {"sweep"}, todo : SUBSET Indices, aum : Int64]

TypeOK == /\ investments \in Seq(Row)
          /\ aum \in Int64 /\ investorCount \in Nat
          /\ ledger \in [deposit : Int, withdrawal : Int, profit_share : Int]
          /\ DOMAIN req = Requests /\ \A r \in Requests : RequestOK(req[r])
          /\ sweeps \in 0..MaxSweeps /\ swept \in Nat

\* What the ledger says the agent holds: deposits less what was paid out and
\* charged.
Booked == ledger.deposit + ledger.withdrawal + ledger.profit_share

\* One request at a time, the agent's AUM is what its ledger adds up to, the
\* sweeps' charges (which never touch the AUM) aside, and investor_count is the
\* number of active investments.
BooksBalance == /\ aum = Booked + swept
                /\ investorCount = Cardinality(Active)

\* One request at a time, no more is paid out than was paid in.
Solvent == aum >= 0 /\ ledger.withdrawal + ledger.deposit >= 0

\* A profit share is taken from profit: who is charged one on redemption still
\* gets at least the deposit back, however stale the AUM it was computed from.
FeeSparesPrincipal ==
    \A i \in Indices : investments[i].fee > 0 => investments[i].paid >= investments[i].amount

\* Seen from the database, requests that do not overlap are deposits into and
\* withdrawals from one fund.
F == INSTANCE Fund WITH balance <- aum, opened <- Len(investments), holders <- Active

ImplementsFund == F!Spec

-----------------------------------------------------------------------------
(* Statements of the source that the code does not keep.                   *)

\* invest.go:157: "All operations run inside a single database transaction";
\* the check of the status (invest.go:179, ErrAlreadyRedeemed) does not, and
\* an investment is paid out more than once.
RedeemedOnce == \A i \in Indices : investments[i].payouts <= 1
=============================================================================
