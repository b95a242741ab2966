--------------------------- MODULE OverlapProofs ----------------------------
(***************************************************************************)
(* What holds of investments however many requests overlap: the types, an  *)
(* overflow included, and, in the absence of overflows, that a profit      *)
(* share leaves the deposit alone.                                         *)
(***************************************************************************)
EXTENDS InvestProofs

-----------------------------------------------------------------------------
(* Types of the arithmetic.                                                *)

\* What wraps around is an int64.
LEMMA WrapType ==
    ASSUME NEW n \in Int
    PROVE  Wrap64(n) \in Int64
<1> DEFINE m == 2 * (MaxInt64 + 1)
           x == n + MaxInt64 + 1
<1>1. m \in Nat \ {0} /\ x \in Int
  BY MaxInt64Assumption
<1>2. x % m \in 0..(m - 1)
  BY <1>1, SMT
<1> QED
  BY <1>2, MaxInt64Assumption DEF Wrap64, Int64

LEMMA QuotientType ==
    ASSUME NEW n \in Int, NEW d \in Nat \ {0}
    PROVE  n \div d \in Int
OBVIOUS

LEMMA ShareType ==
    ASSUME NEW amount \in Int, NEW total \in Int, total # 0
    PROVE  ShareRatio(amount, total) \in Int
<1>1. amount * Scale \in Int /\ -(amount * Scale) \in Int
  BY ScaleAssumption
<1>2. CASE total > 0
  BY <1>1, <1>2, QuotientType DEF ShareRatio
<1>3. CASE total <= 0
  <2>1. -total \in Nat \ {0}
    BY <1>3
  <2>2. (-(amount * Scale)) \div (-total) \in Int
    BY <1>1, <2>1, QuotientType
  <2> QED
    BY <1>3, <2>2 DEF ShareRatio
<1> QED
  BY <1>2, <1>3

LEMMA ValueType ==
    ASSUME NEW share \in Int, NEW total \in Int
    PROVE  CurrentValue(share, total) \in Int
<1>1. (share * total) \div Scale \in Int
  <2>1. share * total \in Int
    OBVIOUS
  <2> QED
    BY <2>1, QuotientType, ScaleAssumption
<1> QED
  BY <1>1, WrapType, MaxInt64Assumption DEF CurrentValue, Int64

LEMMA FeeType ==
    ASSUME NEW value \in Int, NEW amount \in Int
    PROVE  ProfitShare(value, amount) \in Int
<1> DEFINE profit == Wrap64(value - amount)
           product == Wrap64(profit * ProfitSharePct)
<1>1. profit \in Int
  BY WrapType, MaxInt64Assumption DEF Int64
<1>2. product \in Int
  <2>1. profit * ProfitSharePct \in Int
    BY <1>1, PctAssumption
  <2> HIDE DEF profit
  <2> QED
    BY <2>1, WrapType, MaxInt64Assumption DEF Int64
<1>3. ProfitShare(value, amount) =
         IF profit <= 0 THEN 0
         ELSE IF product >= 0 THEN product \div 100 ELSE -((-product) \div 100)
  BY DEF ProfitShare
<1> HIDE DEF profit, product
<1> QED
  BY <1>2, <1>3

-----------------------------------------------------------------------------
(* The rows and the requests.                                              *)

\* The row of a redeemed investment.
LEMMA SettledIs ==
    ASSUME NEW row \in Row, NEW a \in Int, NEW b \in Nat
    PROVE  /\ Settled(row, a, b) \in Row
           /\ Settled(row, a, b).status = "redeemed"
           /\ Settled(row, a, b).payouts = row.payouts + 1
           /\ Settled(row, a, b).paid = row.paid + a
           /\ Settled(row, a, b).fee = row.fee + b
           /\ Settled(row, a, b).share = row.share
           /\ Settled(row, a, b).amount = row.amount
<1> DEFINE r1 == [row EXCEPT !.status = "redeemed"]
           r2 == [r1 EXCEPT !.payouts = @ + 1]
           r3 == [r2 EXCEPT !.paid = @ + a]
           r4 == [r3 EXCEPT !.fee = @ + b]
<1>1. /\ r1 \in Row /\ r1.status = "redeemed" /\ r1.payouts = row.payouts /\ r1.paid = row.paid
      /\ r1.fee = row.fee /\ r1.share = row.share /\ r1.amount = row.amount
  BY DEF Row
<1> HIDE DEF r1
<1>2. /\ r2 \in Row /\ r2.status = "redeemed" /\ r2.payouts = row.payouts + 1
      /\ r2.paid = row.paid /\ r2.fee = row.fee /\ r2.share = row.share
      /\ r2.amount = row.amount
  BY <1>1 DEF Row
<1> HIDE DEF r2
<1>3. /\ r3 \in Row /\ r3.status = "redeemed" /\ r3.payouts = row.payouts + 1
      /\ r3.paid = row.paid + a /\ r3.fee = row.fee /\ r3.share = row.share
      /\ r3.amount = row.amount
  BY <1>2 DEF Row
<1> HIDE DEF r3
<1>4. /\ r4 \in Row /\ r4.status = "redeemed" /\ r4.payouts = row.payouts + 1
      /\ r4.paid = row.paid + a /\ r4.fee = row.fee + b /\ r4.share = row.share
      /\ r4.amount = row.amount
  BY <1>3 DEF Row
<1>5. Settled(row, a, b) = r4
  BY DEF Settled, r4, r3, r2, r1
<1> QED
  BY <1>4, <1>5

\* RequestOK with the indices as a parameter.
RequestIn(d, indices) ==
    \/ d = Idle
    \/ d \in [op : {"deposit"}, user : Users, amount : Amounts, aum : Int64, count : Nat]
    \/ d \in [op : {"checked"}, inv : indices]
    \/ d \in [op : {"redeem"}, inv : indices, aum : Int64, count : Nat]
    \/ d \in [op : {"listed"}, todo : SUBSET indices]
    \/ d \in [op : {"sweep"}, todo : SUBSET indices, aum : Int64]

\* One request moves, and no row goes.
LEMMA RequestsTyped ==
    ASSUME TypeOK, NEW r \in Requests, NEW s, Become(r, s), Indices \subseteq Indices',
           RequestIn(s, Indices')
    PROVE  DOMAIN req' = Requests /\ \A q \in Requests : RequestOK(req[q])'
<1>1. DOMAIN req' = Requests /\ req'[r] = s /\ \A q \in Requests : q # r => req'[q] = req[q]
  BY DEF Become, TypeOK
<1>2. ASSUME NEW q \in Requests
      PROVE  RequestIn(req'[q], Indices')
  <2>1. CASE q = r
    BY <1>1, <2>1
  <2>2. CASE q # r
    <3>1. RequestIn(req[q], Indices)
      BY DEF TypeOK, RequestOK, RequestIn
    <3>2. SUBSET Indices \subseteq SUBSET (Indices')
      OBVIOUS
    <3>3. RequestIn(req[q], Indices')
      BY <3>1, <3>2 DEF RequestIn
    <3> QED
      BY <1>1, <2>2, <3>3
  <2> QED
    BY <2>1, <2>2
<1>3. \A q \in Requests : RequestOK(req[q])'
  BY <1>2 DEF RequestOK, RequestIn
<1> QED
  BY <1>1, <1>3

\* What is known of a request by where it is.
LEMMA RequestKinds ==
    ASSUME TypeOK, NEW r \in Requests
    PROVE  /\ req[r].op = "deposit" =>
                 req[r] \in [op : {"deposit"}, user : Users, amount : Amounts, aum : Int64, count : Nat]
           /\ req[r].op = "checked" => req[r] \in [op : {"checked"}, inv : Indices]
           /\ req[r].op = "redeem" =>
                 req[r] \in [op : {"redeem"}, inv : Indices, aum : Int64, count : Nat]
           /\ req[r].op = "listed" => req[r] \in [op : {"listed"}, todo : SUBSET Indices]
           /\ req[r].op = "sweep" =>
                 req[r] \in [op : {"sweep"}, todo : SUBSET Indices, aum : Int64]
<1>1. RequestOK(req[r])
  BY DEF TypeOK
<1> QED
  BY <1>1 DEF RequestOK, Idle

LEMMA AmountType == \A x \in Amounts : x \in Nat \ {0} /\ x <= MaxInt64 /\ x \in Int64
BY AmountsAssumption, MaxInt64Assumption DEF Int64

\* The rows after a deposit.
LEMMA DepositRows ==
    ASSUME TypeOK, NEW r \in Requests, CommitDeposit(r)
    PROVE  LET d == req[r]
               new == [owner |-> d.user, amount |-> d.amount, status |-> "active",
                       share |-> ShareRatio(d.amount, Wrap64(d.aum + d.amount)),
                       payouts |-> 0, paid |-> 0, fee |-> 0]
           IN  /\ new \in Row
               /\ investments' = Append(investments, new)
               /\ investments' \in Seq(Row) /\ Len(investments') = Len(investments) + 1
               /\ Indices = 1..Len(investments) /\ Len(investments) \in Nat
               /\ Indices' = 1..(Len(investments) + 1)
               /\ \A i \in Indices : investments'[i] = investments[i]
               /\ investments'[Len(investments) + 1] = new
<1> DEFINE d == req[r]
           share == ShareRatio(d.amount, Wrap64(d.aum + d.amount))
           new == [owner |-> d.user, amount |-> d.amount, status |-> "active",
                   share |-> share, payouts |-> 0, paid |-> 0, fee |-> 0]
<1>1. d \in [op : {"deposit"}, user : Users, amount : Amounts, aum : Int64, count : Nat]
  BY RequestKinds DEF CommitDeposit
<1>2. d.amount \in Int /\ d.aum \in Int /\ d.amount \in Amounts /\ d.user \in Users
  BY <1>1, AmountType, MaxInt64Assumption DEF Int64
<1>3. share \in Int
  <2>1. Wrap64(d.aum + d.amount) \in Int
    BY <1>2, WrapType, MaxInt64Assumption DEF Int64
  <2>2. Wrap64(d.aum + d.amount) # 0
    BY DEF CommitDeposit
  <2> QED
    BY <1>2, <2>1, <2>2, ShareType
<1>4. new \in Row
  <2> HIDE DEF share
  <2> QED
    BY <1>2, <1>3 DEF Row
<1>5. investments' = Append(investments, new)
  BY DEF CommitDeposit
<1>6. investments \in Seq(Row) /\ Len(investments) \in Nat /\ Indices = 1..Len(investments)
  BY DEF TypeOK, Indices
<1> HIDE DEF new
<1>7. /\ investments' \in Seq(Row) /\ Len(investments') = Len(investments) + 1
      /\ \A i \in 1..Len(investments) : investments'[i] = investments[i]
      /\ investments'[Len(investments) + 1] = new
  BY <1>4, <1>5, <1>6
<1>8. Indices' = 1..(Len(investments) + 1)
  BY <1>7 DEF Indices
<1> QED
  BY <1>4, <1>5, <1>6, <1>7, <1>8 DEF new

\* The rows after a redemption.
LEMMA RedeemRows ==
    ASSUME TypeOK, NEW r \in Requests, CommitRedeem(r)
    PROVE  LET d == req[r]
               row == investments[d.inv]
               fee == ProfitShare(CurrentValue(row.share, d.aum), row.amount)
               returned == Wrap64(CurrentValue(row.share, d.aum) - fee)
               charged == IF fee > 0 THEN fee ELSE 0
           IN  /\ d \in [op : {"redeem"}, inv : Indices, aum : Int64, count : Nat]
               /\ row \in Row /\ fee \in Int /\ returned \in Int /\ charged \in Nat
               /\ investments' \in Seq(Row) /\ Len(investments') = Len(investments)
               /\ Indices' = Indices
               /\ investments'[d.inv] = Settled(row, returned, charged)
               /\ \A i \in Indices : i # d.inv => investments'[i] = investments[i]
<1> DEFINE d == req[r]
           row == investments[d.inv]
           value == CurrentValue(row.share, d.aum)
           fee == ProfitShare(value, row.amount)
           returned == Wrap64(value - fee)
           charged == IF fee > 0 THEN fee ELSE 0
<1>1. d \in [op : {"redeem"}, inv : Indices, aum : Int64, count : Nat]
  BY RequestKinds DEF CommitRedeem
<1>2. investments \in Seq(Row) /\ Indices = DOMAIN investments /\ d.inv \in DOMAIN investments
  BY <1>1 DEF TypeOK, Indices
<1>3. row \in Row
  BY <1>2
<1>4. value \in Int
  <2>1. row.share \in Int /\ d.aum \in Int
    BY <1>1, <1>3, MaxInt64Assumption DEF Row, Int64
  <2> QED
    BY <2>1, ValueType
<1>5. fee \in Int
  <2>1. row.amount \in Int
    BY <1>3, AmountType DEF Row
  <2> HIDE DEF value
  <2> QED
    BY <1>4, <2>1, FeeType
<1>6. returned \in Int /\ charged \in Nat
  <2> HIDE DEF value, fee
  <2>1. value - fee \in Int
    BY <1>4, <1>5
  <2> QED
    BY <1>5, <2>1, WrapType, MaxInt64Assumption DEF Int64
<1>7. investments' = [investments EXCEPT ![d.inv] = Settled(row, returned, charged)]
  BY DEF CommitRedeem
<1> HIDE DEF value, fee, returned, charged, row
<1>8. Settled(row, returned, charged) \in Row
  BY <1>3, <1>6, SettledIs
<1>9. /\ investments' \in Seq(Row) /\ Len(investments') = Len(investments)
      /\ DOMAIN investments' = DOMAIN investments
      /\ investments'[d.inv] = Settled(row, returned, charged)
      /\ \A i \in DOMAIN investments : i # d.inv => investments'[i] = investments[i]
  BY <1>2, <1>7, <1>8
<1>10. Indices' = Indices
  BY <1>2, <1>9 DEF Indices
<1> QED
  BY <1>1, <1>2, <1>3, <1>5, <1>6, <1>9, <1>10 DEF value, fee, returned, charged, row

-----------------------------------------------------------------------------
(* Types, for any requests and any amounts.                                *)

\* A step that only moves a request.
LEMMA MovesTyped ==
    ASSUME TypeOK, NEW r \in Requests, NEW s, Become(r, s), UNCHANGED tables,
           RequestIn(s, Indices), sweeps' \in 0..MaxSweeps
    PROVE  TypeOK'
<1>1. UNCHANGED <<investments, aum, investorCount, ledger, swept>>
  BY DEF tables
<1>2. Indices' = Indices
  BY <1>1 DEF Indices
<1>3. DOMAIN req' = Requests /\ \A q \in Requests : RequestOK(req[q])'
  BY <1>2, RequestsTyped
<1> QED
  BY <1>1, <1>3 DEF TypeOK

LEMMA DepositTyped ==
    ASSUME TypeOK, NEW r \in Requests, CommitDeposit(r)
    PROVE  TypeOK'
<1> DEFINE d == req[r]
           n == Len(investments)
<1>1. d \in [op : {"deposit"}, user : Users, amount : Amounts, aum : Int64, count : Nat]
  BY RequestKinds DEF CommitDeposit
<1>2. d.amount \in Int /\ d.aum \in Int /\ d.count \in Nat
  BY <1>1, AmountType, MaxInt64Assumption DEF Int64
<1>3. /\ investments' \in Seq(Row) /\ Indices = 1..n /\ n \in Nat /\ Indices' = 1..(n + 1)
      /\ \A i \in Indices : investments'[i] = investments[i]
  BY DepositRows
<1>4. Indices \subseteq Indices'
  BY <1>3
<1>5. DOMAIN req' = Requests /\ \A q \in Requests : RequestOK(req[q])'
  BY <1>4, RequestsTyped DEF CommitDeposit, RequestIn
<1>6. aum' \in Int64 /\ investorCount' \in Nat
  <2>1. aum' = Wrap64(d.aum + d.amount) /\ investorCount' = d.count + 1
    BY DEF CommitDeposit
  <2>2. d.aum + d.amount \in Int /\ d.count + 1 \in Nat
    BY <1>2
  <2> QED
    BY <2>1, <2>2, WrapType
<1>7. ledger' \in [deposit : Int, withdrawal : Int, profit_share : Int]
  <2>1. ledger' = [ledger EXCEPT !.deposit = @ + d.amount]
    BY DEF CommitDeposit
  <2>2. ledger \in [deposit : Int, withdrawal : Int, profit_share : Int]
    BY DEF TypeOK
  <2> QED
    BY <1>2, <2>1, <2>2
<1> QED
  BY <1>3, <1>5, <1>6, <1>7 DEF CommitDeposit, TypeOK

LEMMA RedeemTyped ==
    ASSUME TypeOK, NEW r \in Requests, CommitRedeem(r)
    PROVE  TypeOK'
<1> DEFINE d == req[r]
           row == investments[d.inv]
           fee == ProfitShare(CurrentValue(row.share, d.aum), row.amount)
           returned == Wrap64(CurrentValue(row.share, d.aum) - fee)
           charged == IF fee > 0 THEN fee ELSE 0
<1>1. /\ d \in [op : {"redeem"}, inv : Indices, aum : Int64, count : Nat]
      /\ row \in Row /\ returned \in Int /\ charged \in Nat
      /\ investments' \in Seq(Row) /\ Indices' = Indices
      /\ investments'[d.inv] = Settled(row, returned, charged)
      /\ \A i \in Indices : i # d.inv => investments'[i] = investments[i]
  BY RedeemRows
<1>2. DOMAIN req' = Requests /\ \A q \in Requests : RequestOK(req[q])'
  BY <1>1, RequestsTyped DEF CommitRedeem, RequestIn
<1>3. aum' \in Int64 /\ investorCount' \in Nat
  <2>1. aum' = AtLeast0(Wrap64(Wrap64(d.aum - returned) - charged))
        /\ investorCount' = AtLeast0(d.count - 1)
    BY DEF CommitRedeem, NewAUM
  <2>2. d.aum \in Int /\ d.count \in Nat
    BY <1>1, MaxInt64Assumption DEF Int64
  <2> HIDE DEF returned, charged, fee, row
  <2>3. Wrap64(d.aum - returned) \in Int
    <3>1. d.aum - returned \in Int
      BY <1>1, <2>2
    <3> QED
      BY <3>1, WrapType, MaxInt64Assumption DEF Int64
  <2>4. Wrap64(Wrap64(d.aum - returned) - charged) \in Int64
    <3>1. Wrap64(d.aum - returned) - charged \in Int
      BY <1>1, <2>3
    <3> QED
      BY <3>1, WrapType
  <2>5. \A x \in Int64 : AtLeast0(x) \in Int64
    BY MaxInt64Assumption DEF AtLeast0, Int64
  <2>6. AtLeast0(d.count - 1) \in Nat
    BY <2>2 DEF AtLeast0
  <2> QED
    BY <2>1, <2>4, <2>5, <2>6
<1>4. ledger' \in [deposit : Int, withdrawal : Int, profit_share : Int]
  <2>1. ledger' = [ledger EXCEPT !.withdrawal = @ - returned, !.profit_share = @ - charged]
    BY DEF CommitRedeem
  <2>2. ledger \in [deposit : Int, withdrawal : Int, profit_share : Int]
    BY DEF TypeOK
  <2>3. returned \in Int /\ charged \in Int
    BY <1>1
  <2> HIDE DEF returned, charged, fee, row
  <2>4. ledger' = [deposit |-> ledger.deposit, withdrawal |-> ledger.withdrawal - returned,
                   profit_share |-> ledger.profit_share - charged]
    BY <2>1, <2>2
  <2>5. ledger.withdrawal - returned \in Int /\ ledger.profit_share - charged \in Int
    BY <2>2, <2>3
  <2> QED
    BY <2>2, <2>4, <2>5
<1> QED
  BY <1>1, <1>2, <1>3, <1>4 DEF CommitRedeem, TypeOK

LEMMA ChargeTyped ==
    ASSUME TypeOK, NEW r \in Requests, NEW i \in DOMAIN investments, ChargeNext(r, i)
    PROVE  TypeOK'
<1> DEFINE d == req[r]
           row == investments[i]
           share == ProfitShare(CurrentValue(row.share, d.aum), row.amount)
           fee == AtLeast0(share)
<1>1. d \in [op : {"sweep"}, todo : SUBSET Indices, aum : Int64]
  BY RequestKinds DEF ChargeNext
<1>2. fee \in Nat
  <2>1. row \in Row
    BY DEF TypeOK
  <2>2. row.share \in Int /\ row.amount \in Int /\ d.aum \in Int
    BY <1>1, <2>1, AmountType, MaxInt64Assumption DEF Row, Int64
  <2>3. share \in Int
    BY <2>2, ValueType, FeeType
  <2> HIDE DEF share
  <2> QED
    BY <2>3 DEF AtLeast0
<1>3. /\ ledger' = [ledger EXCEPT !.profit_share = @ - fee] /\ swept' = swept + fee
      /\ UNCHANGED <<investments, aum, investorCount, sweeps>>
      /\ Become(r, IF d.todo = {i} THEN Idle ELSE [d EXCEPT !.todo = @ \ {i}])
  BY DEF ChargeNext
<1> HIDE DEF fee
<1>4. Indices' = Indices
  BY <1>3 DEF Indices
<1>5. [d EXCEPT !.todo = @ \ {i}] \in [op : {"sweep"}, todo : SUBSET Indices, aum : Int64]
  <2>1. d.todo \ {i} \in SUBSET Indices
    BY <1>1
  <2> HIDE DEF d
  <2> QED
    BY <1>1, <2>1
<1>6. RequestIn(IF d.todo = {i} THEN Idle ELSE [d EXCEPT !.todo = @ \ {i}], Indices)
  BY <1>5 DEF RequestIn
<1>7. DOMAIN req' = Requests /\ \A q \in Requests : RequestOK(req[q])'
  BY <1>3, <1>4, <1>6, RequestsTyped
<1>8. ledger' \in [deposit : Int, withdrawal : Int, profit_share : Int] /\ swept' \in Nat
  BY <1>2, <1>3 DEF TypeOK
<1> QED
  BY <1>3, <1>7, <1>8 DEF TypeOK

LEMMA TypeNext ==
    ASSUME TypeOK, [Next]_vars
    PROVE  TypeOK'
<1>1. sweeps \in 0..MaxSweeps /\ aum \in Int64 /\ investorCount \in Nat
  BY DEF TypeOK
<1>2. ASSUME NEW r \in Requests, NEW u \in Users, NEW amount \in Amounts,
             BeginDeposit(r, u, amount)
      PROVE  TypeOK'
  BY <1>1, <1>2, MovesTyped DEF BeginDeposit, RequestIn
<1>3. ASSUME NEW r \in Requests, NEW u \in Users, NEW i \in DOMAIN investments,
             BeginRedeem(r, u, i)
      PROVE  TypeOK'
  BY <1>1, <1>3, MovesTyped DEF BeginRedeem, RequestIn, Indices
<1>4. ASSUME NEW r \in Requests, ReadAgent(r)
      PROVE  TypeOK'
  <2>1. req[r].inv \in Indices
    BY <1>1, <1>4, RequestKinds DEF ReadAgent
  <2> QED
    BY <1>1, <1>4, <2>1, MovesTyped DEF ReadAgent, RequestIn
<1>5. ASSUME NEW r \in Requests, BeginSweep(r)
      PROVE  TypeOK'
  <2>1. Active \subseteq Indices
    BY DEF Active, Indices
  <2>2. sweeps' \in 0..MaxSweeps
    BY <1>1, <1>5, InvestBounds DEF BeginSweep
  <2> QED
    BY <1>5, <2>1, <2>2, MovesTyped DEF BeginSweep, RequestIn
<1>6. ASSUME NEW r \in Requests, ReadAgentForSweep(r)
      PROVE  TypeOK'
  <2>1. req[r].todo \in SUBSET Indices
    BY <1>1, <1>6, RequestKinds DEF ReadAgentForSweep
  <2>2. RequestIn(IF req[r].todo = {} THEN Idle
                  ELSE [op |-> "sweep", todo |-> req[r].todo, aum |-> aum], Indices)
    BY <1>1, <2>1 DEF RequestIn
  <2> QED
    BY <1>1, <1>6, <2>2, MovesTyped DEF ReadAgentForSweep
<1>7. ASSUME NEW r \in Requests, Abort(r)
      PROVE  TypeOK'
  BY <1>1, <1>7, MovesTyped DEF Abort, RequestIn
<1>8. CASE UNCHANGED vars
  <2>1. Indices' = Indices
    BY <1>8 DEF vars, Indices
  <2> QED
    BY <1>8, <2>1 DEF vars, TypeOK, RequestOK
<1> QED
  BY <1>2, <1>3, <1>4, <1>5, <1>6, <1>7, <1>8, DepositTyped, RedeemTyped, ChargeTyped DEF Next

LEMMA TypeInit ==
    ASSUME Init
    PROVE  TypeOK
<1>1. Indices = {} /\ investments \in Seq(Row)
  BY DEF Init, Indices
<1> QED
  BY <1>1, InvestBounds, MaxInt64Assumption DEF Init, TypeOK, RequestOK, Int64

\* Whatever requests overlap, and whatever overflows, the tables stay well
\* typed (TypeOK).
THEOREM TypeCorrect == Spec => []TypeOK
<1>1. Init => TypeOK
  BY TypeInit
<1>2. TypeOK /\ [Next]_vars => TypeOK'
  BY TypeNext
<1> QED
  BY <1>1, <1>2, PTL DEF Spec

-----------------------------------------------------------------------------
(* Profit shares, as long as no sum or product leaves the int64 range.     *)

\* Deposits under way.
Depositing == {q \in Requests : req[q].op = "deposit"}

\* There is room for the deposits that are under way.
Room == Len(investments) + Cardinality(Depositing) <= MaxInvestments

\* Neither the AUM nor what a request has read of it, however stale, is more
\* than the deposits so far may have brought.
AumBounded(M) ==
    /\ aum \in 0..(Len(investments) * M)
    /\ \A r \in Requests : req[r].op \in {"deposit", "redeem"} =>
           req[r].aum \in 0..(Len(investments) * M)

\* An investment's share is part of the whole, and who was charged has the
\* deposit back.
SparedRow(row) == /\ row.share \in 0..Scale /\ row.paid >= 0
                  /\ row.fee > 0 => row.paid >= row.amount

SparedInv(M) == /\ TypeOK /\ Room /\ AumBounded(M)
                /\ \A i \in Indices : SparedRow(investments[i])

LEMMA RoomNext ==
    ASSUME IsFiniteSet(Requests), TypeOK, Room, Next
    PROVE  Room'
<1>1. /\ DOMAIN req = Requests /\ Len(investments) \in Nat
      /\ IsFiniteSet(Depositing) /\ Cardinality(Depositing) \in Nat
  <2>1. IsFiniteSet(Depositing)
    BY FS_Subset DEF Depositing
  <2> QED
    BY <2>1, FS_CardinalityType DEF TypeOK
<1>2. ASSUME NEW r \in Requests, NEW s, Become(r, s)
      PROVE  /\ s.op # "deposit" => Depositing' = Depositing \ {r}
             /\ Depositing' \subseteq Depositing \cup {r}
  BY <1>1, <1>2 DEF Become, Depositing
<1>3. ASSUME NEW r \in Requests, NEW s, Become(r, s), s.op # "deposit",
             UNCHANGED investments
      PROVE  Room'
  <2>1. Depositing' \subseteq Depositing
    BY <1>2, <1>3
  <2>2. Cardinality(Depositing') <= Cardinality(Depositing) /\ Cardinality(Depositing') \in Nat
    BY <1>1, <2>1, FS_Subset, FS_CardinalityType
  <2> QED
    BY <1>1, <1>3, <2>2, InvestBounds DEF Room
<1>4. ASSUME NEW r \in Requests, NEW u \in Users, NEW amount \in Amounts,
             BeginDeposit(r, u, amount)
      PROVE  Room'
  <2>1. Depositing' \subseteq Depositing \cup {r} /\ UNCHANGED investments
    BY <1>2, <1>4 DEF BeginDeposit, tables
  <2>2. r \notin Depositing
    BY <1>4 DEF BeginDeposit, Depositing, Idle
  <2>3. IsFiniteSet(Depositing \cup {r}) /\ Cardinality(Depositing \cup {r}) = Cardinality(Depositing) + 1
    BY <1>1, <2>2, FS_AddElement
  <2>4. Cardinality(Depositing') <= Cardinality(Depositing) + 1 /\ Cardinality(Depositing') \in Nat
    BY <2>1, <2>3, FS_Subset, FS_CardinalityType
  <2>5. Len(investments) + Cardinality(Depositing) < MaxInvestments
    BY <1>4 DEF BeginDeposit, Depositing
  <2>6. Len(investments') + Cardinality(Depositing') <= MaxInvestments
    BY <1>1, <2>1, <2>4, <2>5, InvestBounds
  <2> QED
    BY <2>6 DEF Room
<1>5. ASSUME NEW r \in Requests, CommitDeposit(r)
      PROVE  Room'
  <2>1. Depositing' = Depositing \ {r} /\ r \in Depositing
    BY <1>2, <1>5 DEF CommitDeposit, Depositing, Idle
  <2>2. Cardinality(Depositing') = Cardinality(Depositing) - 1
    BY <1>1, <2>1, FS_RemoveElement
  <2>3. Len(investments') = Len(investments) + 1
    BY <1>5, DepositRows
  <2>4. Len(investments') + Cardinality(Depositing') = Len(investments) + Cardinality(Depositing)
    BY <1>1, <2>2, <2>3
  <2> QED
    BY <2>4 DEF Room
<1>6. ASSUME NEW r \in Requests, CommitRedeem(r)
      PROVE  Room'
  <2>1. Depositing' \subseteq Depositing
    BY <1>2, <1>6 DEF CommitRedeem, Idle
  <2>2. Cardinality(Depositing') <= Cardinality(Depositing) /\ Cardinality(Depositing') \in Nat
    BY <1>1, <2>1, FS_Subset, FS_CardinalityType
  <2>3. Len(investments') = Len(investments)
    BY <1>6, RedeemRows
  <2> QED
    BY <1>1, <2>2, <2>3, InvestBounds DEF Room
<1>7. ASSUME NEW r \in Requests, NEW u \in Users, NEW i \in DOMAIN investments,
             BeginRedeem(r, u, i)
      PROVE  Room'
  BY <1>3, <1>7 DEF BeginRedeem, tables
<1>8. ASSUME NEW r \in Requests, ReadAgent(r)
      PROVE  Room'
  BY <1>3, <1>8 DEF ReadAgent, tables
<1>9. ASSUME NEW r \in Requests, BeginSweep(r)
      PROVE  Room'
  BY <1>3, <1>9 DEF BeginSweep, tables
<1>10. ASSUME NEW r \in Requests, ReadAgentForSweep(r)
       PROVE  Room'
  <2> DEFINE s == IF req[r].todo = {} THEN Idle
                  ELSE [op |-> "sweep", todo |-> req[r].todo, aum |-> aum]
  <2>1. s.op # "deposit"
    BY DEF Idle
  <2> QED
    BY <1>3, <1>10, <2>1 DEF ReadAgentForSweep, tables
<1>11. ASSUME NEW r \in Requests, NEW i \in DOMAIN investments, ChargeNext(r, i)
       PROVE  Room'
  <2> DEFINE s == IF req[r].todo = {i} THEN Idle ELSE [req[r] EXCEPT !.todo = @ \ {i}]
  <2>1. req[r] \in [op : {"sweep"}, todo : SUBSET Indices, aum : Int64]
    BY <1>11, RequestKinds DEF ChargeNext
  <2>2. s.op # "deposit"
    BY <2>1 DEF Idle
  <2> QED
    BY <1>3, <1>11, <2>2 DEF ChargeNext
<1>12. ASSUME NEW r \in Requests, Abort(r)
       PROVE  Room'
  BY <1>3, <1>12 DEF Abort, tables, Idle
<1> QED
  BY <1>4, <1>5, <1>6, <1>7, <1>8, <1>9, <1>10, <1>11, <1>12 DEF Next

\* The bound leaves room for the arithmetic.
LEMMA BoundFits ==
    ASSUME NEW M \in Nat, Fits(M), TypeOK, Room, IsFiniteSet(Requests)
    PROVE  /\ Len(investments) * M \in Nat /\ 100 * (Len(investments) * M) <= MaxInt64
           /\ Depositing # {} => 100 * ((Len(investments) + 1) * M) <= MaxInt64
           /\ (Len(investments) + 1) * M = Len(investments) * M + M
<1> DEFINE n == Len(investments)
           c == Cardinality(Depositing)
<1>1. n \in Nat /\ IsFiniteSet(Depositing) /\ c \in Nat
  BY FS_Subset, FS_CardinalityType DEF TypeOK, Depositing
<1>2. n + c <= MaxInvestments /\ MaxInvestments \in Nat
  BY InvestBounds DEF Room
<1>3. Depositing # {} => c # 0
  BY <1>1, FS_EmptySet
<1>4. 100 * (MaxInvestments * M) <= MaxInt64 /\ MaxInt64 \in Nat
  BY MaxInt64Assumption DEF Fits
<1> HIDE DEF n, c
<1>5. ASSUME NEW k \in Nat, k <= MaxInvestments
      PROVE  k * M \in Nat /\ 100 * (k * M) <= MaxInt64
  <2>1. k * M <= MaxInvestments * M
    BY <1>2, <1>5, TimesMono
  <2>2. k * M \in Nat /\ MaxInvestments * M \in Nat
    BY <1>2
  <2> QED
    BY <1>4, <2>1, <2>2
<1>6. n <= MaxInvestments /\ (Depositing # {} => n + 1 <= MaxInvestments)
  BY <1>1, <1>2, <1>3
<1>7. (n + 1) * M = n * M + M
  BY <1>1
<1> QED
  BY <1>1, <1>5, <1>6, <1>7 DEF n

\* A step that leaves rows and AUM alone.
LEMMA MovesSpare ==
    ASSUME NEW M \in Nat, SparedInv(M), NEW r \in Requests, NEW s, Become(r, s),
           UNCHANGED <<investments, aum>>,
           s.op \in {"deposit", "redeem"} => s.aum = aum
    PROVE  AumBounded(M)' /\ \A i \in Indices' : SparedRow(investments'[i])
<1>1. DOMAIN req = Requests
  BY DEF SparedInv, TypeOK
<1>2. req'[r] = s /\ \A q \in Requests : q # r => req'[q] = req[q]
  BY <1>1 DEF Become
<1>3. AumBounded(M)'
  <2>1. ASSUME NEW q \in Requests, req'[q].op \in {"deposit", "redeem"}
        PROVE  req'[q].aum \in 0..(Len(investments) * M)
    BY <1>2, <2>1 DEF SparedInv, AumBounded
  <2> QED
    BY <2>1 DEF SparedInv, AumBounded
<1>4. Indices' = Indices
  BY DEF Indices
<1> QED
  BY <1>3, <1>4 DEF SparedInv

LEMMA DepositSpares ==
    ASSUME NEW M \in Nat, Fits(M), IsFiniteSet(Requests), SparedInv(M),
           NEW r \in Requests, CommitDeposit(r)
    PROVE  AumBounded(M)' /\ \A i \in Indices' : SparedRow(investments'[i])
<1> DEFINE d == req[r]
           n == Len(investments)
           sum == d.aum + d.amount
<1>1. TypeOK /\ Room /\ AumBounded(M) /\ n \in Nat
  BY DEF SparedInv, TypeOK
<1>2. d.amount \in Amounts /\ d.op = "deposit"
  BY <1>1, RequestKinds DEF CommitDeposit
<1>3. d.amount \in Nat \ {0} /\ d.amount <= M
  <2>1. d.amount \in 1..M
    BY <1>2 DEF Fits
  <2> HIDE DEF d
  <2> QED
    BY <2>1
<1>4. d.aum \in 0..(n * M)
  BY <1>1, <1>2 DEF AumBounded
<1>5. Depositing # {}
  BY <1>2 DEF Depositing
<1>6. /\ n * M \in Nat /\ (n + 1) * M = n * M + M
      /\ 100 * ((n + 1) * M) <= MaxInt64
  BY <1>1, <1>5, BoundFits
<1>7. sum \in Nat \ {0} /\ d.amount <= sum /\ sum <= (n + 1) * M /\ sum <= MaxInt64
  <2> HIDE DEF d
  <2> QED
    BY <1>3, <1>4, <1>6, MaxInt64Assumption
<1>8. Wrap64(sum) = sum
  BY <1>7, Wrap64Id, MaxInt64Assumption DEF Int64
<1>9. ShareRatio(d.amount, Wrap64(sum)) \in 0..Scale
  <2> HIDE DEF d, sum
  <2> QED
    BY <1>3, <1>7, <1>8, ShareInRange
<1> DEFINE new == [owner |-> d.user, amount |-> d.amount, status |-> "active",
                   share |-> ShareRatio(d.amount, Wrap64(sum)),
                   payouts |-> 0, paid |-> 0, fee |-> 0]
<1>10. SparedRow(new)
  BY <1>9 DEF SparedRow
<1>11. /\ Indices = 1..n /\ Indices' = 1..(n + 1) /\ Len(investments') = n + 1
       /\ \A i \in Indices : investments'[i] = investments[i]
       /\ investments'[n + 1] = new
  BY <1>1, DepositRows
<1> HIDE DEF new
<1>12. \A i \in Indices' : SparedRow(investments'[i])
  <2>1. \A i \in Indices : SparedRow(investments'[i])
    BY <1>11 DEF SparedInv
  <2>2. SparedRow(investments'[n + 1])
    BY <1>10, <1>11
  <2> QED
    BY <1>1, <1>11, <2>1, <2>2
<1>13. AumBounded(M)'
  <2>1. aum' \in 0..((n + 1) * M)
    <3>1. aum' = sum
      BY <1>8 DEF CommitDeposit
    <3> HIDE DEF sum
    <3> QED
      BY <1>1, <1>6, <1>7, <3>1
  <2>2. ASSUME NEW q \in Requests, req'[q].op \in {"deposit", "redeem"}
        PROVE  req'[q].aum \in 0..((n + 1) * M)
    <3>1. DOMAIN req = Requests /\ req' = [req EXCEPT ![r] = Idle]
      BY <1>1 DEF TypeOK, CommitDeposit, Become
    <3>2. q # r /\ req'[q] = req[q]
      BY <2>2, <3>1 DEF Idle
    <3>3. req[q].aum \in 0..(n * M)
      BY <1>1, <2>2, <3>2 DEF AumBounded
    <3> QED
      BY <1>6, <3>2, <3>3
  <2> QED
    BY <1>11, <2>1, <2>2 DEF AumBounded
<1> QED
  BY <1>12, <1>13

LEMMA RedeemSpares ==
    ASSUME NEW M \in Nat, Fits(M), IsFiniteSet(Requests), SparedInv(M),
           NEW r \in Requests, CommitRedeem(r)
    PROVE  AumBounded(M)' /\ \A i \in Indices' : SparedRow(investments'[i])
<1> DEFINE d == req[r]
           n == Len(investments)
           row == investments[d.inv]
           value == CurrentValue(row.share, d.aum)
           fee == ProfitShare(value, row.amount)
           returned == Wrap64(value - fee)
           charged == IF fee > 0 THEN fee ELSE 0
<1>1. TypeOK /\ Room /\ AumBounded(M) /\ n \in Nat
  BY DEF SparedInv, TypeOK
<1>2. /\ d \in [op : {"redeem"}, inv : Indices, aum : Int64, count : Nat]
      /\ row \in Row /\ returned \in Int /\ charged \in Nat
      /\ Len(investments') = n /\ Indices' = Indices
      /\ investments'[d.inv] = Settled(row, returned, charged)
      /\ \A i \in Indices : i # d.inv => investments'[i] = investments[i]
  BY <1>1, RedeemRows
<1>3. d.aum \in 0..(n * M) /\ n * M \in Nat /\ 100 * (n * M) <= MaxInt64 /\ MaxInt64 \in Nat
  BY <1>1, <1>2, BoundFits, MaxInt64Assumption DEF AumBounded
<1>4. SparedRow(row) /\ row.amount \in Nat /\ row.amount <= MaxInt64
      /\ row.paid \in Int /\ row.fee \in Nat
  BY <1>2, AmountType DEF SparedInv, Row
<1>5. d.aum \in 0..MaxInt64 /\ 100 * d.aum <= MaxInt64
  <2> HIDE DEF d
  <2> QED
    BY <1>3
<1>6. value \in 0..d.aum
  BY <1>4, <1>5, ValueInRange DEF SparedRow
<1>7. value \in Nat /\ 100 * value <= MaxInt64 /\ value <= d.aum /\ d.aum \in Nat
  <2> HIDE DEF value, d
  <2> QED
    BY <1>5, <1>6, <1>3
<1>8. fee \in 0..value /\ (fee > 0 => value - fee >= row.amount)
  <2> HIDE DEF value
  <2> QED
    BY <1>4, <1>7, FeeInRange
<1>9. returned = value - fee /\ charged = fee
  <2>1. value - fee \in Int64 /\ fee \in Nat
    <3> HIDE DEF value, fee
    <3> QED
      BY <1>3, <1>7, <1>8 DEF Int64
  <2> HIDE DEF value, fee
  <2> QED
    BY <2>1, Wrap64Id
<1>10. aum' \in 0..(n * M)
  <2>1. aum' = AtLeast0(Wrap64(Wrap64(d.aum - returned) - charged))
    BY DEF CommitRedeem, NewAUM
  <2> HIDE DEF value, fee, returned, charged, row, d
  <2>2. d.aum - returned \in Int64 /\ (d.aum - returned) - charged \in Int64
    BY <1>3, <1>5, <1>7, <1>8, <1>9 DEF Int64
  <2>3. aum' = AtLeast0((d.aum - returned) - charged)
    BY <2>1, <2>2, Wrap64Id
  <2>4. (d.aum - returned) - charged \in 0..(n * M)
    BY <1>3, <1>7, <1>8, <1>9
  <2> QED
    BY <2>3, <2>4 DEF AtLeast0
<1>11. SparedRow(Settled(row, returned, charged))
  <2> HIDE DEF value, fee, returned, charged, row
  <2>1. /\ Settled(row, returned, charged).paid = row.paid + returned
        /\ Settled(row, returned, charged).fee = row.fee + charged
        /\ Settled(row, returned, charged).share = row.share
        /\ Settled(row, returned, charged).amount = row.amount
    BY <1>2, SettledIs
  <2>2. returned \in Nat /\ (charged > 0 => returned >= row.amount) /\ charged \in Nat
    BY <1>7, <1>8, <1>9
  <2>3. row.paid >= 0 /\ (row.fee > 0 => row.paid >= row.amount) /\ row.share \in 0..Scale
    BY <1>4 DEF SparedRow
  <2>4. row.paid + returned >= 0
    BY <1>4, <2>2, <2>3
  <2>5. row.fee + charged > 0 => row.paid + returned >= row.amount
    BY <1>4, <2>2, <2>3
  <2> QED
    BY <2>1, <2>3, <2>4, <2>5 DEF SparedRow
<1>12. \A i \in Indices' : SparedRow(investments'[i])
  <2> HIDE DEF returned, charged, row, d
  <2>1. ASSUME NEW i \in Indices, i # d.inv
        PROVE  SparedRow(investments'[i])
    BY <1>2, <2>1 DEF SparedInv
  <2> QED
    BY <1>2, <1>11, <2>1
<1>13. AumBounded(M)'
  <2>1. ASSUME NEW q \in Requests, req'[q].op \in {"deposit", "redeem"}
        PROVE  req'[q].aum \in 0..(n * M)
    <3>1. DOMAIN req = Requests /\ req' = [req EXCEPT ![r] = Idle]
      BY <1>1 DEF TypeOK, CommitRedeem, Become
    <3>2. q # r /\ req'[q] = req[q]
      BY <2>1, <3>1 DEF Idle
    <3> QED
      BY <1>1, <2>1, <3>2 DEF AumBounded
  <2> QED
    BY <1>2, <1>10, <2>1 DEF AumBounded
<1> QED
  BY <1>12, <1>13

LEMMA SparedNext ==
    ASSUME NEW M \in Nat, Fits(M), IsFiniteSet(Requests), SparedInv(M), Next
    PROVE  SparedInv(M)'
<1>1. TypeOK /\ Room
  BY DEF SparedInv
<1>2. TypeOK' /\ Room'
  BY <1>1, TypeNext, RoomNext
<1>3. ASSUME NEW r \in Requests, NEW u \in Users, NEW amount \in Amounts,
             BeginDeposit(r, u, amount)
      PROVE  AumBounded(M)' /\ \A i \in Indices' : SparedRow(investments'[i])
  BY <1>3, MovesSpare DEF BeginDeposit, tables
<1>4. ASSUME NEW r \in Requests, NEW u \in Users, NEW i \in DOMAIN investments,
             BeginRedeem(r, u, i)
      PROVE  AumBounded(M)' /\ \A j \in Indices' : SparedRow(investments'[j])
  BY <1>4, MovesSpare DEF BeginRedeem, tables
<1>5. ASSUME NEW r \in Requests, ReadAgent(r)
      PROVE  AumBounded(M)' /\ \A i \in Indices' : SparedRow(investments'[i])
  BY <1>5, MovesSpare DEF ReadAgent, tables
<1>6. ASSUME NEW r \in Requests, BeginSweep(r)
      PROVE  AumBounded(M)' /\ \A i \in Indices' : SparedRow(investments'[i])
  BY <1>6, MovesSpare DEF BeginSweep, tables
<1>7. ASSUME NEW r \in Requests, ReadAgentForSweep(r)
      PROVE  AumBounded(M)' /\ \A i \in Indices' : SparedRow(investments'[i])
  <2> DEFINE s == IF req[r].todo = {} THEN Idle
                  ELSE [op |-> "sweep", todo |-> req[r].todo, aum |-> aum]
  <2>1. s.op \notin {"deposit", "redeem"}
    BY DEF Idle
  <2>2. Become(r, s) /\ UNCHANGED <<investments, aum>>
    BY <1>7 DEF ReadAgentForSweep, tables
  <2> HIDE DEF s
  <2> QED
    BY <2>1, <2>2, MovesSpare
<1>8. ASSUME NEW r \in Requests, NEW i \in DOMAIN investments, ChargeNext(r, i)
      PROVE  AumBounded(M)' /\ \A j \in Indices' : SparedRow(investments'[j])
  <2> DEFINE s == IF req[r].todo = {i} THEN Idle ELSE [req[r] EXCEPT !.todo = @ \ {i}]
  <2>1. req[r] \in [op : {"sweep"}, todo : SUBSET Indices, aum : Int64]
    BY <1>1, <1>8, RequestKinds DEF ChargeNext
  <2>2. s.op \notin {"deposit", "redeem"}
    BY <2>1 DEF Idle
  <2>3. Become(r, s) /\ UNCHANGED <<investments, aum>>
    BY <1>8 DEF ChargeNext
  <2> HIDE DEF s
  <2> QED
    BY <2>2, <2>3, MovesSpare
<1>9. ASSUME NEW r \in Requests, Abort(r)
      PROVE  AumBounded(M)' /\ \A i \in Indices' : SparedRow(investments'[i])
  BY <1>9, MovesSpare DEF Abort, tables, Idle
<1>10. AumBounded(M)' /\ \A i \in Indices' : SparedRow(investments'[i])
  BY <1>3, <1>4, <1>5, <1>6, <1>7, <1>8, <1>9, DepositSpares, RedeemSpares DEF Next
<1> QED
  BY <1>2, <1>10 DEF SparedInv

LEMMA SparedInit ==
    ASSUME NEW M \in Nat, Init
    PROVE  SparedInv(M)
<1>1. Indices = {} /\ Len(investments) = 0 /\ Depositing = {}
  BY DEF Init, Indices, Depositing, Idle
<1>2. Room
  BY <1>1, FS_EmptySet, InvestBounds DEF Room
<1>3. AumBounded(M)
  BY <1>1 DEF Init, AumBounded, Idle
<1> QED
  BY <1>1, <1>2, <1>3, TypeInit DEF SparedInv

\* However many requests overlap and however stale the AUM they compute with,
\* an investor who is charged a profit share on redemption gets at least the
\* deposit back, as long as nothing overflows (FeeSparesPrincipal; Redeem,
\* invest.go:189-214).
THEOREM FeesSparePrincipals ==
    ASSUME IsFiniteSet(Requests), NEW M \in Nat, Fits(M)
    PROVE  Spec => []FeeSparesPrincipal
<1>1. Init => SparedInv(M)
  BY SparedInit
<1>2. SparedInv(M) /\ [Next]_vars => SparedInv(M)'
  <2> SUFFICES ASSUME SparedInv(M), UNCHANGED vars
               PROVE  SparedInv(M)'
    BY SparedNext
  <2>1. TypeOK'
    BY TypeNext DEF SparedInv
  <2>2. Indices' = Indices /\ Depositing' = Depositing
    BY DEF vars, Indices, Depositing
  <2> QED
    BY <2>1, <2>2 DEF vars, SparedInv, Room, AumBounded
<1>3. SparedInv(M) => FeeSparesPrincipal
  BY DEF SparedInv, SparedRow, FeeSparesPrincipal
<1> QED
  BY <1>1, <1>2, <1>3, PTL DEF Spec
=============================================================================
