---------------------------- MODULE InvestProofs ----------------------------
(***************************************************************************)
(* Requests that do not overlap keep the books: the agent's AUM is what    *)
(* its ledger adds up to, no more is paid out than was paid in, and the    *)
(* service implements Fund.                                                *)
(***************************************************************************)
EXTENDS Invest, FiniteSetTheorems, TLAPS

\* One request at a time.
Serial == \E r \in Requests : Requests = {r}

\* M bounds the amounts, and no sum or product leaves the int64 range.
Fits(M) == Amounts \subseteq 1..M /\ 100 * (MaxInvestments * M) <= MaxInt64

-----------------------------------------------------------------------------
(* Arithmetic.                                                             *)

\* A quotient rounded down is at most any bound on the exact quotient.
LEMMA DivBound ==
    ASSUME NEW x \in Nat, NEW t \in Nat \ {0}, NEW k \in Nat, x <= k * t
    PROVE  x \div t \in Nat /\ x \div t <= k
<1> DEFINE q == x \div t
<1>1. q \in Int /\ t * q <= x /\ x < t * (q + 1)
  BY SMT
<1>2. q >= 0
  <2>1. SUFFICES ASSUME q <= -1 PROVE FALSE
    BY <1>1
  <2>2. t * (q + 1) <= 0
    BY <1>1, <2>1
  <2> QED BY <1>1, <2>2
<1>3. q <= k
  <2>1. SUFFICES ASSUME q >= k + 1 PROVE FALSE
    BY <1>1
  <2>2. t * q >= t * (k + 1)
    BY <1>1, <2>1
  <2>3. t * (k + 1) = k * t + t
    OBVIOUS
  <2> QED BY <1>1, <2>2, <2>3
<1> QED BY <1>1, <1>2, <1>3

\* Monotonicity of multiplication, which the solver wants spelled out.
LEMMA TimesMono ==
    ASSUME NEW a \in Nat, NEW b \in Nat, NEW c \in Nat, a <= b
    PROVE  a * c <= b * c
OBVIOUS

\* In range, int64 arithmetic is arithmetic.
LEMMA Wrap64Id ==
    ASSUME NEW n \in Int64
    PROVE  Wrap64(n) = n
<1> DEFINE m == 2 * (MaxInt64 + 1)
           x == n + MaxInt64 + 1
<1>1. m \in Nat \ {0} /\ x \in 0..(m - 1)
  BY MaxInt64Assumption DEF Int64
<1>2. x % m = x
  BY <1>1, SMT
<1> QED BY <1>1, <1>2, MaxInt64Assumption DEF Wrap64, Int64

\* A share is a number between 0 and 1.
LEMMA ShareInRange ==
    ASSUME NEW amount \in Nat \ {0}, NEW total \in Nat, amount <= total
    PROVE  ShareRatio(amount, total) \in 0..Scale
<1>1. amount * Scale \in Nat /\ amount * Scale <= total * Scale
  BY TimesMono, ScaleAssumption
<1>2. total * Scale = Scale * total
  BY ScaleAssumption
<1>3. (amount * Scale) \div total \in Nat /\ (amount * Scale) \div total <= Scale
  BY <1>1, <1>2, DivBound, ScaleAssumption
<1> QED BY <1>3 DEF ShareRatio

\* The value of a share of the AUM is at most the AUM.
LEMMA ValueInRange ==
    ASSUME NEW share \in 0..Scale, NEW total \in 0..MaxInt64
    PROVE  CurrentValue(share, total) \in 0..total
<1>1. share * total \in Nat /\ share * total <= total * Scale
  BY TimesMono, ScaleAssumption, MaxInt64Assumption
<1>2. (share * total) \div Scale \in 0..total
  BY <1>1, DivBound, ScaleAssumption, MaxInt64Assumption
<1>3. (share * total) \div Scale \in Int64
  BY <1>2, MaxInt64Assumption DEF Int64
<1> QED BY <1>2, <1>3, Wrap64Id DEF CurrentValue

\* A profit share is part of the profit.
LEMMA FeeInRange ==
    ASSUME NEW value \in Nat, NEW amount \in Nat,
           100 * value <= MaxInt64, amount <= MaxInt64
    PROVE  /\ ProfitShare(value, amount) \in 0..value
           /\ ProfitShare(value, amount) > 0 => value - ProfitShare(value, amount) >= amount
<1> DEFINE profit == value - amount
<1>1. profit \in Int64 /\ Wrap64(profit) = profit
  BY Wrap64Id, MaxInt64Assumption DEF Int64
<1>2. CASE profit <= 0
  BY <1>1, <1>2 DEF ProfitShare
<1>3. CASE profit > 0
  <2> DEFINE product == profit * ProfitSharePct
  <2>1. product \in Nat /\ product <= 100 * profit
    BY <1>3, TimesMono, PctAssumption
  <2>2. Wrap64(product) = product
    BY <1>3, <2>1, Wrap64Id, MaxInt64Assumption DEF Int64
  <2>3. product \div 100 \in 0..profit
    BY <2>1, <1>3
  <2>4. ProfitShare(value, amount) = product \div 100
    BY <1>1, <1>3, <2>1, <2>2 DEF ProfitShare
  <2> QED BY <2>3, <2>4, <1>3
<1> QED BY <1>2, <1>3

-----------------------------------------------------------------------------
(* The inductive invariant of serial requests.                             *)

\* A row of the table whose share is between 0 and 1.
SRow == [owner : Users, amount : Amounts, status : {"active", "redeemed"},
         share : 0..Scale, payouts : Int, paid : Int, fee : Int]

\* What a request has read is still true: nobody else has written since.
Fresh(d) ==
    \/ d = Idle
    \/ /\ d \in [op : {"deposit"}, user : Users, amount : Amounts, aum : {aum}, count : Int]
       /\ Len(investments) < MaxInvestments
    \/ d \in [op : {"checked"}, inv : Active]
    \/ d \in [op : {"redeem"}, inv : Active, aum : {aum}, count : Int]
    \/ d \in [op : {"listed"}, todo : SUBSET Indices]
    \/ d \in [op : {"sweep"}, todo : SUBSET Indices, aum : {aum}]

\* The AUM's half of BooksBalance.
AumBooked == aum = Booked + swept

\* At most M a deposit has come in, and the AUM is in the books.
Balanced(M) ==
    /\ aum \in 0..(Len(investments) * M)
    /\ AumBooked
    /\ ledger.profit_share + swept <= 0

Shape == /\ investments \in Seq(SRow)
         /\ Len(investments) <= MaxInvestments
         /\ investorCount \in Int /\ swept \in Int
         /\ ledger \in [deposit : Int, withdrawal : Int, profit_share : Int]
         /\ DOMAIN req = Requests

SerialInv(M) == Shape /\ Balanced(M) /\ \A r \in Requests : Fresh(req[r])

\* The AUM is small enough for the arithmetic of a redemption.
LEMMA AumFits ==
    ASSUME NEW M \in Nat, Fits(M), SerialInv(M)
    PROVE  /\ Len(investments) * M <= MaxInvestments * M
           /\ 100 * aum <= MaxInt64
           /\ aum \in 0..MaxInt64
           /\ \A x \in Amounts : x \in Nat \ {0} /\ x <= M
<1>1. Len(investments) \in Nat /\ Len(investments) <= MaxInvestments
  BY DEF SerialInv, Shape
<1>2. Len(investments) * M <= MaxInvestments * M
  BY <1>1, TimesMono, InvestBounds
<1>3. aum \in Nat /\ aum <= MaxInvestments * M
  BY <1>1, <1>2, InvestBounds DEF SerialInv, Balanced
<1>4. 100 * (MaxInvestments * M) <= MaxInt64
  BY DEF Fits
<1>5. MaxInvestments * M \in Nat
  BY InvestBounds
<1> QED BY <1>2, <1>3, <1>4, <1>5, MaxInt64Assumption DEF Fits

\* The invariant holds initially.
LEMMA SerialInit ==
    ASSUME NEW M \in Nat, Init
    PROVE  SerialInv(M)
BY InvestBounds DEF Init, SerialInv, Shape, Balanced, AumBooked, Booked, Fresh, Idle

\* Nothing that Fresh speaks of is written by a step that only moves the
\* request, so only the request's new state matters.
LEMMA OneRequest ==
    ASSUME NEW M \in Nat, SerialInv(M), NEW r \in Requests, Requests = {r},
           NEW s, Become(r, s)
    PROVE  DOMAIN req' = Requests /\ req'[r] = s /\ \A q \in Requests : q = r
BY DEF Become, SerialInv, Shape

\* The update of a redeemed row leaves it a row.
LEMMA SettledRow ==
    ASSUME NEW row \in SRow, NEW a \in Int, NEW b \in Int
    PROVE  Settled(row, a, b) \in SRow
<1> DEFINE r1 == [row EXCEPT !.status = "redeemed"]
           r2 == [r1 EXCEPT !.payouts = @ + 1]
           r3 == [r2 EXCEPT !.paid = @ + a]
           r4 == [r3 EXCEPT !.fee = @ + b]
<1>1. r1 \in SRow
  BY DEF SRow
<1> HIDE DEF r1
<1>2. r2 \in SRow
  BY <1>1 DEF SRow
<1> HIDE DEF r2
<1>3. r3 \in SRow
  BY <1>2 DEF SRow
<1> HIDE DEF r3
<1>4. r4 \in SRow
  BY <1>3 DEF SRow
<1>5. Settled(row, a, b) = r4
  BY DEF Settled, r4, r3, r2, r1
<1> QED BY <1>4, <1>5

\* A deposit that is committed.
LEMMA DepositKeeps ==
    ASSUME NEW M \in Nat, Fits(M), SerialInv(M), NEW r \in Requests, Requests = {r},
           CommitDeposit(r)
    PROVE  SerialInv(M)' /\ aum' = aum + req[r].amount
<1> DEFINE d == req[r]
           n == Len(investments)
<1>1. d \in [op : {"deposit"}, user : Users, amount : Amounts, aum : {aum}, count : Int]
      /\ n < MaxInvestments
  BY DEF SerialInv, Fresh, CommitDeposit, Idle
<1>2. d.amount \in Nat \ {0} /\ d.amount <= M /\ d.aum = aum /\ aum \in Nat /\ aum <= n * M
  BY <1>1, AumFits DEF SerialInv, Balanced
<1>3. n \in Nat
  BY DEF SerialInv, Shape
<1>4. (n + 1) * M = n * M + M /\ (n + 1) * M <= MaxInvestments * M
  BY <1>1, <1>3, TimesMono, InvestBounds
<1>5. aum + d.amount <= (n + 1) * M /\ aum + d.amount \in Int64
  <2>1. aum + d.amount <= n * M + M
    BY <1>2, <1>3
  <2>2. MaxInvestments * M \in Nat /\ 100 * (MaxInvestments * M) <= MaxInt64
    BY InvestBounds DEF Fits
  <2> QED BY <2>1, <2>2, <1>2, <1>3, <1>4, MaxInt64Assumption DEF Int64
<1>6. aum' = aum + d.amount
  BY <1>2, <1>5, Wrap64Id DEF CommitDeposit
<1>7. ShareRatio(d.amount, Wrap64(d.aum + d.amount)) \in 0..Scale
  <2>1. Wrap64(d.aum + d.amount) = aum + d.amount
    BY <1>2, <1>5, Wrap64Id
  <2>2. aum + d.amount \in Nat /\ d.amount <= aum + d.amount
    BY <1>2
  <2>3. ShareRatio(d.amount, aum + d.amount) \in 0..Scale
    BY <1>2, <2>2, ShareInRange
  <2> QED BY <2>1, <2>3
<1>8. investments' \in Seq(SRow) /\ Len(investments') = n + 1
  BY <1>1, <1>7 DEF CommitDeposit, SerialInv, Shape, SRow
<1>8a. /\ ledger' \in [deposit : Int, withdrawal : Int, profit_share : Int]
       /\ ledger'.deposit = ledger.deposit + d.amount
       /\ ledger'.withdrawal = ledger.withdrawal
       /\ ledger'.profit_share = ledger.profit_share
  <2>1. ledger' = [ledger EXCEPT !.deposit = @ + d.amount]
    BY DEF CommitDeposit
  <2>2. ledger \in [deposit : Int, withdrawal : Int, profit_share : Int]
    BY DEF SerialInv, Shape
  <2> QED BY <1>2, <2>1, <2>2
<1>9. Shape'
  <2>1. investorCount' \in Int /\ DOMAIN req' = Requests /\ swept' = swept
    BY <1>1 DEF CommitDeposit, SerialInv, Shape, Become
  <2> QED BY <1>1, <1>3, <1>8, <1>8a, <2>1, InvestBounds DEF SerialInv, Shape
<1>10. Balanced(M)'
  <2>1. aum' \in 0..(Len(investments') * M)
    BY <1>2, <1>3, <1>4, <1>5, <1>6, <1>8
  <2>2. AumBooked'
    <3>1. swept' = swept
      BY DEF CommitDeposit
    <3>2. AumBooked
      BY DEF SerialInv, Balanced
    <3>3. d.amount \in Int /\ aum \in Int
      BY <1>2
    <3>4. /\ ledger.deposit \in Int /\ ledger.withdrawal \in Int
          /\ ledger.profit_share \in Int /\ swept \in Int
      BY DEF SerialInv, Shape
    <3> HIDE DEF d
    <3> QED BY <3>1, <3>2, <3>3, <3>4, <1>6, <1>8a DEF AumBooked, Booked
  <2> QED BY <2>1, <2>2, <1>8a DEF CommitDeposit, SerialInv, Balanced
<1>11. \A q \in Requests : Fresh(req[q])'
  BY DEF CommitDeposit, SerialInv, Shape, Become, Fresh
<1> QED BY <1>6, <1>9, <1>10, <1>11 DEF SerialInv

\* A redemption that is committed.
LEMMA RedeemKeeps ==
    ASSUME NEW M \in Nat, Fits(M), SerialInv(M), NEW r \in Requests, Requests = {r},
           CommitRedeem(r)
    PROVE  SerialInv(M)' /\ aum' \in 0..aum
<1> DEFINE d == req[r]
           row == investments[d.inv]
           value == CurrentValue(row.share, d.aum)
           fee == ProfitShare(value, row.amount)
           returned == Wrap64(value - fee)
           charged == IF fee > 0 THEN fee ELSE 0
<1>1. d \in [op : {"redeem"}, inv : Active, aum : {aum}, count : Int]
  BY DEF SerialInv, Fresh, CommitRedeem, Idle
<1>2. d.inv \in DOMAIN investments /\ row \in SRow /\ d.aum = aum
  BY <1>1 DEF SerialInv, Shape, Active
<1>3. /\ 100 * aum <= MaxInt64 /\ aum \in 0..MaxInt64
      /\ row.amount \in Nat \ {0} /\ row.amount <= MaxInt64
  <2>1. row.amount \in 1..MaxInt64
    BY <1>2, AmountsAssumption DEF SRow
  <2>2. 100 * aum <= MaxInt64 /\ aum \in 0..MaxInt64
    BY AumFits
  <2> QED BY <2>1, <2>2, MaxInt64Assumption
<1>4. value \in 0..aum
  BY <1>2, <1>3, ValueInRange DEF SRow
<1>5. fee \in 0..value
  <2>1. value \in Nat /\ 100 * value <= MaxInt64
    BY <1>3, <1>4, MaxInt64Assumption
  <2> QED BY <1>3, <2>1, FeeInRange
<1>6. returned = value - fee /\ charged = fee
  BY <1>3, <1>4, <1>5, Wrap64Id, MaxInt64Assumption DEF Int64
<1>7. aum' = aum - value
  <2>1. Wrap64(aum - returned) = aum - returned
    BY <1>3, <1>4, <1>5, <1>6, Wrap64Id, MaxInt64Assumption DEF Int64
  <2>2. Wrap64((aum - returned) - charged) = aum - value
    BY <1>3, <1>4, <1>5, <1>6, Wrap64Id, MaxInt64Assumption DEF Int64
  <2>3. aum' = AtLeast0(Wrap64(Wrap64(aum - returned) - charged))
    BY <1>2 DEF CommitRedeem, NewAUM
  <2>4. aum' = AtLeast0(aum - value)
    BY <2>1, <2>2, <2>3
  <2> QED BY <2>4, <1>3, <1>4 DEF AtLeast0
<1>8. /\ ledger'.deposit = ledger.deposit
      /\ ledger'.withdrawal = ledger.withdrawal - (value - fee)
      /\ ledger'.profit_share = ledger.profit_share - fee
      /\ ledger' \in [deposit : Int, withdrawal : Int, profit_share : Int]
  <2>1. ledger' = [ledger EXCEPT !.withdrawal = @ - returned, !.profit_share = @ - charged]
    BY DEF CommitRedeem
  <2>2. ledger \in [deposit : Int, withdrawal : Int, profit_share : Int]
    BY DEF SerialInv, Shape
  <2>3. returned \in Int /\ charged \in Int /\ returned = value - fee /\ charged = fee
    BY <1>3, <1>4, <1>5, <1>6
  <2>4. value \in Int /\ fee \in Int
    BY <1>3, <1>4, <1>5
  <2> HIDE DEF value, fee, returned, charged
  <2>5. ledger' = [deposit |-> ledger.deposit, withdrawal |-> ledger.withdrawal - (value - fee),
                   profit_share |-> ledger.profit_share - fee]
    BY <2>1, <2>2, <2>3
  <2> QED BY <2>2, <2>4, <2>5
<1>9. investments' \in Seq(SRow) /\ Len(investments') = Len(investments)
  <2> DEFINE new == Settled(row, returned, charged)
  <2>1. investments' = [investments EXCEPT ![d.inv] = new]
    BY DEF CommitRedeem
  <2>2. returned \in Int /\ charged \in Int
    BY <1>3, <1>4, <1>5, <1>6
  <2>3. new \in SRow
    BY <1>2, <2>2, SettledRow
  <2> QED BY <1>2, <2>1, <2>3 DEF SerialInv, Shape
<1>10. Shape'
  <2>1. investorCount' \in Int
    BY <1>1 DEF CommitRedeem, AtLeast0
  <2> QED BY <1>8, <1>9, <2>1 DEF CommitRedeem, SerialInv, Shape, Become
<1>11. Balanced(M)'
  <2>1. swept' = swept
    BY DEF CommitRedeem
  <2>2. Len(investments) * M \in Int
    BY DEF SerialInv, Shape
  <2>3. value \in Int /\ fee \in Nat /\ aum \in Int /\ aum' <= aum /\ aum' >= 0
    BY <1>3, <1>4, <1>5, <1>7
  <2>4. /\ ledger.deposit \in Int /\ ledger.withdrawal \in Int
        /\ ledger.profit_share \in Int /\ swept \in Int
    BY DEF SerialInv, Shape
  <2>5. AumBooked /\ ledger.profit_share + swept <= 0
    BY DEF SerialInv, Balanced
  <2>9. aum <= Len(investments) * M
    BY DEF SerialInv, Balanced
  <2> HIDE DEF value, fee, returned, charged
  <2>6. AumBooked'
    BY <1>7, <1>8, <2>1, <2>3, <2>4, <2>5 DEF AumBooked, Booked
  <2>7. ledger'.profit_share + swept' <= 0
    BY <1>8, <2>1, <2>3, <2>4, <2>5
  <2>8. aum' \in 0..(Len(investments') * M)
    BY <1>7, <1>9, <2>2, <2>3, <2>9
  <2> QED BY <2>6, <2>7, <2>8 DEF Balanced
<1>12. \A q \in Requests : Fresh(req[q])'
  BY DEF CommitRedeem, SerialInv, Shape, Become, Fresh
<1> QED BY <1>3, <1>4, <1>7, <1>10, <1>11, <1>12 DEF SerialInv

\* A round of the sweep.
LEMMA ChargeKeeps ==
    ASSUME NEW M \in Nat, Fits(M), SerialInv(M), NEW r \in Requests, Requests = {r},
           NEW i \in DOMAIN investments, ChargeNext(r, i)
    PROVE  SerialInv(M)'
<1> DEFINE d == req[r]
           row == investments[i]
           fee == AtLeast0(ProfitShare(CurrentValue(row.share, d.aum), row.amount))
<1>1. d \in [op : {"sweep"}, todo : SUBSET Indices, aum : {aum}]
  BY DEF SerialInv, Fresh, ChargeNext, Idle
<1>2. row \in SRow
  BY DEF SerialInv, Shape
<1>3. /\ 100 * aum <= MaxInt64 /\ aum \in 0..MaxInt64
      /\ row.amount \in Nat \ {0} /\ row.amount <= MaxInt64
  <2>1. row.amount \in 1..MaxInt64
    BY <1>2, AmountsAssumption DEF SRow
  <2>2. 100 * aum <= MaxInt64 /\ aum \in 0..MaxInt64
    BY AumFits
  <2> QED BY <2>1, <2>2, MaxInt64Assumption
<1>4. CurrentValue(row.share, d.aum) \in 0..aum
  BY <1>1, <1>2, <1>3, ValueInRange DEF SRow
<1>5. fee \in Nat
  <2> DEFINE value == CurrentValue(row.share, d.aum)
  <2>1. value \in Nat /\ 100 * value <= MaxInt64
    BY <1>3, <1>4, MaxInt64Assumption
  <2>2. ProfitShare(value, row.amount) \in 0..value
    BY <1>3, <2>1, FeeInRange
  <2> QED BY <2>1, <2>2 DEF AtLeast0
<1>6. Shape' /\ Balanced(M)'
  <2>1. /\ ledger' = [ledger EXCEPT !.profit_share = @ - fee]
        /\ swept' = swept + fee
        /\ UNCHANGED <<investments, aum, investorCount>>
        /\ DOMAIN req' = Requests
    BY DEF ChargeNext, SerialInv, Shape, Become
  <2>2. Shape /\ Balanced(M)
    BY DEF SerialInv
  <2> HIDE DEF fee
  <2>3. /\ ledger'.deposit = ledger.deposit /\ ledger'.withdrawal = ledger.withdrawal
        /\ ledger'.profit_share = ledger.profit_share - fee
        /\ ledger' \in [deposit : Int, withdrawal : Int, profit_share : Int]
    BY <1>5, <2>1, <2>2 DEF Shape
  <2>4. Shape'
    BY <1>5, <2>1, <2>2, <2>3 DEF Shape
  <2>5. Balanced(M)'
    <3>1. /\ ledger.deposit \in Int /\ ledger.withdrawal \in Int
          /\ ledger.profit_share \in Int /\ swept \in Int
      BY <2>2 DEF Shape
    <3>2. AumBooked /\ ledger.profit_share + swept <= 0 /\ aum \in Int
      BY <1>3, <2>2 DEF Balanced
    <3>3. AumBooked'
      BY <3>1, <3>2, <1>5, <2>1, <2>3 DEF AumBooked, Booked
    <3>4. ledger'.profit_share + swept' <= 0
      BY <3>1, <3>2, <1>5, <2>1, <2>3
    <3> QED BY <3>3, <3>4, <2>1, <2>2 DEF Balanced
  <2> QED BY <2>4, <2>5
<1>7. Fresh(req[r])'
  BY <1>1 DEF ChargeNext, SerialInv, Shape, Become, Fresh, Indices
<1> QED BY <1>6, <1>7 DEF SerialInv

\* Every other step of the request only moves it.
LEMMA ReadsKeep ==
    ASSUME NEW M \in Nat, SerialInv(M), NEW r \in Requests, Requests = {r},
           NEW s, Become(r, s), Fresh(s), UNCHANGED tables
    PROVE  SerialInv(M)'
<1>1. Shape' /\ Balanced(M)'
  BY DEF tables, SerialInv, Shape, Balanced, AumBooked, Booked, Become
<1>2. req'[r] = s
  BY OneRequest
<1>3. Fresh(req[r])'
  BY <1>2 DEF tables, Fresh, Active, Indices
<1> QED BY <1>1, <1>3 DEF SerialInv

\* Every step keeps the invariant.
LEMMA SerialNext ==
    ASSUME NEW M \in Nat, Fits(M), NEW r \in Requests, Requests = {r},
           SerialInv(M), [Next]_vars
    PROVE  SerialInv(M)'
<1>1. ASSUME NEW u \in Users, NEW amount \in Amounts, BeginDeposit(r, u, amount)
      PROVE  SerialInv(M)'
  <2> DEFINE s == [op |-> "deposit", user |-> u, amount |-> amount,
                   aum |-> aum, count |-> investorCount]
  <2>1. Len(investments) < MaxInvestments
    <3>1. {q \in Requests : req[q].op = "deposit"} = {}
      BY <1>1 DEF BeginDeposit, Idle
    <3>2. Cardinality({q \in Requests : req[q].op = "deposit"}) = 0
      BY <3>1, FS_EmptySet
    <3> QED BY <1>1, <3>2 DEF BeginDeposit, SerialInv, Shape
  <2>2. Fresh(s)
    BY <2>1 DEF Fresh, SerialInv, Shape
  <2> QED BY <1>1, <2>2, ReadsKeep DEF BeginDeposit
<1>2. ASSUME NEW u \in Users, NEW i \in DOMAIN investments, BeginRedeem(r, u, i)
      PROVE  SerialInv(M)'
  <2>1. Fresh([op |-> "checked", inv |-> i])
    BY <1>2 DEF BeginRedeem, Fresh, Active
  <2> QED BY <1>2, <2>1, ReadsKeep DEF BeginRedeem
<1>3. CASE ReadAgent(r)
  <2> DEFINE s == [op |-> "redeem", inv |-> req[r].inv, aum |-> aum, count |-> investorCount]
  <2>1. Fresh(s)
    BY <1>3 DEF ReadAgent, Fresh, SerialInv, Shape, Idle
  <2> QED BY <1>3, <2>1, ReadsKeep DEF ReadAgent
<1>4. CASE BeginSweep(r)
  <2>1. Fresh([op |-> "listed", todo |-> Active])
    BY DEF Fresh, Active, Indices
  <2> QED BY <1>4, <2>1, ReadsKeep DEF BeginSweep
<1>5. CASE ReadAgentForSweep(r)
  <2> DEFINE s == IF req[r].todo = {} THEN Idle
                  ELSE [op |-> "sweep", todo |-> req[r].todo, aum |-> aum]
  <2>1. req[r] \in [op : {"listed"}, todo : SUBSET Indices]
    BY <1>5 DEF ReadAgentForSweep, Fresh, SerialInv, Idle
  <2>2. Fresh(s)
    BY <2>1 DEF Fresh
  <2> QED BY <1>5, <2>2, ReadsKeep DEF ReadAgentForSweep
<1>6. CASE Abort(r)
  BY <1>6, ReadsKeep DEF Abort, Fresh
<1>7. CASE UNCHANGED vars
  BY <1>7 DEF vars, SerialInv, Shape, Balanced, AumBooked, Booked, Fresh, Active, Indices
<1> QED
  BY <1>1, <1>2, <1>3, <1>4, <1>5, <1>6, <1>7, DepositKeeps, RedeemKeeps, ChargeKeeps DEF Next

\* The invariant of every serial behaviour.
LEMMA SerialAlways ==
    ASSUME NEW M \in Nat, Fits(M), NEW r \in Requests, Requests = {r}
    PROVE  Spec => []SerialInv(M)
<1>1. Init => SerialInv(M)
  BY SerialInit
<1>2. SerialInv(M) /\ [Next]_vars => SerialInv(M)'
  BY SerialNext
<1> QED BY <1>1, <1>2, PTL DEF Spec

-----------------------------------------------------------------------------
(* The theorems.                                                           *)

\* Requests that do not overlap never pay out more than was paid in.
THEOREM SerialSolvent ==
    ASSUME Serial, NEW M \in Nat, Fits(M)
    PROVE  Spec => []Solvent
<1>1. PICK r \in Requests : Requests = {r}
  BY DEF Serial
<1>2. SerialInv(M) => Solvent
  <2> SUFFICES ASSUME SerialInv(M) PROVE Solvent
    OBVIOUS
  <2>1. /\ ledger.deposit \in Int /\ ledger.withdrawal \in Int
        /\ ledger.profit_share \in Int /\ swept \in Int
    BY DEF SerialInv, Shape
  <2>2. aum \in Int /\ aum >= 0
    BY DEF SerialInv, Shape, Balanced
  <2>3. AumBooked /\ ledger.profit_share + swept <= 0
    BY DEF SerialInv, Balanced
  <2> QED BY <2>1, <2>2, <2>3 DEF Solvent, AumBooked, Booked
<1>3. Spec => []SerialInv(M)
  BY <1>1, SerialAlways
<1> QED BY <1>2, <1>3, PTL

\* A committed deposit is a Put of the fund.
LEMMA DepositIsPut ==
    ASSUME NEW M \in Nat, Fits(M), SerialInv(M), NEW r \in Requests, Requests = {r},
           CommitDeposit(r)
    PROVE  F!Put
<1> DEFINE d == req[r]
           n == Len(investments)
<1>1. d \in [op : {"deposit"}, user : Users, amount : Amounts, aum : {aum}, count : Int]
  BY DEF SerialInv, Fresh, CommitDeposit, Idle
<1>2. aum' = aum + d.amount
  BY DepositKeeps
<1>3. PICK row : row.status = "active" /\ investments' = Append(investments, row)
  BY DEF CommitDeposit
<1>4. investments \in Seq(SRow) /\ n \in Nat
  BY DEF SerialInv, Shape
<1>5. Len(investments') = n + 1
  BY <1>3, <1>4
<1>6. /\ DOMAIN investments' = 1..(n + 1) /\ DOMAIN investments = 1..n
      /\ \A i \in 1..n : investments'[i] = investments[i]
      /\ investments'[n + 1] = row
  BY <1>3, <1>4
<1>7. Active' = Active \cup {n + 1}
  BY <1>3, <1>4, <1>6 DEF Active
<1> QED BY <1>1, <1>2, <1>5, <1>7 DEF F!Put

\* A committed redemption is a Take of the fund.
LEMMA RedeemIsTake ==
    ASSUME NEW M \in Nat, Fits(M), SerialInv(M), NEW r \in Requests, Requests = {r},
           CommitRedeem(r)
    PROVE  F!Take
<1> DEFINE i == req[r].inv
<1>1. i \in Active
  BY DEF SerialInv, Fresh, CommitRedeem, Idle
<1>2. aum' \in 0..aum
  BY RedeemKeeps
<1>3. PICK row : row.status = "redeemed" /\ investments' = [investments EXCEPT ![i] = row]
  <2>1. \E ret, fee : investments' = [investments EXCEPT ![i] = Settled(investments[i], ret, fee)]
    BY DEF CommitRedeem
  <2>2. investments[i] \in SRow
    BY <1>1 DEF SerialInv, Shape, Active
  <2>3. \A ret, fee : Settled(investments[i], ret, fee).status = "redeemed"
    BY <2>2 DEF SRow, Settled
  <2> QED BY <2>1, <2>3
<1>4. investments \in Seq(SRow)
  BY DEF SerialInv, Shape
<1>5. /\ Len(investments') = Len(investments) /\ DOMAIN investments' = DOMAIN investments
      /\ investments'[i] = row
      /\ \A j \in DOMAIN investments : j # i => investments'[j] = investments[j]
  BY <1>1, <1>3, <1>4 DEF Active
<1>6. Active' = Active \ {i}
  BY <1>1, <1>3, <1>5 DEF Active
<1> QED BY <1>1, <1>2, <1>5, <1>6 DEF F!Take

\* The number of investors that a request has read is still true, and counts
\* the active investments.
Counted == /\ investorCount = Cardinality(Active)
           /\ \A r \in Requests :
                  req[r].op \in {"deposit", "redeem"} => req[r].count = investorCount

\* There are finitely many investments.
LEMMA ActiveFinite ==
    ASSUME NEW M \in Nat, SerialInv(M)
    PROVE  IsFiniteSet(Active) /\ Active \subseteq 1..Len(investments)
<1>1. Active \subseteq 1..Len(investments) /\ Len(investments) \in Int
  BY DEF Active, SerialInv, Shape
<1>2. IsFiniteSet(1..Len(investments))
  BY <1>1, FS_Interval
<1> QED BY <1>1, <1>2, FS_Subset

\* A committed deposit is one active investment more.
LEMMA DepositCounts ==
    ASSUME NEW M \in Nat, Fits(M), SerialInv(M), NEW r \in Requests, Requests = {r},
           Counted, CommitDeposit(r)
    PROVE  Counted'
<1>1. Active' = Active \cup {Len(investments) + 1}
  <2>1. Len(investments') = Len(investments) + 1
    BY DepositIsPut DEF F!Put
  <2> QED BY <2>1, DepositIsPut DEF F!Put
<1>2. Len(investments) + 1 \notin Active /\ IsFiniteSet(Active)
  BY ActiveFinite DEF SerialInv, Shape
<1>3. Cardinality(Active') = Cardinality(Active) + 1
  BY <1>1, <1>2, FS_AddElement
<1>4. investorCount' = investorCount + 1
  BY DEF CommitDeposit, Counted
<1>5. \A q \in Requests : req'[q] = Idle
  BY OneRequest DEF CommitDeposit
<1> QED BY <1>3, <1>4, <1>5 DEF Counted, Idle

\* A committed redemption is one active investment less.
LEMMA RedeemCounts ==
    ASSUME NEW M \in Nat, Fits(M), SerialInv(M), NEW r \in Requests, Requests = {r},
           Counted, CommitRedeem(r)
    PROVE  Counted'
<1>1. PICK h \in Active : Active' = Active \ {h}
  BY RedeemIsTake DEF F!Take
<1>2. Cardinality(Active') = Cardinality(Active) - 1
  BY <1>1, ActiveFinite, FS_RemoveElement
<1>3. Cardinality(Active') \in Nat
  BY <1>1, ActiveFinite, FS_RemoveElement, FS_CardinalityType
<1>4. investorCount' = AtLeast0(investorCount - 1)
  BY DEF CommitRedeem, Counted
<1>5. investorCount' = Cardinality(Active')
  <2>1. investorCount - 1 = Cardinality(Active') /\ Cardinality(Active') >= 0
    BY <1>2, <1>3 DEF Counted
  <2>2. AtLeast0(Cardinality(Active')) = Cardinality(Active')
    BY <1>3 DEF AtLeast0
  <2> QED BY <1>4, <2>1, <2>2
<1>6. \A q \in Requests : req'[q] = Idle
  BY OneRequest DEF CommitRedeem
<1> QED BY <1>5, <1>6 DEF Counted, Idle

\* No other step counts.
LEMMA CountNext ==
    ASSUME NEW M \in Nat, Fits(M), NEW r \in Requests, Requests = {r},
           SerialInv(M), Counted, [Next]_vars
    PROVE  Counted'
<1>1. ASSUME NEW s, Become(r, s), UNCHANGED <<investments, investorCount>>,
             s.op \in {"deposit", "redeem"} => s.count = investorCount
      PROVE  Counted'
  <2>1. req'[r] = s
    BY <1>1, OneRequest
  <2> QED BY <1>1, <2>1 DEF Counted, Active
<1>2. ASSUME NEW u \in Users, NEW amount \in Amounts, BeginDeposit(r, u, amount)
      PROVE  Counted'
  BY <1>1, <1>2 DEF BeginDeposit, tables
<1>3. CASE ReadAgent(r)
  BY <1>1, <1>3 DEF ReadAgent, tables
<1>4. ASSUME NEW u \in Users, NEW i \in DOMAIN investments, BeginRedeem(r, u, i)
      PROVE  Counted'
  BY <1>1, <1>4 DEF BeginRedeem, tables
<1>5. CASE BeginSweep(r)
  BY <1>1, <1>5 DEF BeginSweep, tables
<1>6. CASE ReadAgentForSweep(r)
  BY <1>1, <1>6 DEF ReadAgentForSweep, tables, Idle
<1>7. ASSUME NEW i \in DOMAIN investments, ChargeNext(r, i)
      PROVE  Counted'
  <2>1. req[r] \in [op : {"sweep"}, todo : SUBSET Indices, aum : {aum}]
    BY <1>7 DEF SerialInv, Fresh, ChargeNext, Idle
  <2> QED BY <1>1, <1>7, <2>1 DEF ChargeNext, Idle
<1>8. CASE Abort(r)
  BY <1>1, <1>8 DEF Abort, tables, Idle
<1>9. CASE UNCHANGED vars
  BY <1>9 DEF vars, Counted, Active
<1> QED
  BY <1>2, <1>3, <1>4, <1>5, <1>6, <1>7, <1>8, <1>9, DepositCounts, RedeemCounts DEF Next

\* Requests that do not overlap leave the AUM equal to what the ledger adds up
\* to (Deposit and Redeem, invest.go:71-268), the sweeps' charges aside, and
\* investor_count equal to the number of active investments.
THEOREM SerialBooks ==
    ASSUME Serial, NEW M \in Nat, Fits(M)
    PROVE  Spec => []BooksBalance
<1>1. PICK r \in Requests : Requests = {r}
  BY DEF Serial
<1>2. SerialInv(M) /\ Counted => BooksBalance
  BY DEF SerialInv, Balanced, AumBooked, Counted, BooksBalance
<1>3. Init => Counted
  <2>1. Init => Active = {}
    BY DEF Init, Active
  <2>2. Init => investorCount = 0 /\ \A q \in Requests : req[q] = Idle
    BY DEF Init
  <2>3. Idle.op \notin {"deposit", "redeem"}
    BY DEF Idle
  <2> QED BY <2>1, <2>2, <2>3, FS_EmptySet DEF Counted
<1>4. SerialInv(M) /\ Counted /\ [Next]_vars => Counted'
  BY <1>1, CountNext
<1>5. Spec => []SerialInv(M)
  BY <1>1, SerialAlways
<1> QED BY <1>2, <1>3, <1>4, <1>5, PTL DEF Spec

\* Requests that do not overlap implement the fund: each is one deposit into
\* it or one withdrawal from it, and everything else is invisible.
THEOREM SerialFund ==
    ASSUME Serial, NEW M \in Nat, Fits(M)
    PROVE  Spec => ImplementsFund
<1>1. PICK r \in Requests : Requests = {r}
  BY DEF Serial
<1>2. Init => F!Init
  BY DEF Init, F!Init, Active
<1>3. SerialInv(M) /\ [Next]_vars => [F!Next]_F!vars
  <2> SUFFICES ASSUME SerialInv(M), [Next]_vars PROVE [F!Next]_F!vars
    OBVIOUS
  <2>1. CASE CommitDeposit(r)
    BY <1>1, <2>1, DepositIsPut DEF F!Next
  <2>2. CASE CommitRedeem(r)
    BY <1>1, <2>2, RedeemIsTake DEF F!Next
  <2>3. CASE UNCHANGED <<aum, investments>>
    BY <2>3 DEF F!vars, Active
  <2>4. ~CommitDeposit(r) /\ ~CommitRedeem(r) => UNCHANGED <<aum, investments>>
    BY <1>1 DEF Next, vars, tables, BeginDeposit, BeginRedeem, ReadAgent, BeginSweep,
                ReadAgentForSweep, ChargeNext, Abort
  <2> QED BY <2>1, <2>2, <2>3, <2>4
<1>4. Spec => []SerialInv(M)
  BY <1>1, SerialAlways
<1> QED BY <1>2, <1>3, <1>4, PTL DEF Spec, ImplementsFund, F!Spec
=============================================================================
