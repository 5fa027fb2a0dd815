----------------------- MODULE LendingContractProofs -----------------------
(***************************************************************************)
(* Theorems about LendingContract for every set of accounts, every amount, *)
(* every price and every bound: type correctness (so no token balance ever *)
(* goes negative), the finality of stable loans, the single use of a       *)
(* request, the fact that price moves alone never make a loan              *)
(* liquidatable, and that the contract's balance is what its books say.    *)
(***************************************************************************)
EXTENDS LendingContract, SumLemmas

----------------------------------------------------------------------------
(* The amounts the contract moves.                                         *)

\* At valid prices a stable loan amount is a natural number.
LEMMA StableLoanAmountIsNat ==
    ASSUME StableTypeOK, ValidPrices, NEW amount \in Nat
    PROVE  getStableLoanAmount(amount) \in Nat
<1>1. btcPrice \in Nat \ {0} /\ collateralPrice \in Nat \ {0}
  BY PricesAssumption DEF StableTypeOK, ValidPrices
<1>2. amount * collateralPrice * 100 \in Nat
  BY <1>1, ProductIsNat
<1>3. btcPrice * COLLATERAL_RATIO \in Nat \ {0}
  BY <1>1, ProductIsPositive DEF COLLATERAL_RATIO
<1> QED
  BY <1>2, <1>3, Division DEF getStableLoanAmount

\* A covered transfer between two holders leaves every balance a natural number
\* and takes exactly the amount from the payer.
LEMMA TransferKeepsBalances ==
    ASSUME NEW H, NEW bal \in [H -> Nat], NEW from \in H, NEW to \in H, from # to,
           NEW amount \in Nat, bal[from] >= amount
    PROVE  /\ Transfer(bal, from, to, amount) \in [H -> Nat]
           /\ Transfer(bal, from, to, amount)[from] = bal[from] - amount
BY DEF Transfer

----------------------------------------------------------------------------
(* The stable half keeps its types.                                        *)

\* The stable half keeps its types: lendStable.
LEMMA LendStableType ==
    ASSUME StableTypeOK, NEW a \in Accounts, NEW h \in Preimages, NEW amount \in Nat,
           lendStable(a, h, amount)
    PROVE  StableTypeOK'
<1> DEFINE lent == getStableLoanAmount(amount)
<1>1. lent \in Nat
  BY StableLoanAmountIsNat DEF lendStable
<1>2. balances' \in [Accounts \cup {This} -> Nat]
  <2>1. balances \in [Accounts \cup {This} -> Nat] /\ a # This
    BY AccountsAssumption DEF StableTypeOK
  <2>2. balances[a] >= lent /\ balances' = Transfer(balances, a, This, lent)
    BY DEF lendStable, CanPay
  <2> QED
    BY <1>1, <2>1, <2>2, TransferKeepsBalances
<1>3. stableLoans' \in [Preimages -> StableLoan]
  <2> HIDE DEF lent
  <2>1. stableLoans' = [stableLoans EXCEPT ![h] =
            [collateralAmount |-> amount, stableLoanAmount |-> lent,
             borrowerPreimage |-> stableLoans[h].borrowerPreimage]]
    BY DEF lendStable, lent
  <2>2. stableLoans \in [Preimages -> StableLoan]
    BY DEF StableTypeOK
  <2> QED
    BY <1>1, <2>1, <2>2 DEF StableLoan
<1> QED
  BY <1>2, <1>3 DEF lendStable, StableTypeOK, feedVars

\* The stable half keeps its types: claimStable.
LEMMA ClaimStableType ==
    ASSUME StableTypeOK, NEW a \in Accounts, NEW p \in Preimages, claimStable(a, p)
    PROVE  StableTypeOK'
<1>1. p \in Nat /\ stableLoans[p] \in StableLoan /\ a # This
  BY PreimagesAssumption, AccountsAssumption DEF StableTypeOK
<1>2. balances' \in [Accounts \cup {This} -> Nat]
  <2> DEFINE paid == stableLoans[p].stableLoanAmount
  <2>1. paid \in Nat /\ balances \in [Accounts \cup {This} -> Nat]
    BY <1>1 DEF StableTypeOK, StableLoan
  <2>2. balances[This] >= paid /\ balances' = Transfer(balances, This, a, paid)
    BY DEF claimStable, CanPay
  <2> QED
    BY <1>1, <2>1, <2>2, TransferKeepsBalances
<1>3. stableLoans' \in [Preimages -> StableLoan]
  BY <1>1 DEF claimStable, StableTypeOK, StableLoan
<1>4. claims' \in [Preimages -> Nat]
  BY DEF claimStable, StableTypeOK
<1> QED
  BY <1>2, <1>3, <1>4 DEF claimStable, StableTypeOK, feedVars

\* A price feed update keeps the types of the stable half.
LEMMA SetRoundDataType == StableTypeOK /\ setRoundData => StableTypeOK'
BY DEF setRoundData, StableTypeOK

\* At valid prices a collateral amount is a natural number.
LEMMA CollateralAmountIsNat ==
    ASSUME StableTypeOK, ValidPrices, NEW amount \in Nat
    PROVE  getStableCollateralAmount(amount) \in Nat
<1>1. btcPrice \in Nat \ {0} /\ collateralPrice \in Nat \ {0}
  BY PricesAssumption DEF StableTypeOK, ValidPrices
<1>2. amount * btcPrice * COLLATERAL_RATIO \in Nat
  BY <1>1, ProductIsNat DEF COLLATERAL_RATIO
<1>3. collateralPrice * 100 \in Nat \ {0}
  BY <1>1, ProductIsPositive
<1> QED
  BY <1>2, <1>3, Division DEF getStableCollateralAmount

----------------------------------------------------------------------------
(* Type correctness.                                                       *)

\* Opening a request keeps the types: the collateral is covered by the sender.
LEMMA RequestBorrowType ==
    ASSUME TypeOK, NEW a \in Accounts, NEW amount \in Nat, NEW rate \in Nat,
           NEW addr \in Addresses \cup {NoAddress}, requestBorrow(a, amount, rate, addr)
    PROVE  TypeOK'
<1> DEFINE c == getStableCollateralAmount(amount)
<1>1. c \in Nat
  BY CollateralAmountIsNat DEF requestBorrow, TypeOK
<1>2. balances' \in [Accounts \cup {This} -> Nat]
  <2>1. balances \in [Accounts \cup {This} -> Nat] /\ a # This
    BY AccountsAssumption DEF TypeOK, StableTypeOK
  <2>2. balances[a] >= c /\ balances' = Transfer(balances, a, This, c)
    BY DEF requestBorrow, CanPay
  <2> QED
    BY <1>1, <2>1, <2>2, TransferKeepsBalances
<1>3. borrowRequests' \in [Accounts -> BorrowRequest]
  <2> HIDE DEF c
  <2>1. borrowRequests' = [borrowRequests EXCEPT ![a] =
            [amount |-> amount, collateral |-> c, interestRate |-> rate,
             btcAddress |-> addr, active |-> TRUE]]
    BY DEF requestBorrow, c
  <2> QED
    BY <1>1, <2>1 DEF TypeOK, BorrowRequest
<1> QED
  BY <1>2, <1>3 DEF requestBorrow, TypeOK, StableTypeOK, feedVars

\* Cancelling keeps the types: the contract covers the refund.
LEMMA CancelType ==
    ASSUME TypeOK, NEW a \in Accounts, cancelBorrowRequest(a)
    PROVE  TypeOK'
<1>1. balances' \in [Accounts \cup {This} -> Nat]
  <2> DEFINE c == borrowRequests[a].collateral
  <2>1. c \in Nat /\ balances \in [Accounts \cup {This} -> Nat] /\ a # This
    BY AccountsAssumption DEF TypeOK, StableTypeOK, BorrowRequest
  <2>2. balances[This] >= c /\ balances' = Transfer(balances, This, a, c)
    BY DEF cancelBorrowRequest, CanPay
  <2> QED
    BY <2>1, <2>2, TransferKeepsBalances
<1>2. borrowRequests' \in [Accounts -> BorrowRequest]
  BY DEF cancelBorrowRequest, TypeOK, BorrowRequest, NoRequest
<1> QED
  BY <1>1, <1>2 DEF cancelBorrowRequest, TypeOK, StableTypeOK, feedVars

\* Funding a request keeps the types.
LEMMA LendType ==
    ASSUME TypeOK, NEW a \in Accounts, NEW b \in Accounts, NEW tx, lend(a, b, tx)
    PROVE  TypeOK'
<1> DEFINE request == borrowRequests[b]
<1>1. request \in BorrowRequest /\ <<a, b>> \in Pairs
  BY DEF TypeOK, Pairs
<1>2. loans' \in [Pairs -> Loan]
  BY <1>1 DEF lend, TypeOK, Loan, BorrowRequest
<1>3. deposits' \in [Pairs -> Nat]
  BY <1>1 DEF lend, TypeOK, BorrowRequest
<1>4. borrowRequests' \in [Accounts -> BorrowRequest]
  BY DEF lend, TypeOK, BorrowRequest, NoRequest
<1> QED
  BY <1>2, <1>3, <1>4 DEF lend, TypeOK, StableTypeOK, stableVars

\* Closing a loan (repay or liquidate) switches it off and keeps the types of the
\* loans, of the deposits and of the accumulated difference.
LEMMA ClosingType ==
    ASSUME TypeOK, NEW pair \in Pairs, NEW c \in Nat,
           loans' = [loans EXCEPT ![pair].active = FALSE],
           drift' = drift + deposits[pair] - c,
           deposits' = [deposits EXCEPT ![pair] = 0]
    PROVE  loans' \in [Pairs -> Loan] /\ drift' \in Int /\ deposits' \in [Pairs -> Nat]
<1> DEFINE closed == [loans[pair] EXCEPT !.active = FALSE]
<1>1. loans \in [Pairs -> Loan] /\ loans[pair] \in Loan
  BY DEF TypeOK
<1>2. closed \in Loan
  BY <1>1, Zenon DEF Loan
<1>3. loans' = [loans EXCEPT ![pair] = closed]
  BY Zenon
<1>4. loans' \in [Pairs -> Loan]
  <2> HIDE DEF closed
  <2> QED
    BY <1>1, <1>2, <1>3
<1> QED
  BY <1>4 DEF TypeOK

\* Repaying keeps the types.
LEMMA RepayType ==
    ASSUME TypeOK, NEW a \in Accounts, NEW l \in Accounts, repay(a, l)
    PROVE  TypeOK'
<1> DEFINE c == getStableCollateralAmount(loans[<<l, a>>].borrowAmount)
<1>1. <<l, a>> \in Pairs
  BY DEF Pairs
<1>2. c \in Nat
  BY <1>1, CollateralAmountIsNat DEF TypeOK, Loan, repay
<1>3. balances' \in [Accounts \cup {This} -> Nat]
  <2>1. balances \in [Accounts \cup {This} -> Nat] /\ a # This
    BY AccountsAssumption DEF TypeOK, StableTypeOK
  <2>2. balances[This] >= c /\ balances' = Transfer(balances, This, a, c)
    BY DEF repay, CanPay
  <2> QED
    BY <1>2, <2>1, <2>2, TransferKeepsBalances
<1>4. loans' \in [Pairs -> Loan] /\ drift' \in Int /\ deposits' \in [Pairs -> Nat]
  BY <1>1, <1>2, ClosingType DEF repay
<1> QED
  BY <1>3, <1>4 DEF repay, TypeOK, StableTypeOK, feedVars

\* Liquidating keeps the types: the two transfers together move the collateral.
LEMMA LiquidateType ==
    ASSUME TypeOK, NEW a \in Accounts, NEW b \in Accounts, NEW l \in Accounts,
           liquidate(a, b, l)
    PROVE  TypeOK'
<1> DEFINE c == getStableCollateralAmount(loans[<<l, b>>].borrowAmount)
           reward == (c * LIQUIDATION_BONUS) \div 100
<1>1. <<l, b>> \in Pairs
  BY DEF Pairs
<1>2. c \in Nat
  BY <1>1, CollateralAmountIsNat DEF TypeOK, Loan, liquidate
<1>3. reward \in Nat /\ c - reward \in Nat
  <2> HIDE DEF c
  <2> QED
    BY <1>2 DEF LIQUIDATION_BONUS
<1>4. balances' \in [Accounts \cup {This} -> Nat]
  <2> DEFINE first == Transfer(balances, This, a, reward)
  <2>1. balances \in [Accounts \cup {This} -> Nat] /\ a # This /\ l # This
    BY AccountsAssumption DEF TypeOK, StableTypeOK
  <2>2. /\ balances[This] >= c
        /\ balances' = Transfer(first, This, l, c - reward)
    BY DEF liquidate, CanPay
  <2> HIDE DEF c, reward
  <2>3. first \in [Accounts \cup {This} -> Nat] /\ first[This] = balances[This] - reward
    BY <1>2, <1>3, <2>1, <2>2, TransferKeepsBalances
  <2> HIDE DEF first
  <2> QED
    BY <1>2, <1>3, <2>1, <2>2, <2>3, TransferKeepsBalances
<1>5. loans' \in [Pairs -> Loan] /\ drift' \in Int /\ deposits' \in [Pairs -> Nat]
  BY <1>1, <1>2, ClosingType DEF liquidate
<1> QED
  BY <1>4, <1>5 DEF liquidate, TypeOK, StableTypeOK, feedVars

\* The environment and the owner keep the types.
LEMMA EnvironmentType ==
    ASSUME TypeOK,
           \/ setRoundData /\ UNCHANGED lendingVars
           \/ \E mode \in BOOLEAN : setTestMode(mode)
           \/ Tick
           \/ \E tx \in BtcPayment : ConfirmPayment(tx)
    PROVE  TypeOK'
<1>1. CASE setRoundData /\ UNCHANGED lendingVars
  BY <1>1, SetRoundDataType DEF TypeOK, lendingVars
<1>2. ASSUME NEW mode \in BOOLEAN, setTestMode(mode) PROVE TypeOK'
  BY <1>2 DEF TypeOK, setTestMode, stableVars, StableTypeOK
<1>3. CASE Tick
  BY <1>3 DEF TypeOK, Tick, stableVars, StableTypeOK
<1>4. ASSUME NEW tx \in BtcPayment, ConfirmPayment(tx) PROVE TypeOK'
  BY <1>4 DEF TypeOK, ConfirmPayment, stableVars, StableTypeOK
<1> QED
  BY <1>1, <1>2, <1>3, <1>4

\* Every step keeps the types.
LEMMA NextType == TypeOK /\ [Next]_vars => TypeOK'
<1> SUFFICES ASSUME TypeOK, [Next]_vars PROVE TypeOK'
  OBVIOUS
<1>1. ASSUME NEW a \in Accounts, BorrowerStep(a) PROVE TypeOK'
  <2>1. ASSUME NEW amount \in BtcAmounts, NEW rate \in Rates,
               NEW addr \in Addresses \cup {NoAddress}, requestBorrow(a, amount, rate, addr)
        PROVE  TypeOK'
    BY <2>1, RequestBorrowType, AmountsAssumption
  <2>2. CASE cancelBorrowRequest(a)
    BY <2>2, CancelType
  <2>3. ASSUME NEW l \in Accounts, repay(a, l) PROVE TypeOK'
    BY <2>3, RepayType
  <2> QED
    BY <1>1, <2>1, <2>2, <2>3 DEF BorrowerStep
<1>2. ASSUME NEW a \in Accounts, LenderStep(a) PROVE TypeOK'
  <2>1. ASSUME NEW b \in Accounts, NEW tx \in BtcPayment, lend(a, b, tx) PROVE TypeOK'
    BY <2>1, LendType
  <2>2. ASSUME NEW b \in Accounts, NEW l \in Accounts, liquidate(a, b, l) PROVE TypeOK'
    BY <2>2, LiquidateType
  <2> QED
    BY <1>2, <2>1, <2>2 DEF LenderStep
<1>3. ASSUME NEW a \in Accounts, StableStep(a) PROVE TypeOK'
  <2>1. StableTypeOK'
    <3>1. ASSUME NEW h \in Preimages, NEW amount \in BtcAmounts, lendStable(a, h, amount)
          PROVE  StableTypeOK'
      BY <3>1, LendStableType, AmountsAssumption DEF TypeOK
    <3>2. ASSUME NEW p \in Preimages, claimStable(a, p) PROVE StableTypeOK'
      BY <3>2, ClaimStableType DEF TypeOK
    <3> QED
      BY <1>3, <3>1, <3>2 DEF StableStep
  <2> QED
    BY <1>3, <2>1 DEF StableStep, TypeOK, lendingVars
<1>4. CASE UNCHANGED vars
  BY <1>4 DEF vars, stableVars, TypeOK, StableTypeOK
<1> QED
  BY <1>1, <1>2, <1>3, <1>4, EnvironmentType DEF Next

\* The deployed contract is well typed.
LEMMA InitType == Init => TypeOK
BY InitialBalanceAssumption
   DEF Init, TypeOK, StableInit, StableTypeOK, NoStableLoan, StableLoan, NoRequest,
       BorrowRequest, NoLoan, Loan

(* Type correctness for every set of accounts, amounts and prices: in       *)
(* particular no token balance, the contract's own included, ever becomes   *)
(* negative, because each transfer is covered when it is made.              *)
THEOREM TypeCorrect == Spec => []TypeOK
<1>1. Init => TypeOK
  BY InitType
<1>2. TypeOK /\ [Next]_vars => TypeOK'
  BY NextType
<1> QED
  BY <1>1, <1>2, PTL DEF Spec

----------------------------------------------------------------------------
(* Price moves alone never make a loan liquidatable.                       *)

\* The strengthening: a loan's debt starts from the amount its collateral is
\* recomputed from, and interest runs from a date that is not in the future.
LoanTerms ==
    \A p \in Pairs : /\ loans[p].borrowAmount = loans[p].principal
                     /\ loans[p].startDate <= now

\* Closing a loan leaves its terms alone.
LEMMA ClosingKeepsTerms ==
    ASSUME TypeOK, LoanTerms, NEW pair \in Pairs, now' = now,
           loans' = [loans EXCEPT ![pair].active = FALSE]
    PROVE  LoanTerms'
<1> SUFFICES ASSUME NEW p \in Pairs
             PROVE  /\ loans'[p].borrowAmount = loans[p].borrowAmount
                    /\ loans'[p].principal = loans[p].principal
                    /\ loans'[p].startDate = loans[p].startDate
  BY DEF LoanTerms
<1>1. loans[pair] \in Loan /\ loans \in [Pairs -> Loan]
  BY DEF TypeOK
<1> QED
  BY <1>1, Zenon DEF Loan

\* Every step keeps LoanTerms.
LEMMA NextTerms == TypeOK /\ LoanTerms /\ [Next]_vars => LoanTerms'
<1> SUFFICES ASSUME TypeOK, LoanTerms, [Next]_vars PROVE LoanTerms'
  OBVIOUS
<1>1. CASE UNCHANGED <<loans, now>>
  BY <1>1 DEF LoanTerms
<1>2. ASSUME NEW a \in Accounts, NEW b \in Accounts, NEW tx, lend(a, b, tx)
      PROVE  LoanTerms'
  <2>1. <<a, b>> \in Pairs /\ loans \in [Pairs -> Loan] /\ now \in Nat
    BY DEF TypeOK, Pairs
  <2>2. now' = now
    BY <1>2 DEF lend
  <2>3. loans' = [loans EXCEPT ![<<a, b>>] =
            [borrowAmount |-> borrowRequests[b].amount,
             principal |-> borrowRequests[b].amount,
             interestRate |-> borrowRequests[b].interestRate, startDate |-> now,
             btcAddress |-> borrowRequests[b].btcAddress, active |-> TRUE]]
    BY <1>2 DEF lend
  <2> QED
    BY <2>1, <2>2, <2>3 DEF LoanTerms
<1>3. ASSUME NEW a \in Accounts, NEW l \in Accounts, repay(a, l) PROVE LoanTerms'
  <2>1. <<l, a>> \in Pairs
    BY DEF Pairs
  <2> QED
    BY <1>3, <2>1, ClosingKeepsTerms DEF repay
<1>4. ASSUME NEW a \in Accounts, NEW b \in Accounts, NEW l \in Accounts, liquidate(a, b, l)
      PROVE  LoanTerms'
  <2>1. <<l, b>> \in Pairs
    BY DEF Pairs
  <2> QED
    BY <1>4, <2>1, ClosingKeepsTerms DEF liquidate
<1>5. CASE Tick
  BY <1>5 DEF Tick, LoanTerms, TypeOK, Loan
<1>6. ASSUME NEW a \in Accounts,
             \/ \E amount \in BtcAmounts, rate \in Rates, addr \in Addresses \cup {NoAddress} :
                    requestBorrow(a, amount, rate, addr)
             \/ cancelBorrowRequest(a)
             \/ StableStep(a)
      PROVE  UNCHANGED <<loans, now>>
  BY <1>6 DEF requestBorrow, cancelBorrowRequest, StableStep, lendingVars
<1>7. ASSUME \/ setRoundData /\ UNCHANGED lendingVars
             \/ \E mode \in BOOLEAN : setTestMode(mode)
             \/ \E tx \in BtcPayment : ConfirmPayment(tx)
             \/ UNCHANGED vars
      PROVE  UNCHANGED <<loans, now>>
  BY <1>7 DEF lendingVars, setTestMode, ConfirmPayment, vars
<1> QED
  BY <1>1, <1>2, <1>3, <1>4, <1>5, <1>6, <1>7 DEF Next, BorrowerStep, LenderStep

\* The arithmetic core.  x is principal * btcPrice, c the recomputed collateral, v its
\* value and d the value of the debt without interest: the three roundings lose less
\* than the margin between 150% and 125%.
LEMMA RoundingMargin ==
    ASSUME NEW x \in Nat, NEW cp \in Nat \ {0}, NEW s \in Nat \ {0},
           x >= 4 * (cp + s),
           NEW c \in Nat, NEW v \in Nat, NEW d \in Nat,
           x * 150 < c * (cp * 100) + cp * 100,
           c * cp < v * s + s,
           d * s <= x
    PROVE  ~(v * 100 < d * 125)
<1>1. x * 150 < (c * cp) * 100 + cp * 100
  OBVIOUS
<1> DEFINE k == c * cp
           vs == v * s
           ds == d * s
<1>2. k \in Nat /\ vs \in Nat /\ ds \in Nat
  BY ProductIsNat
<1>3. ds * 125 < vs * 100
  <2>1. x * 150 < k * 100 + cp * 100 /\ k < vs + s /\ ds <= x
    BY <1>1
  <2> HIDE DEF k, vs, ds
  <2> QED
    BY <1>2, <2>1
<1> SUFFICES ASSUME v * 100 < d * 125 PROVE FALSE
  OBVIOUS
<1>4. (d * 125 - v * 100) * s >= 0
  <2> DEFINE e == d * 125 - v * 100
  <2>1. e \in Nat
    OBVIOUS
  <2> HIDE DEF e
  <2>2. e * s \in Nat
    BY <2>1, ProductIsNat
  <2> QED
    BY <2>2 DEF e
<1>5. (d * 125 - v * 100) * s = ds * 125 - vs * 100
  OBVIOUS
<1> QED
  BY <1>2, <1>3, <1>4, <1>5

\* Without interest a loan above the rounding limit is not liquidatable.
LEMMA NoInterestNoLiquidation ==
    ASSUME TypeOK, LoanTerms, ValidPrices, NEW p \in Pairs, AboveRounding(loans[p]),
           ~(calculateInterest(loans[p]) > 0)
    PROVE  ~Liquidatable(loans[p])
<1> DEFINE loan == loans[p]
           x == loan.principal * btcPrice
           c == getStableCollateralAmount(loan.borrowAmount)
           v == getCurrentCollateralValue(c)
           d == getCurrentLoanValue(loan)
<1>1. /\ btcPrice \in Nat \ {0} /\ collateralPrice \in Nat \ {0}
      /\ PRICE_SCALE \in Nat \ {0} /\ SECONDS_PER_YEAR * 100 \in Nat \ {0}
  BY PricesAssumption, ScalesAssumption DEF TypeOK, StableTypeOK, ValidPrices
<1>2. /\ loan.principal \in Nat /\ loan.interestRate \in Nat
      /\ loan.borrowAmount = loan.principal /\ now - loan.startDate \in Nat
  BY DEF TypeOK, Loan, LoanTerms
<1>3. calculateInterest(loan) = 0
  <2>1. loan.principal * loan.interestRate * (now - loan.startDate) \in Nat
    BY <1>2, ProductIsNat
  <2>2. calculateInterest(loan) \in Nat
    BY <1>1, <2>1, Division DEF calculateInterest
  <2> QED
    BY <2>2
<1>4. x \in Nat /\ x * 150 \in Nat /\ collateralPrice * 100 \in Nat \ {0}
  BY <1>1, <1>2, ProductIsNat
<1>5. c = (x * 150) \div (collateralPrice * 100)
  BY <1>2 DEF getStableCollateralAmount, COLLATERAL_RATIO
<1>6. c \in Nat /\ x * 150 < c * (collateralPrice * 100) + collateralPrice * 100
  <2> HIDE DEF x, c
  <2> QED
    BY <1>4, <1>5, Division
<1>7. v \in Nat /\ c * collateralPrice < v * PRICE_SCALE + PRICE_SCALE
  <2> HIDE DEF c
  <2>1. c * collateralPrice \in Nat
    BY <1>1, <1>6, ProductIsNat
  <2> QED
    BY <1>1, <2>1, Division DEF getCurrentCollateralValue
<1>8. d \in Nat /\ d * PRICE_SCALE <= x
  <2>1. d = x \div PRICE_SCALE
    BY <1>2, <1>3 DEF getCurrentLoanValue
  <2> HIDE DEF d, x
  <2> QED
    BY <1>1, <1>4, <2>1, Division
<1>9. x >= 4 * (collateralPrice + PRICE_SCALE)
  BY DEF AboveRounding
<1>10. ~(v * 100 < d * 125)
  <2> HIDE DEF x, c, v, d
  <2> QED
    BY <1>1, <1>4, <1>6, <1>7, <1>8, <1>9, RoundingMargin
<1> QED
  BY <1>10 DEF Liquidatable, LIQUIDATION_THRESHOLD

(* For every price and scale: while no interest has accrued, no sequence of *)
(* price updates makes a loan above the rounding limit liquidatable, since  *)
(* liquidate compares the debt with collateral recomputed at the same       *)
(* prices (P2PBTCLending.sol:171-175).                                      *)
THEOREM PricesAloneNeverLiquidate == Spec => []OnlyInterestLiquidates
<1>1. Init => TypeOK /\ LoanTerms
  <2>1. Init => LoanTerms
    BY DEF Init, LoanTerms, NoLoan
  <2> QED
    BY <2>1, InitType
<1>2. TypeOK /\ LoanTerms /\ [Next]_vars => (TypeOK /\ LoanTerms)'
  BY NextType, NextTerms
<1>3. TypeOK /\ LoanTerms => OnlyInterestLiquidates
  BY NoInterestNoLiquidation DEF OnlyInterestLiquidates
<1> QED
  BY <1>1, <1>2, <1>3, PTL DEF Spec

----------------------------------------------------------------------------
(* Stable loans are final.                                                 *)

\* What StableLoanIsFinal asks of one step.
StableLoanStep ==
    \A h \in Preimages :
        /\ stableLoans[h].collateralAmount > 0 =>
             /\ stableLoans'[h].collateralAmount = stableLoans[h].collateralAmount
             /\ stableLoans'[h].stableLoanAmount = stableLoans[h].stableLoanAmount
        /\ stableLoans'[h].borrowerPreimage # stableLoans[h].borrowerPreimage =>
             /\ stableLoans'[h].borrowerPreimage = h
             /\ stableLoans[h].collateralAmount > 0

\* lendStable only writes an unused entry and keeps its preimage field.
LEMMA LendStableStep ==
    ASSUME TypeOK, NEW a \in Accounts, NEW h \in Preimages, NEW amount \in Nat,
           lendStable(a, h, amount)
    PROVE  StableLoanStep
<1> DEFINE lent == getStableLoanAmount(amount)
<1>1. stableLoans \in [Preimages -> StableLoan]
  BY DEF TypeOK, StableTypeOK
<1>2. /\ stableLoans[h].collateralAmount = 0
      /\ stableLoans' = [stableLoans EXCEPT ![h] =
            [collateralAmount |-> amount, stableLoanAmount |-> lent,
             borrowerPreimage |-> stableLoans[h].borrowerPreimage]]
  BY DEF lendStable
<1> HIDE DEF lent
<1> QED
  BY <1>1, <1>2 DEF StableLoanStep, StableLoan

\* claimStable only writes the preimage of the entry it pays out.
LEMMA ClaimStableStep ==
    ASSUME TypeOK, NEW a \in Accounts, NEW p \in Preimages, claimStable(a, p)
    PROVE  StableLoanStep
<1>1. stableLoans \in [Preimages -> StableLoan]
  BY DEF TypeOK, StableTypeOK
<1>2. \A h \in Preimages :
          /\ stableLoans'[h].collateralAmount = stableLoans[h].collateralAmount
          /\ stableLoans'[h].stableLoanAmount = stableLoans[h].stableLoanAmount
          /\ h # p => stableLoans'[h] = stableLoans[h]
  BY <1>1, Zenon DEF claimStable, StableLoan
<1>3. stableLoans'[p].borrowerPreimage = p
  BY <1>1, Zenon DEF claimStable, StableLoan
<1>4. stableLoans[p].collateralAmount > 0
  BY DEF claimStable
<1> QED
  BY <1>2, <1>3, <1>4 DEF StableLoanStep

\* A step that leaves stableLoans alone is a StableLoanStep.
LEMMA UntouchedStableLoans == UNCHANGED stableLoans => StableLoanStep
BY DEF StableLoanStep

(* A recorded stable loan never changes its amounts, and the preimage       *)
(* published for a hash is that hash's own: what a lender reads back from   *)
(* stableLoans to spend the escrow is the right preimage.                   *)
THEOREM StableLoansAreFinal == Spec => StableLoanIsFinal
<1>1. TypeOK /\ [Next]_vars => [StableLoanStep]_vars
  <2> SUFFICES ASSUME TypeOK, Next PROVE StableLoanStep
    OBVIOUS
  <2>1. ASSUME NEW a \in Accounts, StableStep(a) PROVE StableLoanStep
    BY <2>1, LendStableStep, ClaimStableStep, AmountsAssumption DEF StableStep
  <2>2. ASSUME NEW a \in Accounts, BorrowerStep(a) PROVE UNCHANGED stableLoans
    BY <2>2 DEF BorrowerStep, requestBorrow, cancelBorrowRequest, repay
  <2>3. ASSUME NEW a \in Accounts, LenderStep(a) PROVE UNCHANGED stableLoans
    BY <2>3 DEF LenderStep, lend, liquidate, stableVars
  <2>4. ASSUME \/ setRoundData /\ UNCHANGED lendingVars
               \/ \E mode \in BOOLEAN : setTestMode(mode)
               \/ Tick
               \/ \E tx \in BtcPayment : ConfirmPayment(tx)
        PROVE  UNCHANGED stableLoans
    BY <2>4 DEF setRoundData, setTestMode, Tick, ConfirmPayment, stableVars
  <2> QED
    BY <2>1, <2>2, <2>3, <2>4, UntouchedStableLoans DEF Next
<1> QED
  BY <1>1, TypeCorrect, PTL DEF Spec, StableLoanIsFinal, StableLoanStep

----------------------------------------------------------------------------
(* A request funds one loan.                                               *)

\* What RequestFundsOneLoan asks of one step.
FundingStep ==
    \A p \in Pairs :
        (~loans[p].active /\ loans'[p].active) =>
            LET request == borrowRequests[p[2]]
            IN  /\ request.active
                /\ ~borrowRequests'[p[2]].active
                /\ loans'[p].principal = request.amount
                /\ loans'[p].borrowAmount = request.amount
                /\ loans'[p].interestRate = request.interestRate
                /\ loans'[p].btcAddress = request.btcAddress
                /\ deposits'[p] = request.collateral
                /\ \A q \in Pairs \ {p} : loans'[q] = loans[q]

\* lend starts exactly the loan of its pair, on the terms of the request it deletes.
LEMMA LendFunds ==
    ASSUME TypeOK, NEW a \in Accounts, NEW b \in Accounts, NEW tx, lend(a, b, tx)
    PROVE  FundingStep
<1> DEFINE pair == <<a, b>>
           new == [borrowAmount |-> borrowRequests[b].amount,
                   principal |-> borrowRequests[b].amount,
                   interestRate |-> borrowRequests[b].interestRate, startDate |-> now,
                   btcAddress |-> borrowRequests[b].btcAddress, active |-> TRUE]
<1>1. pair \in Pairs /\ pair[2] = b
  BY DEF Pairs
<1>2. \A q \in Pairs : loans'[q] = IF q = pair THEN new ELSE loans[q]
  BY <1>1 DEF lend, TypeOK
<1>3. deposits'[pair] = borrowRequests[b].collateral
  BY <1>1 DEF lend, TypeOK
<1>4. borrowRequests[b].active /\ ~borrowRequests'[b].active
  BY DEF lend, TypeOK, NoRequest
<1> SUFFICES ASSUME NEW p \in Pairs, ~loans[p].active, loans'[p].active
             PROVE  LET request == borrowRequests[p[2]]
                    IN  /\ request.active
                        /\ ~borrowRequests'[p[2]].active
                        /\ loans'[p].principal = request.amount
                        /\ loans'[p].borrowAmount = request.amount
                        /\ loans'[p].interestRate = request.interestRate
                        /\ loans'[p].btcAddress = request.btcAddress
                        /\ deposits'[p] = request.collateral
                        /\ \A q \in Pairs \ {p} : loans'[q] = loans[q]
  BY DEF FundingStep
<1>5. p = pair
  BY <1>2
<1>6. loans'[p] = new /\ \A q \in Pairs \ {p} : loans'[q] = loans[q]
  BY <1>2, <1>5
<1> QED
  BY <1>1, <1>3, <1>4, <1>5, <1>6

\* Closing a loan starts none.
LEMMA ClosingFundsNothing ==
    ASSUME TypeOK, NEW pair \in Pairs, loans' = [loans EXCEPT ![pair].active = FALSE]
    PROVE  FundingStep
<1> SUFFICES ASSUME NEW p \in Pairs, ~loans[p].active PROVE ~loans'[p].active
  BY DEF FundingStep
<1>1. loans \in [Pairs -> Loan] /\ loans[pair] \in Loan
  BY DEF TypeOK
<1> QED
  BY <1>1, Zenon DEF Loan

\* A step that leaves the loans alone starts none.
LEMMA UntouchedLoans == UNCHANGED loans => FundingStep
BY DEF FundingStep

(* A loan starts only by using up its borrower's open request, with the     *)
(* terms of that request, one loan at a time (lend, 115-147).               *)
THEOREM RequestsFundOneLoan == Spec => RequestFundsOneLoan
<1>1. TypeOK /\ [Next]_vars => [FundingStep]_vars
  <2> SUFFICES ASSUME TypeOK, Next PROVE FundingStep
    OBVIOUS
  <2>1. ASSUME NEW a \in Accounts, NEW l \in Accounts, repay(a, l) PROVE FundingStep
    <3>1. <<l, a>> \in Pairs
      BY DEF Pairs
    <3> QED
      BY <2>1, <3>1, ClosingFundsNothing DEF repay
  <2>2. ASSUME NEW a \in Accounts, NEW b \in Accounts, NEW l \in Accounts, liquidate(a, b, l)
        PROVE  FundingStep
    <3>1. <<l, b>> \in Pairs
      BY DEF Pairs
    <3> QED
      BY <2>2, <3>1, ClosingFundsNothing DEF liquidate
  <2>3. ASSUME NEW a \in Accounts,
               \/ \E amount \in BtcAmounts, rate \in Rates, addr \in Addresses \cup {NoAddress} :
                      requestBorrow(a, amount, rate, addr)
               \/ cancelBorrowRequest(a)
               \/ StableStep(a)
        PROVE  UNCHANGED loans
    BY <2>3 DEF requestBorrow, cancelBorrowRequest, StableStep, lendingVars
  <2>4. ASSUME \/ setRoundData /\ UNCHANGED lendingVars
               \/ \E mode \in BOOLEAN : setTestMode(mode)
               \/ Tick
               \/ \E tx \in BtcPayment : ConfirmPayment(tx)
        PROVE  UNCHANGED loans
    BY <2>4 DEF setTestMode, Tick, ConfirmPayment, lendingVars
  <2> QED
    BY <2>1, <2>2, <2>3, <2>4, LendFunds, UntouchedLoans
       DEF Next, BorrowerStep, LenderStep
<1> QED
  BY <1>1, TypeCorrect, PTL DEF Spec, RequestFundsOneLoan, FundingStep
----------------------------------------------------------------------------
(* The contract's own balance.                                             *)

\* What is closed holds nothing: a request, a loan, and a hash nobody has lent under.
ClosedRequests == \A a \in Accounts : ~borrowRequests[a].active => borrowRequests[a].collateral = 0
ClosedLoans == \A p \in Pairs : ~loans[p].active => deposits[p] = 0
UnusedHashes ==
    \A h \in Preimages : stableLoans[h].collateralAmount = 0 =>
        stableLoans[h].stableLoanAmount = 0 /\ claims[h] = 0

BalanceInv == BalanceIsAccountedFor /\ ClosedRequests /\ ClosedLoans /\ UnusedHashes

\* What one hash contributes to UnclaimedStable.
Unclaimed(h) == stableLoans[h].stableLoanAmount * (1 - claims[h])

\* What the three pools sum up, in any state: functions to the integers, over finite sets.
LEMMA PoolTypes ==
    ASSUME NEW requests \in [Accounts -> BorrowRequest], NEW d \in [Pairs -> Nat],
           NEW lent \in [Preimages -> StableLoan], NEW paid \in [Preimages -> Nat]
    PROVE  /\ [a \in Accounts |-> requests[a].collateral] \in [Accounts -> Int]
           /\ d \in [Pairs -> Int]
           /\ [h \in Preimages |-> lent[h].stableLoanAmount * (1 - paid[h])] \in [Preimages -> Int]
           /\ IsFiniteSet(Pairs)
<1>1. IsFiniteSet(Pairs)
  BY FS_Product, FiniteAssumption DEF Pairs
<1>2. ASSUME NEW a \in Accounts PROVE requests[a].collateral \in Int
  <2>1. requests[a] \in BorrowRequest
    OBVIOUS
  <2> QED
    BY <2>1 DEF BorrowRequest
<1>3. ASSUME NEW h \in Preimages PROVE lent[h].stableLoanAmount * (1 - paid[h]) \in Int
  <2>1. lent[h] \in StableLoan /\ paid[h] \in Nat
    OBVIOUS
  <2> QED
    BY <2>1 DEF StableLoan
<1> QED
  BY <1>1, <1>2, <1>3

\* Each pool of the balance is an integer.
LEMMA PoolsAreInt ==
    ASSUME TypeOK
    PROVE  CollateralOfRequests \in Int /\ CollateralOfLoans \in Int /\ UnclaimedStable \in Int
<1>1. /\ borrowRequests \in [Accounts -> BorrowRequest] /\ deposits \in [Pairs -> Nat]
      /\ stableLoans \in [Preimages -> StableLoan] /\ claims \in [Preimages -> Nat]
  BY DEF TypeOK, StableTypeOK
<1> DEFINE f == [a \in Accounts |-> borrowRequests[a].collateral]
           g == [h \in Preimages |-> stableLoans[h].stableLoanAmount * (1 - claims[h])]
<1>2. f \in [Accounts -> Int] /\ deposits \in [Pairs -> Int] /\ g \in [Preimages -> Int] /\ IsFiniteSet(Pairs)
  BY <1>1, PoolTypes
<1>3. CollateralOfRequests = SumFunction(f) /\ UnclaimedStable = SumFunction(g)
  BY DEF CollateralOfRequests, UnclaimedStable
<1> HIDE DEF f, g
<1> QED
  BY <1>2, <1>3, SumOfFunction, FiniteAssumption DEF CollateralOfLoans

\* The collateral of the requests follows a change of one request.
LEMMA RequestPool ==
    ASSUME TypeOK, TypeOK', NEW a \in Accounts,
           \A b \in Accounts \ {a} : borrowRequests'[b] = borrowRequests[b]
    PROVE  CollateralOfRequests' =
               CollateralOfRequests + borrowRequests'[a].collateral - borrowRequests[a].collateral
<1> DEFINE f == [b \in Accounts |-> borrowRequests[b].collateral]
           g == [b \in Accounts |-> borrowRequests'[b].collateral]
<1>0. /\ borrowRequests \in [Accounts -> BorrowRequest] /\ deposits \in [Pairs -> Nat]
      /\ stableLoans \in [Preimages -> StableLoan] /\ claims \in [Preimages -> Nat]
      /\ borrowRequests' \in [Accounts -> BorrowRequest] /\ deposits' \in [Pairs -> Nat]
      /\ stableLoans' \in [Preimages -> StableLoan] /\ claims' \in [Preimages -> Nat]
  BY DEF TypeOK, StableTypeOK
<1>1. f \in [Accounts -> Int] /\ g \in [Accounts -> Int]
  BY <1>0, PoolTypes
<1>2. \A b \in Accounts \ {a} : g[b] = f[b]
  OBVIOUS
<1>3. CollateralOfRequests = SumFunction(f) /\ CollateralOfRequests' = SumFunction(g)
  BY DEF CollateralOfRequests
<1>4. g[a] = borrowRequests'[a].collateral /\ f[a] = borrowRequests[a].collateral
  OBVIOUS
<1> HIDE DEF f, g
<1>5. SumFunction(g) = SumFunction(f) + g[a] - f[a]
  BY <1>1, <1>2, SumOfFunction, FiniteAssumption
<1> QED
  BY <1>3, <1>4, <1>5

\* The same for the deposits of the loans.
LEMMA LoanPool ==
    ASSUME TypeOK, TypeOK', NEW p \in Pairs, \A q \in Pairs \ {p} : deposits'[q] = deposits[q]
    PROVE  CollateralOfLoans' = CollateralOfLoans + deposits'[p] - deposits[p]
<1>0. /\ borrowRequests \in [Accounts -> BorrowRequest] /\ deposits \in [Pairs -> Nat]
      /\ stableLoans \in [Preimages -> StableLoan] /\ claims \in [Preimages -> Nat]
      /\ borrowRequests' \in [Accounts -> BorrowRequest] /\ deposits' \in [Pairs -> Nat]
      /\ stableLoans' \in [Preimages -> StableLoan] /\ claims' \in [Preimages -> Nat]
  BY DEF TypeOK, StableTypeOK
<1>1. deposits \in [Pairs -> Int] /\ deposits' \in [Pairs -> Int] /\ IsFiniteSet(Pairs)
  BY <1>0, PoolTypes
<1>2. SumFunction(deposits') = SumFunction(deposits) + deposits'[p] - deposits[p]
  BY <1>1, SumOfFunction
<1> QED
  BY <1>2 DEF CollateralOfLoans

\* The same for the stable loans, claimed any number of times.
LEMMA StablePool ==
    ASSUME TypeOK, TypeOK', NEW h \in Preimages,
           \A k \in Preimages \ {h} : stableLoans'[k] = stableLoans[k] /\ claims'[k] = claims[k]
    PROVE  UnclaimedStable' = UnclaimedStable + Unclaimed(h)' - Unclaimed(h)
<1> DEFINE f == [k \in Preimages |-> stableLoans[k].stableLoanAmount * (1 - claims[k])]
           g == [k \in Preimages |-> stableLoans'[k].stableLoanAmount * (1 - claims'[k])]
<1>0. /\ borrowRequests \in [Accounts -> BorrowRequest] /\ deposits \in [Pairs -> Nat]
      /\ stableLoans \in [Preimages -> StableLoan] /\ claims \in [Preimages -> Nat]
      /\ borrowRequests' \in [Accounts -> BorrowRequest] /\ deposits' \in [Pairs -> Nat]
      /\ stableLoans' \in [Preimages -> StableLoan] /\ claims' \in [Preimages -> Nat]
  BY DEF TypeOK, StableTypeOK
<1>1. f \in [Preimages -> Int] /\ g \in [Preimages -> Int]
  BY <1>0, PoolTypes
<1>2. \A k \in Preimages \ {h} : g[k] = f[k]
  BY Zenon
<1>3. UnclaimedStable = SumFunction(f) /\ UnclaimedStable' = SumFunction(g)
  BY DEF UnclaimedStable
<1>4. g[h] = Unclaimed(h)' /\ f[h] = Unclaimed(h)
  BY Zenon DEF Unclaimed
<1> HIDE DEF f, g
<1>5. SumFunction(g) = SumFunction(f) + g[h] - f[h]
  BY <1>1, <1>2, SumOfFunction, FiniteAssumption
<1> QED
  BY <1>3, <1>4, <1>5

\* A pool whose part of the state is left alone stays as it is.
LEMMA PoolsRest ==
    /\ UNCHANGED borrowRequests => UNCHANGED CollateralOfRequests
    /\ UNCHANGED deposits => UNCHANGED CollateralOfLoans
    /\ UNCHANGED <<stableLoans, claims>> => UNCHANGED UnclaimedStable
BY DEF CollateralOfRequests, CollateralOfLoans, UnclaimedStable

\* The balance of the contract after a transfer from or to an account.
LEMMA TransferOwn ==
    ASSUME TypeOK, NEW a \in Accounts, NEW amount \in Nat
    PROVE  /\ Transfer(balances, a, This, amount)[This] = balances[This] + amount
           /\ Transfer(balances, This, a, amount)[This] = balances[This] - amount
           /\ balances[This] \in Nat
BY AccountsAssumption DEF TypeOK, StableTypeOK, Transfer
\* Opening a request moves its collateral into the contract.
LEMMA RequestBalance ==
    ASSUME TypeOK, TypeOK', BalanceInv, NEW a \in Accounts, NEW amount \in Nat, NEW rate, NEW addr,
           requestBorrow(a, amount, rate, addr)
    PROVE  BalanceInv'
<1> DEFINE c == getStableCollateralAmount(amount)
<1>1. c \in Nat
  BY CollateralAmountIsNat DEF requestBorrow, TypeOK
<1>2. /\ balances' = Transfer(balances, a, This, c) /\ ~borrowRequests[a].active
      /\ borrowRequests' = [borrowRequests EXCEPT ![a] =
             [amount |-> amount, collateral |-> c, interestRate |-> rate, btcAddress |-> addr, active |-> TRUE]]
      /\ UNCHANGED <<stableLoans, claims, loans, deposits, drift>>
  BY DEF requestBorrow
<1> HIDE DEF c
<1>3. /\ borrowRequests'[a].collateral = c /\ borrowRequests'[a].active
      /\ \A b \in Accounts \ {a} : borrowRequests'[b] = borrowRequests[b]
  BY <1>2 DEF TypeOK
<1>4. borrowRequests[a].collateral = 0
  BY <1>2 DEF BalanceInv, ClosedRequests
<1>5. CollateralOfRequests' = CollateralOfRequests + c
  BY <1>1, <1>3, <1>4, RequestPool, PoolsAreInt
<1>6. balances'[This] = balances[This] + c
  BY <1>1, <1>2, TransferOwn
<1>7. BalanceIsAccountedFor'
  BY <1>1, <1>2, <1>5, <1>6, PoolsRest, PoolsAreInt, TransferOwn
     DEF BalanceInv, BalanceIsAccountedFor, TypeOK
<1>8. ClosedRequests'
  BY <1>3 DEF BalanceInv, ClosedRequests
<1> QED
  BY <1>2, <1>7, <1>8 DEF BalanceInv, ClosedLoans, UnusedHashes

\* A cancelled request takes its collateral out again.
LEMMA CancelBalance ==
    ASSUME TypeOK, TypeOK', BalanceInv, NEW a \in Accounts, cancelBorrowRequest(a)
    PROVE  BalanceInv'
<1>1. PICK c \in Nat : c = borrowRequests[a].collateral
  <2>1. borrowRequests[a] \in BorrowRequest
    BY DEF TypeOK
  <2> QED
    BY <2>1 DEF BorrowRequest
<1>2. /\ balances' = Transfer(balances, This, a, c)
      /\ borrowRequests' = [borrowRequests EXCEPT ![a] = NoRequest]
      /\ UNCHANGED <<stableLoans, claims, loans, deposits, drift>>
  BY <1>1 DEF cancelBorrowRequest
<1>3. borrowRequests'[a] = NoRequest /\ \A b \in Accounts \ {a} : borrowRequests'[b] = borrowRequests[b]
  BY <1>2 DEF TypeOK
<1>4. NoRequest.collateral = 0
  BY DEF NoRequest
<1>5. CollateralOfRequests' = CollateralOfRequests - c
  BY <1>1, <1>3, <1>4, RequestPool, PoolsAreInt
<1>6. balances'[This] = balances[This] - c
  BY <1>2, TransferOwn
<1>7. BalanceIsAccountedFor'
  BY <1>2, <1>5, <1>6, PoolsRest, PoolsAreInt, TransferOwn DEF BalanceInv, BalanceIsAccountedFor, TypeOK
<1>8. ClosedRequests'
  BY <1>3, <1>4 DEF BalanceInv, ClosedRequests
<1> QED
  BY <1>2, <1>7, <1>8 DEF BalanceInv, ClosedLoans, UnusedHashes

\* A loan takes over the collateral of its request.
LEMMA LendBalance ==
    ASSUME TypeOK, TypeOK', BalanceInv, NEW a \in Accounts, NEW b \in Accounts, NEW tx, lend(a, b, tx)
    PROVE  BalanceInv'
<1>1. PICK c \in Nat : c = borrowRequests[b].collateral
  <2>1. borrowRequests[b] \in BorrowRequest
    BY DEF TypeOK
  <2> QED
    BY <2>1 DEF BorrowRequest
<1>2. PICK p \in Pairs : p = <<a, b>>
  BY DEF Pairs
<1>3. /\ ~loans[p].active /\ borrowRequests' = [borrowRequests EXCEPT ![b] = NoRequest]
      /\ deposits' = [deposits EXCEPT ![p] = c]
      /\ UNCHANGED <<stableVars, drift>>
  BY <1>1, <1>2 DEF lend
<1>4. loans'[p].active /\ \A q \in Pairs \ {p} : loans'[q] = loans[q]
  <2>1. loans' = [loans EXCEPT ![p] =
               [borrowAmount |-> borrowRequests[b].amount, principal |-> borrowRequests[b].amount,
                interestRate |-> borrowRequests[b].interestRate, startDate |-> now,
                btcAddress |-> borrowRequests[b].btcAddress, active |-> TRUE]]
    BY <1>2 DEF lend
  <2> QED
    BY <2>1 DEF TypeOK
<1>5. borrowRequests'[b] = NoRequest /\ \A x \in Accounts \ {b} : borrowRequests'[x] = borrowRequests[x]
  BY <1>3 DEF TypeOK
<1>6. deposits'[p] = c /\ \A q \in Pairs \ {p} : deposits'[q] = deposits[q]
  BY <1>3 DEF TypeOK
<1>7. deposits[p] = 0 /\ NoRequest.collateral = 0
  BY <1>3 DEF BalanceInv, ClosedLoans, NoRequest
<1>8. CollateralOfRequests' = CollateralOfRequests - c
  BY <1>1, <1>5, <1>7, RequestPool, PoolsAreInt
<1>9. CollateralOfLoans' = CollateralOfLoans + c
  BY <1>6, <1>7, LoanPool, PoolsAreInt
<1>10. UNCHANGED <<balances, stableLoans, claims, drift>>
  BY <1>3 DEF stableVars
<1>11. BalanceIsAccountedFor'
  BY <1>8, <1>9, <1>10, PoolsRest, PoolsAreInt DEF BalanceInv, BalanceIsAccountedFor, TypeOK
<1>12. ClosedRequests' /\ ClosedLoans'
  BY <1>4, <1>5, <1>6, <1>7 DEF BalanceInv, ClosedRequests, ClosedLoans
<1> QED
  BY <1>10, <1>11, <1>12 DEF BalanceInv, UnusedHashes

\* A loan is closed: its deposit leaves the pool, the collateral priced now leaves the balance,
\* and the difference goes into the drift.
LEMMA ClosingBalance ==
    ASSUME TypeOK, TypeOK', BalanceInv, NEW p \in Pairs, NEW c \in Nat,
           balances'[This] = balances[This] - c,
           loans' = [loans EXCEPT ![p].active = FALSE],
           drift' = drift + deposits[p] - c,
           deposits' = [deposits EXCEPT ![p] = 0],
           UNCHANGED <<stableLoans, claims, borrowRequests>>
    PROVE  BalanceInv'
<1>1. deposits'[p] = 0 /\ \A q \in Pairs \ {p} : deposits'[q] = deposits[q] /\ loans'[q] = loans[q]
  BY DEF TypeOK
<1>2. deposits[p] \in Nat /\ balances[This] \in Nat /\ drift \in Int
  BY DEF TypeOK, StableTypeOK
<1>3. CollateralOfLoans' = CollateralOfLoans - deposits[p]
  BY <1>1, <1>2, LoanPool, PoolsAreInt
<1>4. BalanceIsAccountedFor'
  BY <1>2, <1>3, PoolsRest, PoolsAreInt DEF BalanceInv, BalanceIsAccountedFor
<1>5. ClosedLoans'
  BY <1>1 DEF BalanceInv, ClosedLoans
<1> QED
  BY <1>4, <1>5 DEF BalanceInv, ClosedRequests, UnusedHashes

\* Repaying closes the loan.
LEMMA RepayBalance ==
    ASSUME TypeOK, TypeOK', BalanceInv, NEW a \in Accounts, NEW l \in Accounts, repay(a, l)
    PROVE  BalanceInv'
<1>1. PICK p \in Pairs : p = <<l, a>>
  BY DEF Pairs
<1>2. loans[p].borrowAmount \in Nat
  <2>1. loans[p] \in Loan
    BY DEF TypeOK
  <2> QED
    BY <2>1 DEF Loan
<1>3. PICK c \in Nat : c = getStableCollateralAmount(loans[p].borrowAmount)
  BY <1>2, CollateralAmountIsNat DEF repay, TypeOK
<1>4. /\ balances' = Transfer(balances, This, a, c)
      /\ loans' = [loans EXCEPT ![p].active = FALSE]
      /\ drift' = drift + deposits[p] - c
      /\ deposits' = [deposits EXCEPT ![p] = 0]
      /\ UNCHANGED <<stableLoans, claims, borrowRequests>>
  BY <1>1, <1>3 DEF repay
<1>5. balances'[This] = balances[This] - c
  BY <1>4, TransferOwn
<1> QED
  BY <1>4, <1>5, ClosingBalance

\* Liquidating closes the loan too: the reward and the rest are the whole collateral.
LEMMA LiquidateBalance ==
    ASSUME TypeOK, TypeOK', BalanceInv, NEW a \in Accounts, NEW b \in Accounts, NEW l \in Accounts,
           liquidate(a, b, l)
    PROVE  BalanceInv'
<1>1. PICK p \in Pairs : p = <<l, b>>
  BY DEF Pairs
<1>2. loans[p].borrowAmount \in Nat
  <2>1. loans[p] \in Loan
    BY DEF TypeOK
  <2> QED
    BY <2>1 DEF Loan
<1>3. PICK c \in Nat : c = getStableCollateralAmount(loans[p].borrowAmount)
  BY <1>1, <1>2, CollateralAmountIsNat DEF liquidate, TypeOK
<1>4. PICK r \in Nat : r = (c * LIQUIDATION_BONUS) \div 100
  BY <1>3, Division DEF LIQUIDATION_BONUS
<1>5. /\ balances' = Transfer(Transfer(balances, This, a, r), This, l, c - r)
      /\ loans' = [loans EXCEPT ![p].active = FALSE]
      /\ drift' = drift + deposits[p] - c
      /\ deposits' = [deposits EXCEPT ![p] = 0]
      /\ UNCHANGED <<stableLoans, claims, borrowRequests>>
  BY <1>1, <1>3, <1>4 DEF liquidate
<1>6. balances'[This] = balances[This] - c
  <2>1. balances \in [Accounts \cup {This} -> Nat] /\ a # This /\ l # This
    BY AccountsAssumption DEF TypeOK, StableTypeOK
  <2> QED
    BY <1>5, <2>1 DEF Transfer
<1> QED
  BY <1>5, <1>6, ClosingBalance

\* A stable loan moves the lent amount in, under a hash that counted for nothing.
LEMMA LendStableBalance ==
    ASSUME TypeOK, TypeOK', BalanceInv, NEW a \in Accounts, NEW h \in Preimages, NEW amount \in Nat,
           lendStable(a, h, amount), UNCHANGED lendingVars
    PROVE  BalanceInv'
<1>1. PICK lent \in Nat : lent = getStableLoanAmount(amount)
  BY StableLoanAmountIsNat DEF lendStable, TypeOK
<1>2. /\ amount > 0 /\ stableLoans[h].collateralAmount = 0
      /\ balances' = Transfer(balances, a, This, lent)
      /\ stableLoans' = [stableLoans EXCEPT ![h] = [collateralAmount |-> amount, stableLoanAmount |-> lent,
                                                    borrowerPreimage |-> stableLoans[h].borrowerPreimage]]
      /\ claims' = claims
  BY <1>1 DEF lendStable
<1>3. /\ stableLoans'[h].collateralAmount = amount /\ stableLoans'[h].stableLoanAmount = lent
      /\ \A k \in Preimages \ {h} : stableLoans'[k] = stableLoans[k]
  BY <1>2 DEF TypeOK, StableTypeOK
<1>4. stableLoans[h].stableLoanAmount = 0 /\ claims[h] = 0
  BY <1>2 DEF BalanceInv, UnusedHashes
<1>5. Unclaimed(h) = 0 /\ Unclaimed(h)' = lent
  BY <1>2, <1>3, <1>4 DEF Unclaimed
<1>6. UnclaimedStable' = UnclaimedStable + lent
  BY <1>2, <1>3, <1>5, StablePool, PoolsAreInt
<1>7. balances'[This] = balances[This] + lent
  BY <1>2, TransferOwn
<1>8. UNCHANGED <<borrowRequests, loans, deposits, drift>>
  BY DEF lendingVars
<1>9. BalanceIsAccountedFor'
  BY <1>6, <1>7, <1>8, PoolsRest, PoolsAreInt, TransferOwn DEF BalanceInv, BalanceIsAccountedFor, TypeOK
<1>10. UnusedHashes'
  BY <1>2, <1>3 DEF BalanceInv, UnusedHashes
<1> QED
  BY <1>8, <1>9, <1>10 DEF BalanceInv, ClosedRequests, ClosedLoans

\* A payout moves the lent amount out, each time the hash is claimed.
LEMMA ClaimStableBalance ==
    ASSUME TypeOK, TypeOK', BalanceInv, NEW a \in Accounts, NEW h \in Preimages,
           claimStable(a, h), UNCHANGED lendingVars
    PROVE  BalanceInv'
<1>1. stableLoans[h] \in StableLoan /\ claims[h] \in Nat
  BY DEF TypeOK, StableTypeOK
<1>2. PICK paid \in Nat : paid = stableLoans[h].stableLoanAmount
  BY <1>1 DEF StableLoan
<1>3. /\ stableLoans[h].collateralAmount > 0
      /\ balances' = Transfer(balances, This, a, paid)
      /\ stableLoans' = [stableLoans EXCEPT ![h].borrowerPreimage = h]
      /\ claims' = [claims EXCEPT ![h] = @ + 1]
  BY <1>2 DEF claimStable
<1>4. /\ stableLoans'[h].collateralAmount = stableLoans[h].collateralAmount
      /\ stableLoans'[h].stableLoanAmount = paid /\ claims'[h] = claims[h] + 1
      /\ \A k \in Preimages \ {h} : stableLoans'[k] = stableLoans[k] /\ claims'[k] = claims[k]
  BY <1>1, <1>2, <1>3 DEF TypeOK, StableTypeOK, StableLoan
<1>5. Unclaimed(h) = paid * (1 - claims[h]) /\ Unclaimed(h)' = paid * (1 - (claims[h] + 1))
  BY <1>2, <1>4 DEF Unclaimed
<1>6. Unclaimed(h)' = Unclaimed(h) - paid /\ Unclaimed(h) \in Int
  BY <1>1, <1>5
<1>7. UnclaimedStable' = UnclaimedStable - paid
  BY <1>4, <1>6, StablePool, PoolsAreInt
<1>8. balances'[This] = balances[This] - paid
  BY <1>3, TransferOwn
<1>9. UNCHANGED <<borrowRequests, loans, deposits, drift>>
  BY DEF lendingVars
<1>10. BalanceIsAccountedFor'
  BY <1>7, <1>8, <1>9, PoolsRest, PoolsAreInt, TransferOwn DEF BalanceInv, BalanceIsAccountedFor, TypeOK
<1>11. UnusedHashes'
  BY <1>1, <1>3, <1>4 DEF BalanceInv, UnusedHashes, StableLoan
<1> QED
  BY <1>9, <1>10, <1>11 DEF BalanceInv, ClosedRequests, ClosedLoans

\* A step that leaves the books and the token alone.
LEMMA BalanceRests ==
    ASSUME BalanceInv, UNCHANGED <<balances, stableLoans, claims, borrowRequests, loans, deposits, drift>>
    PROVE  BalanceInv'
BY PoolsRest DEF BalanceInv, BalanceIsAccountedFor, ClosedRequests, ClosedLoans, UnusedHashes

\* At deployment every pool is empty.
LEMMA InitBalance == Init => BalanceInv
<1> SUFFICES ASSUME Init PROVE BalanceInv
  OBVIOUS
<1>1. TypeOK
  BY InitType
<1> DEFINE f == [a \in Accounts |-> borrowRequests[a].collateral]
           g == [h \in Preimages |-> stableLoans[h].stableLoanAmount * (1 - claims[h])]
<1>2. /\ borrowRequests \in [Accounts -> BorrowRequest] /\ deposits \in [Pairs -> Nat]
      /\ stableLoans \in [Preimages -> StableLoan] /\ claims \in [Preimages -> Nat]
  BY <1>1 DEF TypeOK, StableTypeOK
<1>3. f \in [Accounts -> Int] /\ deposits \in [Pairs -> Int] /\ g \in [Preimages -> Int] /\ IsFiniteSet(Pairs)
  BY <1>2, PoolTypes
<1>4. /\ \A a \in Accounts : borrowRequests[a].collateral = 0
      /\ \A p \in Pairs : deposits[p] = 0
      /\ \A h \in Preimages : stableLoans[h].stableLoanAmount = 0 /\ claims[h] = 0
      /\ balances[This] = 0 /\ drift = 0
  BY DEF Init, StableInit, NoRequest, NoStableLoan
<1>5. (\A a \in Accounts : f[a] = 0) /\ (\A h \in Preimages : g[h] = 0)
  BY <1>4
<1>6. CollateralOfRequests = SumFunction(f) /\ UnclaimedStable = SumFunction(g)
  BY DEF CollateralOfRequests, UnclaimedStable
<1> HIDE DEF f, g
<1>7. CollateralOfRequests = 0 /\ CollateralOfLoans = 0 /\ UnclaimedStable = 0
  BY <1>3, <1>4, <1>5, <1>6, SumOfFunction, FiniteAssumption DEF CollateralOfLoans
<1> QED
  BY <1>4, <1>7 DEF BalanceInv, BalanceIsAccountedFor, ClosedRequests, ClosedLoans, UnusedHashes

\* Every transaction keeps the books.
LEMMA NextBalance == TypeOK /\ TypeOK' /\ BalanceInv /\ [Next]_vars => BalanceInv'
<1> SUFFICES ASSUME TypeOK, TypeOK', BalanceInv, [Next]_vars PROVE BalanceInv'
  OBVIOUS
<1>1. ASSUME NEW a \in Accounts, BorrowerStep(a) PROVE BalanceInv'
  BY <1>1, RequestBalance, CancelBalance, RepayBalance, AmountsAssumption DEF BorrowerStep
<1>2. ASSUME NEW a \in Accounts, LenderStep(a) PROVE BalanceInv'
  BY <1>2, LendBalance, LiquidateBalance DEF LenderStep
<1>3. ASSUME NEW a \in Accounts, StableStep(a) PROVE BalanceInv'
  BY <1>3, LendStableBalance, ClaimStableBalance, AmountsAssumption DEF StableStep
<1>4. ASSUME \/ setRoundData /\ UNCHANGED lendingVars
             \/ \E mode \in BOOLEAN : setTestMode(mode)
             \/ Tick
             \/ \E tx \in BtcPayment : ConfirmPayment(tx)
             \/ UNCHANGED vars
      PROVE  BalanceInv'
  <2>1. UNCHANGED <<balances, stableLoans, claims, borrowRequests, loans, deposits, drift>>
    BY <1>4 DEF setRoundData, setTestMode, Tick, ConfirmPayment, lendingVars, stableVars, vars
  <2> QED
    BY <2>1, BalanceRests
<1> QED
  BY <1>1, <1>2, <1>3, <1>4 DEF Next

(* The token balance of the contract is exactly what it owes to requests,   *)
(* loans and stable loans plus the accumulated re-pricing of closed loans,  *)
(* for every set of accounts, every price history and any number of claims: *)
(* no request is refunded twice, none funds two loans, and no payout is     *)
(* made outside the books.                                                  *)
THEOREM TheBooksBalance == Spec => []BalanceIsAccountedFor
<1>1. BalanceInv => BalanceIsAccountedFor
  BY DEF BalanceInv
<1> QED
  BY <1>1, InitBalance, NextBalance, TypeCorrect, PTL DEF Spec

=============================================================================
