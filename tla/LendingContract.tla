-------------------------- MODULE LendingContract --------------------------
(***************************************************************************)
(* P2PBTCLending.sol as a whole: BTC loans against stablecoin collateral   *)
(* (requestBorrow, cancelBorrowRequest, lend, repay, liquidate) next to    *)
(* the hash-locked stable loans of StableLending, which draw on the same   *)
(* token balance of the contract.                                          *)
(*                                                                         *)
(* The Bitcoin chain is external: btcChain is the set of payments the      *)
(* light client can prove.  signedPsbt, and the borrower and lender fields *)
(* of a Loan (equal to its two keys), are stored but never read and are    *)
(* left out.  uint256 arithmetic is checked by the compiler and cannot     *)
(* overflow for amounts a token supply can represent.                      *)
(***************************************************************************)
EXTENDS StableLending, FiniteSets, Functions

CONSTANTS
    BtcAmounts,        \* the BTC amounts users ask for (satoshis)
    Rates,             \* the interest rates borrowers propose (percent a year)
    Addresses,         \* non-empty BTC addresses
    NoAddress,         \* the empty byte string
    InitialBalance,    \* tokens every account holds at deployment
    MaxTime,           \* bound on block.timestamp (only for TLC)
    MaxClaims,         \* bound on the payouts of all hashes (only for TLC)
    MaxEntries,        \* bound on the loans and stable loans recorded (only for TLC)
    PRICE_SCALE,       \* 1e8, the decimals of the feeds
    SECONDS_PER_YEAR   \* 31536000, in the time unit of block.timestamp

ASSUME AmountsAssumption == BtcAmounts \subseteq Nat /\ Rates \subseteq Nat
ASSUME AddressAssumption == NoAddress \notin Addresses
\* Addresses have 160 bits and preimages 128.
ASSUME FiniteAssumption == IsFiniteSet(Accounts) /\ IsFiniteSet(Preimages)
ASSUME InitialBalanceAssumption == InitialBalance \in Nat
ASSUME BoundsAssumption == MaxTime \in Nat /\ MaxClaims \in Nat /\ MaxEntries \in Nat
ASSUME ScalesAssumption ==
    PRICE_SCALE \in Nat \ {0} /\ SECONDS_PER_YEAR \in Nat \ {0}

VARIABLES
    borrowRequests,    \* borrower |-> BorrowRequest
    loans,             \* <<lender, borrower>> |-> Loan
    testMode,          \* skip the light client when TRUE
    now,               \* block.timestamp
    btcChain,          \* payments included in a Bitcoin block (external)
    deposits,          \* history: collateral taken in for the loan of each pair
    drift              \* history: deposits minus payouts over closed loans

vars == <<stableVars, borrowRequests, loans, testMode, now, btcChain, deposits, drift>>

LIQUIDATION_THRESHOLD == 125
LIQUIDATION_BONUS == 5

Pairs == Accounts \X Accounts

BtcPayment == [value : BtcAmounts, addr : Addresses]

BorrowRequest ==
    [amount : Nat, collateral : Nat, interestRate : Nat,
     btcAddress : Addresses \cup {NoAddress}, active : BOOLEAN]

NoRequest ==
    [amount |-> 0, collateral |-> 0, interestRate |-> 0,
     btcAddress |-> NoAddress, active |-> FALSE]

Loan ==
    [borrowAmount : Nat, principal : Nat, interestRate : Nat, startDate : Nat,
     btcAddress : Addresses \cup {NoAddress}, active : BOOLEAN]

NoLoan ==
    [borrowAmount |-> 0, principal |-> 0, interestRate |-> 0, startDate |-> 0,
     btcAddress |-> NoAddress, active |-> FALSE]

\* The type of the contract's storage; no balance is negative.
TypeOK ==
    /\ StableTypeOK
    /\ borrowRequests \in [Accounts -> BorrowRequest]
    /\ loans \in [Pairs -> Loan]
    /\ testMode \in BOOLEAN
    /\ now \in Nat
    /\ btcChain \subseteq BtcPayment
    /\ deposits \in [Pairs -> Nat]
    /\ drift \in Int

Init ==
    /\ StableInit(InitialBalance)
    /\ borrowRequests = [a \in Accounts |-> NoRequest]
    /\ loans = [p \in Pairs |-> NoLoan]
    /\ testMode = TRUE
    /\ now = 0
    /\ btcChain = {}
    /\ deposits = [p \in Pairs |-> 0]
    /\ drift = 0

----------------------------------------------------------------------------
(* The view functions that price collateral and debt.                      *)

getStableCollateralAmount(amount) ==
    (amount * btcPrice * COLLATERAL_RATIO) \div (collateralPrice * 100)

getCurrentCollateralValue(collateralAmount) ==
    (collateralAmount * collateralPrice) \div PRICE_SCALE

calculateInterest(loan) ==
    (loan.principal * loan.interestRate * (now - loan.startDate))
        \div (SECONDS_PER_YEAR * 100)

getCurrentLoanValue(loan) ==
    ((loan.principal + calculateInterest(loan)) * btcPrice) \div PRICE_SCALE

\* The condition of liquidate, on the collateral recomputed from borrowAmount.
Liquidatable(loan) ==
    getCurrentCollateralValue(getStableCollateralAmount(loan.borrowAmount)) * 100
        < getCurrentLoanValue(loan) * LIQUIDATION_THRESHOLD

----------------------------------------------------------------------------
(* The external functions.                                                 *)

requestBorrow(sender, amount, interestRate, btcAddress) ==
    LET collateralAmount == getStableCollateralAmount(amount)
    IN  /\ amount > 0
        /\ btcAddress # NoAddress
        /\ ~borrowRequests[sender].active
        /\ ValidPrices
        /\ CanPay(sender, collateralAmount)
        /\ balances' = Transfer(balances, sender, This, collateralAmount)
        /\ borrowRequests' = [borrowRequests EXCEPT ![sender] =
               [amount |-> amount, collateral |-> collateralAmount,
                interestRate |-> interestRate, btcAddress |-> btcAddress,
                active |-> TRUE]]
        /\ UNCHANGED <<feedVars, stableLoans, claims, loans, testMode, now,
                       btcChain, deposits, drift>>

\* Mutant: the refunded request is not deleted.
cancelKeepsRequest(sender) ==
    /\ borrowRequests[sender].active
    /\ CanPay(This, borrowRequests[sender].collateral)
    /\ balances' = Transfer(balances, This, sender, borrowRequests[sender].collateral)
    /\ UNCHANGED <<feedVars, stableLoans, claims, borrowRequests, loans, testMode, now,
                   btcChain, deposits, drift>>

cancelBorrowRequest(sender) ==
    /\ borrowRequests[sender].active
    /\ CanPay(This, borrowRequests[sender].collateral)
    /\ balances' = Transfer(balances, This, sender, borrowRequests[sender].collateral)
    /\ borrowRequests' = [borrowRequests EXCEPT ![sender] = NoRequest]
    /\ UNCHANGED <<feedVars, stableLoans, claims, loans, testMode, now,
                   btcChain, deposits, drift>>

\* The entries of the two mappings that are in use, active or closed, bounded
\* together: two loans beside one stable loan, or one beside two.
UsedPairs == {p \in Pairs : loans[p] # NoLoan}
UsedHashes == {h \in Preimages : stableLoans[h].collateralAmount > 0}
RoomForEntry == Cardinality(UsedPairs) + Cardinality(UsedHashes) < MaxEntries

\* Mutant: the funded request is not deleted.
lendKeepsRequest(sender, borrower, tx) ==
    LET request == borrowRequests[borrower]
        pair == <<sender, borrower>>
    IN  /\ request.active
        /\ ~loans[pair].active
        /\ pair \in UsedPairs \/ RoomForEntry
        /\ testMode \/ tx \in btcChain
        /\ tx.value = request.amount
        /\ tx.addr = request.btcAddress
        /\ loans' = [loans EXCEPT ![pair] =
               [borrowAmount |-> request.amount, principal |-> request.amount,
                interestRate |-> request.interestRate, startDate |-> now,
                btcAddress |-> request.btcAddress, active |-> TRUE]]
        /\ deposits' = [deposits EXCEPT ![pair] = request.collateral]
        /\ UNCHANGED <<stableVars, borrowRequests, testMode, now, btcChain, drift>>

\* lend keeps amount and rate of the request and drops its collateral field.
lend(sender, borrower, tx) ==
    LET request == borrowRequests[borrower]
        pair == <<sender, borrower>>
    IN  /\ request.active
        /\ ~loans[pair].active
        /\ pair \in UsedPairs \/ RoomForEntry
        /\ testMode \/ tx \in btcChain
        /\ tx.value = request.amount
        /\ tx.addr = request.btcAddress
        /\ loans' = [loans EXCEPT ![pair] =
               [borrowAmount |-> request.amount, principal |-> request.amount,
                interestRate |-> request.interestRate, startDate |-> now,
                btcAddress |-> request.btcAddress, active |-> TRUE]]
        /\ borrowRequests' = [borrowRequests EXCEPT ![borrower] = NoRequest]
        /\ deposits' = [deposits EXCEPT ![pair] = request.collateral]
        /\ UNCHANGED <<stableVars, testMode, now, btcChain, drift>>

\* The borrower gets the collateral priced now; no BTC payment is looked at.
repay(sender, lender) ==
    LET pair == <<lender, sender>>
        collateralAmount == getStableCollateralAmount(loans[pair].borrowAmount)
    IN  /\ loans[pair].active
        /\ ValidPrices
        /\ CanPay(This, collateralAmount)
        /\ balances' = Transfer(balances, This, sender, collateralAmount)
        /\ loans' = [loans EXCEPT ![pair].active = FALSE]
        /\ drift' = drift + deposits[pair] - collateralAmount
        /\ deposits' = [deposits EXCEPT ![pair] = 0]
        /\ UNCHANGED <<feedVars, stableLoans, claims, borrowRequests, testMode,
                       now, btcChain>>

liquidate(sender, borrower, lender) ==
    LET pair == <<lender, borrower>>
        collateralAmount == getStableCollateralAmount(loans[pair].borrowAmount)
        liquidatorReward == (collateralAmount * LIQUIDATION_BONUS) \div 100
        remainingCollateral == collateralAmount - liquidatorReward
    IN  /\ loans[pair].active
        /\ ValidPrices
        /\ Liquidatable(loans[pair])
        /\ CanPay(This, collateralAmount)
        /\ balances' = Transfer(Transfer(balances, This, sender, liquidatorReward),
                                This, lender, remainingCollateral)
        /\ loans' = [loans EXCEPT ![pair].active = FALSE]
        /\ drift' = drift + deposits[pair] - collateralAmount
        /\ deposits' = [deposits EXCEPT ![pair] = 0]
        /\ UNCHANGED <<feedVars, stableLoans, claims, borrowRequests, testMode,
                       now, btcChain>>

setTestMode(mode) ==
    /\ testMode' = mode
    /\ UNCHANGED <<stableVars, borrowRequests, loans, now, btcChain, deposits, drift>>

----------------------------------------------------------------------------
(* The environment: time and the Bitcoin chain.                            *)

Tick ==
    /\ now < MaxTime
    /\ now' = now + 1
    /\ UNCHANGED <<stableVars, borrowRequests, loans, testMode, btcChain, deposits, drift>>

ConfirmPayment(tx) ==
    /\ tx \notin btcChain
    /\ btcChain' = btcChain \cup {tx}
    /\ UNCHANGED <<stableVars, borrowRequests, loans, testMode, now, deposits, drift>>

lendingVars == <<borrowRequests, loans, testMode, now, btcChain, deposits, drift>>

BorrowerStep(a) ==
    \/ \E amount \in BtcAmounts, rate \in Rates, addr \in Addresses \cup {NoAddress} :
           requestBorrow(a, amount, rate, addr)
    \/ cancelBorrowRequest(a)
    \/ \E lender \in Accounts : repay(a, lender)

LenderStep(a) ==
    \/ \E borrower \in Accounts, tx \in BtcPayment : lend(a, borrower, tx)
    \/ \E borrower, lender \in Accounts : liquidate(a, borrower, lender)

StableStep(a) ==
    /\ \/ \E h \in Preimages, amount \in BtcAmounts :
              RoomForEntry /\ lendStable(a, h, amount)
       \/ \E p \in Preimages : SumFunction(claims) < MaxClaims /\ claimStable(a, p)
    /\ UNCHANGED lendingVars

Next ==
    \/ \E a \in Accounts : BorrowerStep(a) \/ LenderStep(a) \/ StableStep(a)
    \/ setRoundData /\ UNCHANGED lendingVars
    \/ \E mode \in BOOLEAN : setTestMode(mode)
    \/ Tick
    \/ \E tx \in BtcPayment : ConfirmPayment(tx)

Spec == Init /\ [][Next]_vars

----------------------------------------------------------------------------
(* Properties.                                                             *)

\* What the contract owes: the collateral of open requests and of active loans
\* as it was deposited, and the stable loans that have not been claimed.
CollateralOfRequests == SumFunction([a \in Accounts |-> borrowRequests[a].collateral])
CollateralOfLoans == SumFunction(deposits)
UnclaimedStable ==
    SumFunction([h \in Preimages |-> stableLoans[h].stableLoanAmount * (1 - claims[h])])

(* The token balance of the contract is exactly what it owes plus the      *)
(* accumulated difference between the collateral deposited for loans and   *)
(* the collateral paid out when they were repaid or liquidated; a hash     *)
(* claimed n times counts 1 - n times.  So the three pools that share one  *)
(* balance (requests, loans, stable loans) can only be short because       *)
(* repay/liquidate re-price the collateral or because a hash is claimed    *)
(* more than once (P2PBTCLending.sol:160, 171 and 203), never because a    *)
(* request is refunded twice or funds two loans.                           *)
BalanceIsAccountedFor ==
    balances[This] = CollateralOfRequests + CollateralOfLoans + UnclaimedStable + drift

(* A recorded stable loan is final: its two amounts never change again and *)
(* the preimage stored with it is only ever the preimage of its own hash.  *)
(* The lender reads that preimage back to spend the Bitcoin escrow         *)
(* (lendStable 190, claimStable 204).                                      *)
StableLoanIsFinal ==
    [][\A h \in Preimages :
         /\ stableLoans[h].collateralAmount > 0 =>
              /\ stableLoans'[h].collateralAmount = stableLoans[h].collateralAmount
              /\ stableLoans'[h].stableLoanAmount = stableLoans[h].stableLoanAmount
         /\ stableLoans'[h].borrowerPreimage # stableLoans[h].borrowerPreimage =>
              /\ stableLoans'[h].borrowerPreimage = h
              /\ stableLoans[h].collateralAmount > 0]_vars

(* A request funds at most one loan, with its own terms: when a loan       *)
(* becomes active its borrower's request was open with the same amount,    *)
(* rate and address, it is gone afterwards, and no other loan starts in    *)
(* the same transaction (lend 117-145).                                    *)
RequestFundsOneLoan ==
    [][\A p \in Pairs :
         (~loans[p].active /\ loans'[p].active) =>
            LET request == borrowRequests[p[2]]
            IN  /\ request.active
                /\ ~borrowRequests'[p[2]].active
                /\ loans'[p].principal = request.amount
                /\ loans'[p].borrowAmount = request.amount
                /\ loans'[p].interestRate = request.interestRate
                /\ loans'[p].btcAddress = request.btcAddress
                /\ deposits'[p] = request.collateral
                /\ \A q \in Pairs \ {p} : loans'[q] = loans[q]]_vars

\* A loan is large enough for the three integer divisions of the liquidation
\* test to lose less than the 25% margin between the two ratios.
AboveRounding(loan) == loan.principal * btcPrice >= 4 * (collateralPrice + PRICE_SCALE)

(* Prices alone never make a loan liquidatable: the collateral is          *)
(* recomputed at the current prices (171), so above the rounding limit a   *)
(* loan is liquidatable only once interest has accrued, whatever the two   *)
(* feeds did since it started.  This is why LiquidatedWhenBelowThreshold   *)
(* fails.                                                                  *)
OnlyInterestLiquidates ==
    \A p \in Pairs :
        (loans[p].active /\ ValidPrices /\ AboveRounding(loans[p]) /\ Liquidatable(loans[p]))
            => calculateInterest(loans[p]) > 0

(* The ratio of the collateral deposited for a loan to its debt, at the    *)
(* prices the feeds report now, is below LIQUIDATION_THRESHOLD.            *)
BelowThreshold(pair) ==
    getCurrentCollateralValue(deposits[pair]) * 100
        < getCurrentLoanValue(loans[pair]) * LIQUIDATION_THRESHOLD

(* What diagrams/liquidation.md:6-13 says of liquidate: an active loan     *)
(* whose collateral ratio is below the threshold passes the check and is   *)
(* liquidated.  The code compares the debt with the collateral it would    *)
(* ask for today (171), not with the collateral it holds.                  *)
LiquidatedWhenBelowThreshold ==
    \A p \in Pairs :
        (loans[p].active /\ ValidPrices /\ BelowThreshold(p)) => Liquidatable(loans[p])

=============================================================================
