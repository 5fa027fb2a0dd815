--------------------------- MODULE StableLending ---------------------------
(***************************************************************************)
(* The stablecoin half of P2PBTCLending.sol: the token balances the        *)
(* contract moves, the two price feeds it reads, and the hash-locked loans *)
(* created by lendStable and paid out by claimStable.                      *)
(*                                                                         *)
(* Every external function of the contract is one EVM transaction: it      *)
(* either runs to its end or reverts and changes nothing.  A require is a  *)
(* conjunct of the action's guard, so a reverted call is no step at all.   *)
(* The token is external (an ERC20 that moves exactly the requested amount *)
(* or fails); an allowance that is too small is one more reason to revert. *)
(*                                                                         *)
(* sha256 is taken as collision free, so a hash is named by its preimage:  *)
(* stableLoans[p] is the contract's stableLoans[sha256(p)].                *)
(***************************************************************************)
EXTENDS Integers

CONSTANTS
    Accounts,          \* externally owned accounts (borrowers, lenders, liquidators)
    This,              \* the address of the lending contract
    Preimages,         \* the uint128 preimages, 0 being the storage default
    BtcPrices,         \* the answers the BTC feed may report (int256)
    CollateralPrices   \* the answers the collateral feed may report (int256)

ASSUME AccountsAssumption == This \notin Accounts
ASSUME PreimagesAssumption == Preimages \subseteq Nat
ASSUME PricesAssumption == BtcPrices \subseteq Int /\ CollateralPrices \subseteq Int

VARIABLES
    balances,          \* stableToken balances, the contract's own included
    btcPrice,          \* btcPriceFeed.latestRoundData().answer
    collateralPrice,   \* collateralPriceFeed.latestRoundData().answer
    stableLoans,       \* hash |-> StableLoan
    claims             \* history: how many times each hash was paid out

feedVars == <<btcPrice, collateralPrice>>
stableVars == <<balances, btcPrice, collateralPrice, stableLoans, claims>>

COLLATERAL_RATIO == 150

StableLoan ==
    [collateralAmount : Nat, stableLoanAmount : Nat, borrowerPreimage : Nat]

NoStableLoan ==
    [collateralAmount |-> 0, stableLoanAmount |-> 0, borrowerPreimage |-> 0]

StableTypeOK ==
    /\ balances \in [Accounts \cup {This} -> Nat]
    /\ btcPrice \in BtcPrices
    /\ collateralPrice \in CollateralPrices
    /\ stableLoans \in [Preimages -> StableLoan]
    /\ claims \in [Preimages -> Nat]

StableInit(initialBalance) ==
    /\ balances = [a \in Accounts \cup {This} |-> IF a = This THEN 0 ELSE initialBalance]
    /\ btcPrice \in BtcPrices
    /\ collateralPrice \in CollateralPrices
    /\ stableLoans = [h \in Preimages |-> NoStableLoan]
    /\ claims = [h \in Preimages |-> 0]

\* Mutant: a token that lets the payer go below zero.
CanAlwaysPay(from, amount) == TRUE

\* IERC20.transfer / transferFrom: fails when the payer's balance is too small.
CanPay(from, amount) == balances[from] >= amount

Transfer(bal, from, to, amount) ==
    [bal EXCEPT ![from] = @ - amount, ![to] = @ + amount]

\* require(btcPrice > 0 && collateralPrice > 0, "Invalid price data")
ValidPrices == btcPrice > 0 /\ collateralPrice > 0

getStableLoanAmount(btcCollateralAmount) ==
    (btcCollateralAmount * collateralPrice * 100) \div (btcPrice * COLLATERAL_RATIO)

\* Mutant: the check that the hash is unused is missing.
lendStableAgain(sender, borrowerHash, btcCollateralAmount) ==
    LET stableLoanAmount == getStableLoanAmount(btcCollateralAmount)
    IN  /\ btcCollateralAmount > 0
        /\ ValidPrices
        /\ CanPay(sender, stableLoanAmount)
        /\ balances' = Transfer(balances, sender, This, stableLoanAmount)
        /\ stableLoans' = [stableLoans EXCEPT
               ![borrowerHash].collateralAmount = btcCollateralAmount,
               ![borrowerHash].stableLoanAmount = stableLoanAmount]
        /\ UNCHANGED <<feedVars, claims>>

lendStable(sender, borrowerHash, btcCollateralAmount) ==
    LET stableLoanAmount == getStableLoanAmount(btcCollateralAmount)
    IN  /\ btcCollateralAmount > 0
        /\ stableLoans[borrowerHash].collateralAmount = 0
        /\ ValidPrices
        /\ CanPay(sender, stableLoanAmount)
        /\ balances' = Transfer(balances, sender, This, stableLoanAmount)
        /\ stableLoans' = [stableLoans EXCEPT
               ![borrowerHash] = [collateralAmount |-> btcCollateralAmount,
                                  stableLoanAmount |-> stableLoanAmount,
                                  borrowerPreimage |-> @.borrowerPreimage]]
        /\ UNCHANGED <<feedVars, claims>>

\* Mutant: the preimage is published without the payout.
claimStableUnpaid(sender, borrowerPreimage) ==
    /\ stableLoans[borrowerPreimage].collateralAmount > 0
    /\ stableLoans' = [stableLoans EXCEPT
           ![borrowerPreimage].borrowerPreimage = borrowerPreimage]
    /\ UNCHANGED <<balances, claims, feedVars>>

\* The payout leaves stableLoanAmount in place: the same preimage may claim again.
claimStable(sender, borrowerPreimage) ==
    /\ stableLoans[borrowerPreimage].collateralAmount > 0
    /\ CanPay(This, stableLoans[borrowerPreimage].stableLoanAmount)
    /\ balances' = Transfer(balances, This, sender,
                            stableLoans[borrowerPreimage].stableLoanAmount)
    /\ stableLoans' = [stableLoans EXCEPT
           ![borrowerPreimage].borrowerPreimage = borrowerPreimage]
    /\ claims' = [claims EXCEPT ![borrowerPreimage] = @ + 1]
    /\ UNCHANGED feedVars

\* SimplePriceFeed.setRoundData on one of the two feeds.
setRoundData ==
    \/ /\ btcPrice' \in BtcPrices
       /\ UNCHANGED <<balances, collateralPrice, stableLoans, claims>>
    \/ /\ collateralPrice' \in CollateralPrices
       /\ UNCHANGED <<balances, btcPrice, stableLoans, claims>>

=============================================================================
