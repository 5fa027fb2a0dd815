------------------------------ MODULE Funding ------------------------------
(***************************************************************************)
(* The coins of one node: the wallet that reserves them (simple-wallet and *)
(* its tree in dlc-sled-storage-provider), the contracts, channels and     *)
(* loans that take them, and the amounts of the transactions they go into. *)
(*                                                                         *)
(* A failure ends the command or the process and is only recorded: nothing *)
(* of it is stored but the reservations. Change outputs come back as coins *)
(* that the wallet receives.                                               *)
(***************************************************************************)
EXTENDS Transactions, FiniteSets

CONSTANTS
    NbCoins,       \* the coins are 1 .. NbCoins, in the order of the wallet's tree
    Values,        \* the values they can have: a set of functions
    Deals,         \* the contracts, channels and loans under way
    Collateral,    \* what the node puts into one
    PeerParams,    \* the other node's side of a contract: [inputs, amount, collateral]
    FeeRates,      \* fee rates, in satoshi per vbyte
    Payouts        \* the payouts of a loan: a set of sequences of [offer, accept]

Coins == 1 .. NbCoins

ASSUME CoinsAssumption == NbCoins \in Nat /\ Values \subseteq [Coins -> Nat]
ASSUME AmountsAssumption == Collateral \in Nat /\ FeeRates \subseteq Nat
ASSUME PayoutsAssumption ==
    Payouts \subseteq Seq([offer : Nat, accept : Nat]) /\ <<>> \notin Payouts

VARIABLES
    value,       \* per coin its value
    onchain,     \* per coin "future" (not received yet), "unspent" or "spent"
    utxos,       \* the wallet's tree: per coin "absent", "free" or "reserved"
    deals,       \* per deal how far it is, the coins reserved for it and its amounts
    escrows,     \* the escrow transactions that were sent
    failures,    \* how attempts to build transactions failed
    meddled      \* did the user unreserve all coins or empty the wallet

vars == <<value, onchain, utxos, deals, escrows, failures, meddled>>

States == {"none", "offered", "received", "channel_offered", "rejected", "failed_accept",
           "accepted", "signed", "loan_received", "escrow", "loan_accepted", "closed"}

NewDeal == [state |-> "none", rate |-> 0, inputs |-> {}, escrow |-> 0, collateral |-> 0,
            payouts |-> <<>>, cets |-> <<>>, refund |-> <<>>,
            cet |-> 0, pnl |-> [offer |-> 0, accept |-> 0]]

Init ==
    /\ value \in Values
    /\ onchain = [c \in Coins |-> "future"]
    /\ utxos = [c \in Coins |-> "absent"]
    /\ deals = [d \in Deals |-> NewDeal]
    /\ escrows = {}
    /\ failures = {}
    /\ meddled = FALSE

ValueOf(S) == FoldSet(LAMBDA c, acc : value[c] + acc, 0, S)
Params(S) == [inputs |-> Cardinality(S), amount |-> ValueOf(S), collateral |-> Collateral]
-----------------------------------------------------------------------------
(***************************************************************************)
(* The wallet.                                                             *)
(***************************************************************************)
\* External: a coin is paid to an address of the wallet.
Receive(c) ==
    /\ onchain[c] = "future"
    /\ onchain' = [onchain EXCEPT ![c] = "unspent"]
    /\ UNCHANGED <<value, utxos, deals, escrows, failures, meddled>>

\* Mutant: a coin the tree has is written again, as unreserved.
refresh_overwrites ==
    /\ utxos' = [c \in Coins |-> IF onchain[c] = "unspent" THEN "free"
                                 ELSE IF onchain[c] = "spent" THEN "absent" ELSE utxos[c]]
    /\ UNCHANGED <<value, onchain, deals, escrows, failures, meddled>>

\* Spent coins leave the tree, unspent ones it does not have come in.
refresh ==
    /\ utxos' = [c \in Coins |->
                    CASE onchain[c] = "spent" -> "absent"
                      [] onchain[c] = "unspent" /\ utxos[c] = "absent" -> "free"
                      [] OTHER -> utxos[c]]
    /\ UNCHANGED <<value, onchain, deals, escrows, failures, meddled>>

unreserve_all_utxos ==
    /\ utxos' = [c \in Coins |-> IF utxos[c] = "reserved" THEN "free" ELSE utxos[c]]
    /\ meddled' = TRUE
    /\ UNCHANGED <<value, onchain, deals, escrows, failures>>

\* Reserved coins are sent too. The transaction is invalid if one of them was spent.
empty_to_address ==
    LET S == {c \in Coins : utxos[c] # "absent"}
    IN  /\ S # {} /\ \A c \in S : onchain[c] = "unspent"
        /\ onchain' = [c \in Coins |-> IF c \in S THEN "spent" ELSE onchain[c]]
        /\ meddled' = TRUE
        /\ UNCHANGED <<value, utxos, deals, escrows, failures>>

\* External: OldestFirstCoinSelection takes coins in the order given until they cover the
\* amount and the fee of their inputs. The set has one member, or none when that fails.
coin_select(free, amount, rate) ==
    LET InputFee == ((TX_INPUT_BASE_WEIGHT + P2WPKH_WITNESS_SIZE) * rate + 3) \div 4
        First(k) == {c \in free : Cardinality({b \in free : b <= c}) <= k}
        Covers(S) == ValueOf(S) >= amount + Cardinality(S) * InputFee
        enough == {k \in 0 .. Cardinality(free) : Covers(First(k))}
    IN  IF enough = {} THEN {} ELSE {First(Min(enough))}

get_utxos_for_amount(amount, rate) ==
    coin_select({c \in Coins : utxos[c] = "free"}, amount, rate)

\* get_party_params: the coins for a collateral. They are reserved (lock_utxos).
get_party_params(collateral, rate) ==
    get_utxos_for_amount(collateral + get_half_common_fee(rate) + weight_to_fee(124, rate), rate)

Reserve(S) == utxos' = [c \in Coins |-> IF c \in S THEN "reserved" ELSE utxos[c]]
unreserve_utxos(S) == utxos' = [c \in Coins |-> IF c \in S THEN "free" ELSE utxos[c]]
-----------------------------------------------------------------------------
(***************************************************************************)
(* Contracts and channels.                                                 *)
(***************************************************************************)
\* offer_contract, or offer_channel for a channel.
Offer(d, state) ==
    /\ deals[d].state = "none"
    /\ \E rate \in FeeRates : \E S \in get_party_params(Collateral, rate) :
        /\ Reserve(S)
        /\ deals' = [deals EXCEPT ![d] = [NewDeal EXCEPT !.state = state, !.rate = rate,
                                                         !.inputs = S]]
    /\ UNCHANGED <<value, onchain, escrows, failures, meddled>>

\* The answer of the other node: create_dlc_transactions, whose Err accept_fail_on_error
\* stores.
on_accept_message(d) ==
    /\ deals[d].state = "offered"
    /\ LET fund == create_fund_transaction_with_fees(Params(deals[d].inputs), PeerParams,
                                                     deals[d].rate, 0)
       IN  /\ failures' = failures \cup ({fund.status} \ {"ok"})
           /\ deals' = [deals EXCEPT ![d].state = CASE fund.status = "ok" -> "signed"
                                                    [] fund.status = "err" -> "failed_accept"
                                                    [] OTHER -> @]
    /\ UNCHANGED <<value, onchain, utxos, escrows, meddled>>

\* The other node's offer, of a contract or a loan.
ReceiveOffer(d, state) ==
    /\ deals[d].state = "none"
    /\ \E rate \in FeeRates :
        deals' = [deals EXCEPT ![d] = [NewDeal EXCEPT !.state = state, !.rate = rate]]
    /\ UNCHANGED <<value, onchain, utxos, escrows, failures, meddled>>

\* accept_contract: the coins are reserved before the transactions are tried.
accept_contract_offer(d) ==
    /\ deals[d].state = "received"
    /\ \E S \in get_party_params(Collateral, deals[d].rate) :
        LET fund == create_fund_transaction_with_fees(PeerParams, Params(S), deals[d].rate, 0)
        IN  /\ Reserve(S)
            /\ failures' = failures \cup ({fund.status} \ {"ok"})
            /\ deals' = IF fund.status = "ok"
                        THEN [deals EXCEPT ![d].state = "accepted", ![d].inputs = S] ELSE deals
    /\ UNCHANGED <<value, onchain, escrows, meddled>>

\* The other node rejects the channel: its coins are given back. A coin that is not in the
\* tree any more ends the loop with an error.
on_reject(d) ==
    /\ deals[d].state = "channel_offered"
    /\ \A c \in deals[d].inputs : utxos[c] # "absent"
    /\ unreserve_utxos(deals[d].inputs)
    /\ deals' = [deals EXCEPT ![d] = [NewDeal EXCEPT !.state = "rejected"]]
    /\ UNCHANGED <<value, onchain, escrows, failures, meddled>>
-----------------------------------------------------------------------------
(***************************************************************************)
(* Loans: the node is the borrower.                                        *)
(***************************************************************************)
\* send_escrow_transaction with its extra fee of 300. May be called again.
send_escrow_transaction(d) ==
    /\ deals[d].state \in {"loan_received", "escrow"}
    /\ \E S \in get_party_params(Collateral, deals[d].rate) :
        LET escrow == create_escrow_transaction(Params(S), deals[d].rate, 300)
        IN  /\ Reserve(S)
            /\ IF escrow.status = "ok"
               THEN /\ escrows' = escrows \cup {[inputs |-> S, value |-> escrow.value,
                                                 change |-> escrow.change]}
                    /\ deals' = [deals EXCEPT ![d].state = "escrow",
                                              ![d].escrow = escrow.value]
                    /\ UNCHANGED failures
               ELSE failures' = failures \cup {escrow.status} /\ UNCHANGED <<escrows, deals>>
    /\ UNCHANGED <<value, onchain, meddled>>

\* External: an escrow transaction is mined.
Mine(tx) ==
    /\ \A c \in tx.inputs : onchain[c] = "unspent"
    /\ onchain' = [c \in Coins |-> IF c \in tx.inputs THEN "spent" ELSE onchain[c]]
    /\ UNCHANGED <<value, utxos, deals, escrows, failures, meddled>>

\* accept_loan_contract: get_party_params is called a second time, and its coins are the
\* funding inputs of the contract.
accept_loan_contract(d) ==
    /\ deals[d].state = "escrow"
    /\ \E S \in get_party_params(Collateral, deals[d].rate), payouts \in Payouts,
          offer_first \in BOOLEAN :
        LET txs == create_loan_expiration_dlc_transactions(
                       create_collateral_transaction(deals[d].escrow), payouts, Collateral,
                       offer_first)
        IN  /\ Reserve(S)
            /\ failures' = failures \cup ({txs.status} \ {"ok"})
            /\ deals' = IF txs.status # "ok" THEN deals
                        ELSE [deals EXCEPT
                                 ![d] = [@ EXCEPT !.state = "loan_accepted", !.inputs = S,
                                                  !.collateral = txs.fund, !.payouts = payouts,
                                                  !.cets = txs.cets, !.refund = txs.refund]]
    /\ UNCHANGED <<value, onchain, escrows, meddled>>

\* A CET is mined: each node records its profit and loss.
Close(d) ==
    /\ deals[d].state = "loan_accepted"
    /\ \E i \in DOMAIN deals[d].cets :
        LET cet == deals[d].cets[i]
        IN  deals' = [deals EXCEPT
                ![d] = [@ EXCEPT !.state = "closed", !.cet = i,
                                 !.pnl = [offer  |-> compute_pnl(cet, "offer", 0),
                                          accept |-> compute_pnl(cet, "accept", Collateral)]]]
    /\ UNCHANGED <<value, onchain, utxos, escrows, failures, meddled>>
-----------------------------------------------------------------------------
Wallet == refresh \/ unreserve_all_utxos \/ empty_to_address \/ \E c \in Coins : Receive(c)

Next ==
    \/ Wallet
    \/ \E d \in Deals : \/ Offer(d, "offered") \/ Offer(d, "channel_offered")
                        \/ ReceiveOffer(d, "received") \/ ReceiveOffer(d, "loan_received")
                        \/ on_accept_message(d) \/ accept_contract_offer(d) \/ on_reject(d)
                        \/ send_escrow_transaction(d) \/ accept_loan_contract(d) \/ Close(d)
    \/ \E tx \in escrows : Mine(tx)

Spec == Init /\ [][Next]_vars
-----------------------------------------------------------------------------
\* Amounts are never negative, in particular the change of an escrow.
TypeOK ==
    /\ value \in Values
    /\ onchain \in [Coins -> {"future", "unspent", "spent"}]
    /\ utxos \in [Coins -> {"absent", "free", "reserved"}]
    /\ \A d \in Deals : /\ deals[d].state \in States
                        /\ deals[d].inputs \subseteq Coins
                        /\ deals[d].escrow \in Nat /\ deals[d].collateral \in Nat
    /\ \A tx \in escrows : tx.inputs \subseteq Coins /\ tx.value \in Nat /\ tx.change \in Nat
    /\ failures \subseteq {"err", "panic", "assertion"}
    /\ meddled \in BOOLEAN

\* Coins are promised once: no two of the open contracts, channels, accepted loans and sent
\* escrows take the same coin, and a coin that any of them takes is not free in the wallet,
\* unless the user has unreserved coins by hand or emptied the wallet.
CoinsFundOneContract ==
    ~meddled =>
        /\ \A d, e \in Deals : d # e => deals[d].inputs \cap deals[e].inputs = {}
        /\ \A tx, other \in escrows : tx # other => tx.inputs \cap other.inputs = {}
        /\ \A d \in Deals, tx \in escrows : deals[d].inputs \cap tx.inputs = {}
        /\ \A c \in UNION ({deals[d].inputs : d \in Deals} \cup {tx.inputs : tx \in escrows}) :
              utxos[c] # "free"

\* Each transaction of a loan is paid for by the one before it, down to every CET and the
\* refund, which two nodes sign long before they know whether the network will take them.
LoanTransactionsAreCovered ==
    /\ \A tx \in escrows : ValueOf(tx.inputs) > tx.value + tx.change
    /\ \A d \in Deals : deals[d].state \in {"loan_accepted", "closed"} =>
          /\ deals[d].escrow > deals[d].collateral
          /\ deals[d].collateral > Paid(deals[d].refund)
          /\ \A i \in DOMAIN deals[d].cets : deals[d].collateral > Paid(deals[d].cets[i])

\* What one party wins the other loses, and both records of a closed contract say what was
\* agreed for the outcome, but for an output under the dust limit, which nobody gets.
PnlIsWhatWasAgreed ==
    \A d \in Deals : deals[d].state = "closed" =>
        LET agreed == deals[d].payouts[deals[d].cet]
            lost == [offer  |-> agreed.offer - deals[d].pnl.offer,
                     accept |-> agreed.accept - Collateral - deals[d].pnl.accept]
        IN  /\ lost.offer \in 0 .. (DUST_LIMIT - 1) /\ lost.accept \in 0 .. (DUST_LIMIT - 1)
            /\ lost.offer + lost.accept = Collateral - Paid(deals[d].cets[deals[d].cet])

\* create_fund_transaction_with_fees asserts it, and the test create_dlc_transactions_no_error
\* expects it: the fund output is the collateral of both parties and the fee of a CET.
FundAssertionHolds == "assertion" \notin failures

=============================================================================
