---------------------------- MODULE Transactions ----------------------------
(***************************************************************************)
(* The amounts of the transactions of a contract or a loan                 *)
(* (dlc/src/lib.rs and dlc/src/util.rs, contract/accepted_contract.rs).    *)
(*                                                                         *)
(* A party's parameters are [inputs, amount, collateral]: how many P2WPKH  *)
(* coins it puts in, their sum and its collateral; its change and payout   *)
(* scripts are P2WPKH too. Outputs are [to, value]. A subtraction of two   *)
(* Amounts panics below zero: the status "panic", beside "ok" and "err".   *)
(***************************************************************************)
EXTENDS Integers, Sequences, FiniteSetsExt

DUST_LIMIT == 1000
FUND_TX_BASE_WEIGHT == 400
CET_BASE_WEIGHT == 500
TX_INPUT_BASE_WEIGHT == 164
P2WPKH_WITNESS_SIZE == 107
P2WPKH_SCRIPT_WEIGHT == 22 * 4

weight_to_fee(weight, fee_rate) == ((weight + 3) \div 4) * fee_rate
get_common_fee(fee_rate) == weight_to_fee(FUND_TX_BASE_WEIGHT + CET_BASE_WEIGHT, fee_rate)
get_half_common_fee(fee_rate) == (get_common_fee(fee_rate) + 1) \div 2

\* What get_change_output_and_fees charges a party with that many inputs.
FundFee(inputs, fee_rate) ==
    weight_to_fee(FUND_TX_BASE_WEIGHT \div 2
                  + inputs * (TX_INPUT_BASE_WEIGHT + P2WPKH_WITNESS_SIZE)
                  + P2WPKH_SCRIPT_WEIGHT + 36, fee_rate)
CollateralFee(fee_rate) ==
    weight_to_fee((8 + 4 + 4) + (TX_INPUT_BASE_WEIGHT + 32 * 4) + (8 + 4 + (32 + 2) * 4), fee_rate)
CetFee(fee_rate) == weight_to_fee(CET_BASE_WEIGHT \div 2 + P2WPKH_SCRIPT_WEIGHT, fee_rate)

\* Mutant: the fee of the collateral transaction is left in the change.
change_without_collateral_fee(params, fee_rate, extra_fee) ==
    LET fund_fee == FundFee(params.inputs, fee_rate)
        cet_fee  == CetFee(fee_rate)
        required == params.collateral + fund_fee + cet_fee + extra_fee
    IN  [status |-> IF params.amount < required THEN "err" ELSE "ok",
         change |-> params.amount - required, fund_fee |-> fund_fee, cet_fee |-> cet_fee]

\* Mutant: the 100 are taken without a look at what is left.
change_unchecked(params, fee_rate, extra_fee) ==
    LET fund_fee == FundFee(params.inputs, fee_rate)
        cet_fee  == CetFee(fee_rate)
        required == params.collateral + fund_fee + CollateralFee(fee_rate) + cet_fee + extra_fee
    IN  [status |-> IF params.amount < required THEN "err" ELSE "ok",
         change |-> params.amount - required - 100, fund_fee |-> fund_fee, cet_fee |-> cet_fee]

\* The 100 come on top of what the comparison asks for.
get_change_output_and_fees(params, fee_rate, extra_fee) ==
    LET fund_fee == FundFee(params.inputs, fee_rate)
        cet_fee  == CetFee(fee_rate)
        required == params.collateral + fund_fee + CollateralFee(fee_rate) + cet_fee + extra_fee
    IN  [status |-> CASE params.amount < required -> "err"
                      [] params.amount \in required .. (required + 99) -> "panic"
                      [] OTHER -> "ok",
         change |-> params.amount - required - 100, fund_fee |-> fund_fee, cet_fee |-> cet_fee]

Out(to, value) == [to |-> to, value |-> value]
Above(output) == output.value >= DUST_LIMIT

\* Of two outputs, those that are kept.
discard_dust(first, second) ==
    (IF Above(first) THEN <<first>> ELSE <<>>) \o (IF Above(second) THEN <<second>> ELSE <<>>)

\* The sum of at most two outputs.
Paid(outputs) == IF outputs = <<>> THEN 0
                 ELSE outputs[1].value + (IF Len(outputs) = 2 THEN outputs[2].value ELSE 0)

\* The fund output of a contract between two parties; the first assert_eq may fail.
create_fund_transaction_with_fees(offer, accept, fee_rate, extra_fee) ==
    LET o == get_change_output_and_fees(offer, fee_rate, extra_fee)
        a == get_change_output_and_fees(accept, fee_rate, extra_fee)
        value == offer.amount + accept.amount - o.change - a.change - o.fund_fee - a.fund_fee
                 - extra_fee
    IN  [status |-> CASE o.status # "ok" -> o.status
                      [] o.status = "ok" /\ a.status # "ok" -> a.status
                      [] value # offer.collateral + accept.collateral + o.cet_fee + a.cet_fee
                                 + extra_fee -> "assertion"
                      [] OTHER -> "ok",
         value |-> value,
         change |-> discard_dust(Out("offer", o.change), Out("accept", a.change))]

\* The escrow of a loan: the borrower accepts, the lender puts nothing in. The change is
\* kept whatever its value.
create_escrow_transaction(accept, fee_rate, extra_fee) ==
    LET a == get_change_output_and_fees(accept, fee_rate, extra_fee)
    IN  [status |-> a.status,
         value |-> accept.amount - a.change - a.fund_fee - a.cet_fee - extra_fee + 100,
         change |-> a.change]

\* The transaction that spends the escrow: its fee is fixed.
create_collateral_transaction(escrow_value) == escrow_value - 166

create_cet(offer_payout, accept_payout, offer_first) ==
    LET offer == Out("offer", offer_payout) accept == Out("accept", accept_payout)
    IN  IF offer_first THEN discard_dust(offer, accept) ELSE discard_dust(accept, offer)

create_refund_transaction(offer_collateral, accept_collateral) ==
    discard_dust(Out("offer", offer_collateral), Out("accept", accept_collateral))

\* The payouts must share the collateral out.
has_proper_outcomes(payouts, offer_collateral, accept_collateral) ==
    \A i \in DOMAIN payouts : payouts[i].offer + payouts[i].accept
                              = offer_collateral + accept_collateral

create_cets(payouts, offer_first) ==
    [i \in DOMAIN payouts |-> create_cet(payouts[i].offer, payouts[i].accept, offer_first)]

\* The CETs and the refund, which spend the fund output.
create_cets_and_refund_tx(payouts, offer_collateral, accept_collateral, offer_first) ==
    [status |-> IF has_proper_outcomes(payouts, offer_collateral, accept_collateral)
                THEN "ok" ELSE "err",
     cets   |-> create_cets(payouts, offer_first),
     refund |-> create_refund_transaction(offer_collateral, accept_collateral)]

\* The transactions of a loan, in which the lender's collateral is 0 and the fund transaction is
\* the collateral transaction.
create_loan_expiration_dlc_transactions(collateral_tx, payouts, accept_collateral, offer_first) ==
    LET txs == create_cets_and_refund_tx(payouts, 0, accept_collateral, offer_first)
    IN  [status |-> txs.status, fund |-> collateral_tx, cets |-> txs.cets, refund |-> txs.refund]

\* Mutant: the offerer's output is the first.
compute_pnl_by_position(cet, party, collateral) ==
    LET place == IF party = "offer" THEN 1 ELSE 2
    IN  (IF place \in DOMAIN cet THEN cet[place].value ELSE 0) - collateral

\* The first output with the party's script, or nothing.
compute_pnl(cet, party, collateral) ==
    LET own == {i \in DOMAIN cet : cet[i].to = party}
    IN  (IF own = {} THEN 0 ELSE cet[Min(own)].value) - collateral

=============================================================================
