--------------------------- MODULE FundingProofs ---------------------------
(***************************************************************************)
(* Theorems about Funding for any number of coins, any values, payouts,    *)
(* fee rates and collateral: type correctness, no coin is promised twice,  *)
(* every transaction of a loan is covered by the one it spends, and the    *)
(* profit and loss both nodes record is what was agreed.                   *)
(***************************************************************************)
EXTENDS Funding, SumLemmas

----------------------------------------------------------------------------
(* Amounts.                                                                *)

\* Fees are natural numbers.
LEMMA FeeType ==
    ASSUME NEW rate \in Nat, NEW inputs \in Nat
    PROVE  FundFee(inputs, rate) \in Nat /\ CollateralFee(rate) \in Nat /\ CetFee(rate) \in Nat
<1>1. ASSUME NEW w \in Nat PROVE weight_to_fee(w, rate) \in Nat
  <2>1. (w + 3) \div 4 \in Nat
    OBVIOUS
  <2>2. \A x \in Nat : x * rate \in Nat
    OBVIOUS
  <2> QED
    BY <2>1, <2>2 DEF weight_to_fee
<1>2. FUND_TX_BASE_WEIGHT \div 2 + inputs * (TX_INPUT_BASE_WEIGHT + P2WPKH_WITNESS_SIZE)
          + P2WPKH_SCRIPT_WEIGHT + 36 \in Nat
  BY DEF FUND_TX_BASE_WEIGHT, TX_INPUT_BASE_WEIGHT, P2WPKH_WITNESS_SIZE, P2WPKH_SCRIPT_WEIGHT
<1>3. (8 + 4 + 4) + (TX_INPUT_BASE_WEIGHT + 32 * 4) + (8 + 4 + (32 + 2) * 4) \in Nat
  BY DEF TX_INPUT_BASE_WEIGHT
<1>4. CET_BASE_WEIGHT \div 2 + P2WPKH_SCRIPT_WEIGHT \in Nat
  BY DEF CET_BASE_WEIGHT, P2WPKH_SCRIPT_WEIGHT
<1> QED
  BY <1>1, <1>2, <1>3, <1>4 DEF FundFee, CollateralFee, CetFee

\* The value of a set of coins is the sum of their values.
LEMMA ValueType ==
    ASSUME value \in [Coins -> Nat], NbCoins \in Nat, NEW S \in SUBSET Coins
    PROVE  ValueOf(S) \in Nat /\ Cardinality(S) \in Nat
<1>1. IsFiniteSet(S)
  <2>1. IsFiniteSet(1 .. NbCoins)
    BY FS_Interval
  <2> QED
    BY <2>1, FS_Subset DEF Coins
<1>2. ValueOf(S) = (CHOOSE sum : SumsOver(value, SUBSET S, sum))[S]
  BY DEF ValueOf, FoldSet, MapThenFoldSet, SumsOver, Pick, Rest
<1>3. ValueOf(S) = SumFunctionOnSet(value, S)
  BY <1>2, SumIsFold
<1>4. \A c \in S : value[c] \in Nat /\ value[c] \in Int
  OBVIOUS
<1> QED
  BY <1>1, <1>3, <1>4, SumType, FS_CardinalityType

\* The wallet only takes free coins.
LEMMA SelectsFree ==
    ASSUME NEW amount, NEW rate, NEW S \in get_party_params(amount, rate)
    PROVE  S \subseteq Coins /\ \A c \in S : utxos[c] = "free"
<1> DEFINE free == {c \in Coins : utxos[c] = "free"}
<1>1. PICK x : S \in coin_select(free, x, rate)
  BY DEF get_party_params, get_utxos_for_amount
<1>2. ASSUME NEW F PROVE S \in coin_select(F, x, rate) => S \subseteq F
  BY DEF coin_select
<1> HIDE DEF free
<1>3. S \subseteq free
  BY <1>1, <1>2
<1> QED
  BY <1>3 DEF free

\* What an escrow pays out: the collateral, its fee and 200 more.
LEMMA EscrowAmounts ==
    ASSUME NEW amount \in Nat, NEW inputs \in Nat, NEW rate \in Nat, NEW collateral \in Nat,
           NEW e, e = create_escrow_transaction([inputs |-> inputs, amount |-> amount, collateral |-> collateral],
                                                rate, 300)
    PROVE  /\ e.status \in {"ok", "err", "panic"}
           /\ e.value \in Nat /\ e.value >= collateral + 200
           /\ e.status = "ok" => e.change \in Nat /\ amount > e.value + e.change
<1> DEFINE ff == FundFee(inputs, rate)
           lf == CollateralFee(rate)
           cf == CetFee(rate)
           required == collateral + ff + lf + cf + 300
<1>1. ff \in Nat /\ lf \in Nat /\ cf \in Nat
  BY FeeType
<1>2. /\ e.status = CASE amount < required -> "err"
                      [] amount \in required .. (required + 99) -> "panic"
                      [] OTHER -> "ok"
      /\ e.value = amount - (amount - required - 100) - ff - cf - 300 + 100
      /\ e.change = amount - required - 100
  BY DEF create_escrow_transaction, get_change_output_and_fees
<1> HIDE DEF ff, lf, cf
<1>3. required \in Nat
  BY <1>1
<1>4. e.value = collateral + lf + 200
  BY <1>1, <1>2
<1>5. e.status \in {"ok", "err", "panic"} /\ (e.status = "ok" => amount >= required + 100)
  <2> HIDE DEF required
  <2> QED
    BY <1>2, <1>3
<1> QED
  BY <1>1, <1>2, <1>3, <1>4, <1>5

\* The status of a fund transaction.
LEMMA FundStatus ==
    ASSUME NEW offer, NEW accept, NEW rate
    PROVE  create_fund_transaction_with_fees(offer, accept, rate, 0).status
               \in {"ok", "err", "panic", "assertion"}
<1>1. ASSUME NEW params
      PROVE  get_change_output_and_fees(params, rate, 0).status \in {"ok", "err", "panic"}
  BY DEF get_change_output_and_fees
<1> QED
  BY <1>1 DEF create_fund_transaction_with_fees
----------------------------------------------------------------------------
(* The outputs of a CET and of the refund.                                 *)

Outputs == [to : {"offer", "accept"}, value : Nat]

\* What is left of a payout once dust is discarded.
Kept(amount) == IF amount >= DUST_LIMIT THEN amount ELSE 0

\* The outputs pay a to x and b to y, but for dust.
PaysBoth(outs, x, a, y, b) ==
    /\ outs \in Seq(Outputs)
    /\ Paid(outs) = Kept(a) + Kept(b)
    /\ \A c \in Int : compute_pnl(outs, x, c) = Kept(a) - c /\ compute_pnl(outs, y, c) = Kept(b) - c

\* The kept ones of two outputs, one for each party.
LEMMA TwoOutputs ==
    ASSUME NEW a \in Nat, NEW b \in Nat, NEW x \in {"offer", "accept"}, NEW y \in {"offer", "accept"}, x # y
    PROVE  PaysBoth(discard_dust(Out(x, a), Out(y, b)), x, a, y, b)
<1>0. PICK outs : outs = discard_dust(Out(x, a), Out(y, b))
  OBVIOUS
<1> DEFINE p == Out(x, a)
           q == Out(y, b)
<1>1. p \in Outputs /\ q \in Outputs /\ p.value = a /\ q.value = b /\ p.to = x /\ q.to = y
  BY DEF Out, Outputs
<1>2. (Above(p) <=> a >= DUST_LIMIT) /\ (Above(q) <=> b >= DUST_LIMIT)
  BY <1>1 DEF Above
<1>3. outs = (IF Above(p) THEN <<p>> ELSE <<>>) \o (IF Above(q) THEN <<q>> ELSE <<>>)
  BY <1>0 DEF discard_dust
<1> HIDE DEF p, q
<1>4. /\ <<p>> \in Seq(Outputs) /\ <<q>> \in Seq(Outputs) /\ <<>> \in Seq(Outputs)
      /\ Len(<<p>>) = 1 /\ Len(<<q>>) = 1 /\ Len(<<>>) = 0 /\ <<p>>[1] = p /\ <<q>>[1] = q
  BY <1>1
<1>5. outs \in Seq(Outputs)
  BY <1>3, <1>4
<1>6. \/ Len(outs) = 2 /\ outs[1] = p /\ outs[2] = q /\ Kept(a) = a /\ Kept(b) = b
      \/ Len(outs) = 1 /\ outs[1] = p /\ Kept(a) = a /\ Kept(b) = 0
      \/ Len(outs) = 1 /\ outs[1] = q /\ Kept(a) = 0 /\ Kept(b) = b
      \/ Len(outs) = 0 /\ Kept(a) = 0 /\ Kept(b) = 0
  <2>1. Kept(a) = (IF Above(p) THEN a ELSE 0) /\ Kept(b) = (IF Above(q) THEN b ELSE 0)
    BY <1>2 DEF Kept
  <2>2. CASE Above(p) /\ Above(q)
    <3>1. outs = <<p>> \o <<q>>
      BY <1>3, <2>2
    <3>2. Len(outs) = 2 /\ outs[1] = p /\ outs[2] = q
      BY <1>4, <3>1
    <3> QED
      BY <2>1, <2>2, <3>2
  <2>3. CASE Above(p) /\ ~Above(q)
    <3>1. outs = <<p>> \o <<>>
      BY <1>3, <2>3
    <3>2. Len(outs) = 1 /\ outs[1] = p
      BY <1>4, <3>1
    <3> QED
      BY <2>1, <2>3, <3>2
  <2>4. CASE ~Above(p) /\ Above(q)
    <3>1. outs = <<>> \o <<q>>
      BY <1>3, <2>4
    <3>2. Len(outs) = 1 /\ outs[1] = q
      BY <1>4, <3>1
    <3> QED
      BY <2>1, <2>4, <3>2
  <2>5. CASE ~Above(p) /\ ~Above(q)
    <3>1. outs = <<>> \o <<>>
      BY <1>3, <2>5
    <3>2. Len(outs) = 0
      BY <1>4, <3>1
    <3> QED
      BY <2>1, <2>5, <3>2
  <2> QED
    BY <2>2, <2>3, <2>4, <2>5
<1>7. Paid(outs) = Kept(a) + Kept(b)
  <2>1. Paid(outs) = IF Len(outs) = 0 THEN 0
                     ELSE outs[1].value + (IF Len(outs) = 2 THEN outs[2].value ELSE 0)
    BY <1>5 DEF Paid
  <2> QED
    BY <1>1, <1>6, <2>1
<1>8. \A c \in Int : compute_pnl(outs, x, c) = Kept(a) - c /\ compute_pnl(outs, y, c) = Kept(b) - c
  <2>1. ASSUME NEW party, NEW i \in DOMAIN outs, outs[i].to = party,
               \A j \in DOMAIN outs : outs[j].to = party => j = i
        PROVE  \A c \in Int : compute_pnl(outs, party, c) = outs[i].value - c
    <3>1. {j \in DOMAIN outs : outs[j].to = party} = {i}
      BY <2>1
    <3>2. i \in Int
      BY <1>5
    <3>3. Min({i}) = i
      BY <3>2 DEF Min
    <3> QED
      BY <3>1, <3>3 DEF compute_pnl
  <2>2. ASSUME NEW party, \A j \in DOMAIN outs : outs[j].to # party
        PROVE  \A c \in Int : compute_pnl(outs, party, c) = 0 - c
    <3>1. {j \in DOMAIN outs : outs[j].to = party} = {}
      BY <2>2
    <3> QED
      BY <3>1 DEF compute_pnl
  <2>3. CASE Len(outs) = 2 /\ outs[1] = p /\ outs[2] = q /\ Kept(a) = a /\ Kept(b) = b
    <3>1. /\ 1 \in DOMAIN outs /\ 2 \in DOMAIN outs /\ outs[1] = p /\ outs[2] = q
          /\ \A j \in DOMAIN outs : j = 1 \/ j = 2
      BY <1>5, <2>3
    <3> QED
      BY <1>1, <2>1, <2>3, <3>1
  <2>4. CASE Len(outs) = 1 /\ outs[1] = p /\ Kept(a) = a /\ Kept(b) = 0
    <3>1. 1 \in DOMAIN outs /\ outs[1] = p /\ \A j \in DOMAIN outs : j = 1
      BY <1>5, <2>4
    <3> QED
      BY <1>1, <2>1, <2>2, <2>4, <3>1
  <2>5. CASE Len(outs) = 1 /\ outs[1] = q /\ Kept(a) = 0 /\ Kept(b) = b
    <3>1. 1 \in DOMAIN outs /\ outs[1] = q /\ \A j \in DOMAIN outs : j = 1
      BY <1>5, <2>5
    <3> QED
      BY <1>1, <2>1, <2>2, <2>5, <3>1
  <2>6. CASE Len(outs) = 0 /\ Kept(a) = 0 /\ Kept(b) = 0
    <3>1. \A j \in DOMAIN outs : FALSE
      BY <1>5, <2>6
    <3> QED
      BY <2>2, <2>6, <3>1
  <2> QED
    BY <1>6, <2>3, <2>4, <2>5, <2>6
<1> QED
  BY <1>0, <1>5, <1>7, <1>8 DEF PaysBoth

\* A CET pays each party its payout, if that is not dust.
LEMMA CetPays ==
    ASSUME NEW a \in Nat, NEW b \in Nat, NEW first \in BOOLEAN
    PROVE  PaysBoth(create_cet(a, b, first), "offer", a, "accept", b)
<1>1. PICK x \in {"offer", "accept"}, y \in {"offer", "accept"} : x = "offer" /\ y = "accept"
  OBVIOUS
<1>2. x # y
  BY <1>1
<1>3. CASE first
  <2>1. create_cet(a, b, first) = discard_dust(Out(x, a), Out(y, b))
    BY <1>1, <1>3 DEF create_cet
  <2> QED
    BY <1>1, <1>2, <2>1, TwoOutputs
<1>4. CASE ~first
  <2>1. create_cet(a, b, first) = discard_dust(Out(y, b), Out(x, a))
    BY <1>1, <1>4 DEF create_cet
  <2>2. PaysBoth(create_cet(a, b, first), y, b, x, a)
    BY <1>2, <2>1, TwoOutputs
  <2>3. Kept(b) + Kept(a) = Kept(a) + Kept(b)
    BY DEF Kept
  <2> QED
    BY <1>1, <2>2, <2>3, Zenon DEF PaysBoth
<1> QED
  BY <1>3, <1>4

\* The refund of a loan gives the borrower its collateral back.
LEMMA RefundPays ==
    ASSUME NEW c \in Nat
    PROVE  /\ create_refund_transaction(0, c) \in Seq(Outputs)
           /\ Paid(create_refund_transaction(0, c)) = Kept(c)
<1>1. PICK x \in {"offer", "accept"}, y \in {"offer", "accept"} : x = "offer" /\ y = "accept"
  OBVIOUS
<1>2. create_refund_transaction(0, c) = discard_dust(Out(x, 0), Out(y, c)) /\ x # y
  BY <1>1 DEF create_refund_transaction
<1>3. PaysBoth(create_refund_transaction(0, c), x, 0, y, c)
  BY <1>2, TwoOutputs
<1>4. Kept(0) + Kept(c) = Kept(c)
  BY DEF Kept, DUST_LIMIT
<1> QED
  BY <1>3, <1>4, Zenon DEF PaysBoth
----------------------------------------------------------------------------
(* The inductive invariant.                                                *)

PayoutSeqs == Seq([offer : Nat, accept : Nat])

DealRecords ==
    [state : States, rate : Nat, inputs : SUBSET Coins, escrow : Nat, collateral : Nat,
     payouts : PayoutSeqs, cets : Seq(Seq(Outputs)), refund : Seq(Outputs),
     cet : Nat, pnl : [offer : Int, accept : Int]]

\* The amounts of a loan: its escrow pays for the collateral transaction, which pays for the
\* CETs and the refund.
Escrowed(x) == x.state \in {"escrow", "loan_accepted", "closed"} => x.escrow >= Collateral + 200

Agreed(x) ==
    x.state \in {"loan_accepted", "closed"} =>
        /\ x.collateral = x.escrow - 166
        /\ has_proper_outcomes(x.payouts, 0, Collateral)
        /\ \E first \in BOOLEAN : x.cets = create_cets(x.payouts, first)
        /\ x.refund = create_refund_transaction(0, Collateral)

Booked(x) ==
    x.state = "closed" =>
        /\ x.cet \in DOMAIN x.cets
        /\ x.pnl = [offer  |-> compute_pnl(x.cets[x.cet], "offer", 0),
                    accept |-> compute_pnl(x.cets[x.cet], "accept", Collateral)]

DealOK(x) == x \in DealRecords /\ Escrowed(x) /\ Agreed(x) /\ Booked(x)
DealsOK == DOMAIN deals = Deals /\ deals = [d \in Deals |-> deals[d]] /\ \A d \in Deals : DealOK(deals[d])

\* A sent escrow transaction is worth less than its coins.
EscrowOK(tx) ==
    /\ tx.inputs \subseteq Coins /\ tx.value \in Nat /\ tx.change \in Nat
    /\ ValueOf(tx.inputs) > tx.value + tx.change

FundInv == TypeOK /\ DealsOK /\ \A tx \in escrows : EscrowOK(tx)

\* The state beside the deals and the escrows.
PlainOK ==
    /\ value \in Values
    /\ onchain \in [Coins -> {"future", "unspent", "spent"}]
    /\ utxos \in [Coins -> {"absent", "free", "reserved"}]
    /\ failures \subseteq {"err", "panic", "assertion"}
    /\ meddled \in BOOLEAN

\* What a step has to show.
LEMMA FundParts ==
    /\ FundInv => PlainOK
    /\ PlainOK' /\ DealsOK' /\ (\A tx \in escrows' : EscrowOK(tx)') => FundInv'
<1>1. FundInv => PlainOK
  BY DEF FundInv, PlainOK, TypeOK
<1>2. ASSUME PlainOK', DealsOK', \A tx \in escrows' : EscrowOK(tx)' PROVE FundInv'
  <2>1. ASSUME NEW d \in Deals
        PROVE  /\ deals'[d].state \in States /\ deals'[d].inputs \subseteq Coins
               /\ deals'[d].escrow \in Nat /\ deals'[d].collateral \in Nat
    <3>1. deals'[d] \in DealRecords
      BY <1>2 DEF DealsOK, DealOK
    <3> QED
      BY <3>1 DEF DealRecords
  <2>2. \A tx \in escrows' : tx.inputs \subseteq Coins /\ tx.value \in Nat /\ tx.change \in Nat
    BY <1>2 DEF EscrowOK
  <2>3. TypeOK'
    BY <1>2, <2>1, <2>2 DEF PlainOK, TypeOK
  <2> QED
    BY <1>2, <2>3 DEF FundInv
<1> QED
  BY <1>1, <1>2

\* A step changes one deal, or none.
LEMMA DealStep ==
    ASSUME DealsOK, NEW d \in Deals, NEW x,
           DealOK(x), deals' = [deals EXCEPT ![d] = x] \/ deals' = deals
    PROVE  DealsOK'
<1>1. CASE deals' = deals
  BY <1>1 DEF DealsOK
<1>2. CASE deals' = [deals EXCEPT ![d] = x]
  <2>1. /\ DOMAIN deals' = Deals /\ deals' = [e \in Deals |-> deals'[e]]
        /\ \A e \in Deals : deals'[e] = x \/ deals'[e] = deals[e]
    BY <1>2 DEF DealsOK
  <2> QED
    BY <2>1 DEF DealsOK
<1> QED
  BY <1>1, <1>2

\* Escrows stay as they are: no coin changes its value.
LEMMA EscrowsRest ==
    ASSUME NEW tx, EscrowOK(tx), value' = value
    PROVE  EscrowOK(tx)'
<1>1. PICK S : S = tx.inputs
  OBVIOUS
<1>2. ValueOf(S) = (CHOOSE sum : SumsOver(value, SUBSET S, sum))[S]
  BY DEF ValueOf, FoldSet, MapThenFoldSet, SumsOver, Pick, Rest
<1>3. ValueOf(S)' = (CHOOSE sum : SumsOver(value', SUBSET S, sum))[S]
  BY DEF ValueOf, FoldSet, MapThenFoldSet, SumsOver, Pick, Rest
<1>4. ValueOf(S)' = ValueOf(S)
  BY <1>2, <1>3
<1> QED
  BY <1>1, <1>4 DEF EscrowOK

\* Coins have natural values.
LEMMA ValuesOK == PlainOK => value \in [Coins -> Nat] /\ NbCoins \in Nat
BY CoinsAssumption DEF PlainOK

\* A new deal has nothing to show.
LEMMA NewDealOK == DealOK(NewDeal)
<1>0. PICK x : x = NewDeal
  OBVIOUS
<1>1. <<>> \in PayoutSeqs /\ <<>> \in Seq(Seq(Outputs)) /\ <<>> \in Seq(Outputs)
  BY DEF PayoutSeqs
<1>2. [offer |-> 0, accept |-> 0] \in [offer : Int, accept : Int]
  OBVIOUS
<1>3. x \in DealRecords /\ x.state = "none"
  BY <1>0, <1>1, <1>2 DEF NewDeal, DealRecords, States
<1> QED
  BY <1>0, <1>3 DEF DealOK, Escrowed, Agreed, Booked

\* Initially there is nothing.
LEMMA InitFund == Init => FundInv
<1> SUFFICES ASSUME Init PROVE FundInv
  OBVIOUS
<1>2. DealsOK
  BY NewDealOK DEF Init, DealsOK
<1>3. ASSUME NEW d \in Deals
      PROVE  /\ deals[d].state \in States /\ deals[d].inputs \subseteq Coins
             /\ deals[d].escrow \in Nat /\ deals[d].collateral \in Nat
  <2>1. deals[d] \in DealRecords
    BY <1>2 DEF DealsOK, DealOK
  <2> QED
    BY <2>1 DEF DealRecords
<1> QED
  BY <1>2, <1>3 DEF Init, FundInv, TypeOK

\* The wallet's steps leave the deals alone.
LEMMA WalletFund ==
    ASSUME FundInv, Wallet \/ UNCHANGED vars \/ \E tx \in escrows : Mine(tx)
    PROVE  FundInv'
<1>1. value' = value /\ deals' = deals /\ escrows' = escrows /\ failures' = failures
  BY DEF Wallet, refresh, unreserve_all_utxos, empty_to_address, Receive, Mine, vars
<1>2. PlainOK
  BY FundParts
<1>3. onchain' \in [Coins -> {"future", "unspent", "spent"}]
  BY <1>2 DEF PlainOK, Wallet, refresh, unreserve_all_utxos, empty_to_address, Receive, Mine, vars
<1>4. utxos' \in [Coins -> {"absent", "free", "reserved"}]
  BY <1>2 DEF PlainOK, Wallet, refresh, unreserve_all_utxos, empty_to_address, Receive, Mine, vars
<1>5. meddled' \in BOOLEAN
  BY <1>2 DEF PlainOK, Wallet, refresh, unreserve_all_utxos, empty_to_address, Receive, Mine, vars
<1>6. PlainOK'
  BY <1>1, <1>2, <1>3, <1>4, <1>5 DEF PlainOK
<1>7. DealsOK'
  BY <1>1 DEF FundInv, DealsOK
<1>8. \A tx \in escrows' : EscrowOK(tx)'
  BY <1>1, EscrowsRest DEF FundInv
<1> QED
  BY <1>6, <1>7, <1>8, FundParts

\* A step of one deal.
LEMMA StepFund ==
    ASSUME FundInv, NEW d \in Deals, NEW x, DealOK(x),
           deals' = [deals EXCEPT ![d] = x] \/ deals' = deals,
           value' = value, PlainOK', \A tx \in escrows' : tx \in escrows \/ EscrowOK(tx)
    PROVE  FundInv'
<1>1. DealsOK'
  BY DealStep DEF FundInv
<1>2. ASSUME NEW tx \in escrows' PROVE EscrowOK(tx)'
  <2>1. EscrowOK(tx)
    BY DEF FundInv
  <2> QED
    BY <2>1, EscrowsRest
<1> QED
  BY <1>1, <1>2, FundParts

\* Coins are reserved and given back.
LEMMA ReserveType ==
    ASSUME PlainOK, NEW S, Reserve(S) \/ unreserve_utxos(S) \/ utxos' = utxos
    PROVE  utxos' \in [Coins -> {"absent", "free", "reserved"}]
BY DEF PlainOK, Reserve, unreserve_utxos

\* A deal moves between states in which no loan is agreed.
LEMMA DealMoves ==
    ASSUME NEW y, DealOK(y), NEW s \in States \ {"escrow", "loan_accepted", "closed"},
           NEW rate \in Nat, NEW S \in SUBSET Coins,
           NEW x, x = [y EXCEPT !.state = s, !.rate = rate, !.inputs = S]
    PROVE  DealOK(x)
<1>1. y \in DealRecords
  BY DEF DealOK
<1>2. x \in DealRecords /\ x.state = s
  BY <1>1 DEF DealRecords
<1> QED
  BY <1>2 DEF DealOK, Escrowed, Agreed, Booked

\* The offers that a node makes and receives, and the rejection of a channel.
LEMMA OfferFund ==
    ASSUME FundInv, NEW d \in Deals, NEW state \in {"offered", "channel_offered", "received", "loan_received"},
           Offer(d, state) \/ ReceiveOffer(d, state) \/ on_reject(d)
    PROVE  FundInv'
<1>1. PlainOK
  BY FundParts
<1>0. PICK y : y = NewDeal
  OBVIOUS
<1>y. DealOK(y) /\ y \in DealRecords /\ y.inputs \in SUBSET Coins /\ y.rate \in Nat
  <2>1. DealOK(y) /\ y \in DealRecords
    BY <1>0, NewDealOK DEF DealOK
  <2> QED
    BY <2>1 DEF DealRecords
<1>2. PICK s \in States \ {"escrow", "loan_accepted", "closed"}, rate \in Nat, S \in SUBSET Coins :
         deals' = [deals EXCEPT ![d] = [y EXCEPT !.state = s, !.rate = rate, !.inputs = S]]
  <2>0. state \in States \ {"escrow", "loan_accepted", "closed"}
        /\ "rejected" \in States \ {"escrow", "loan_accepted", "closed"}
    BY DEF States
  <2>1. CASE Offer(d, state)
    <3>1. PICK rate \in FeeRates : \E S \in get_party_params(Collateral, rate) :
             deals' = [deals EXCEPT ![d] = [y EXCEPT !.state = state, !.rate = rate, !.inputs = S]]
      BY <1>0, <2>1 DEF Offer
    <3>2. PICK S \in get_party_params(Collateral, rate) :
             deals' = [deals EXCEPT ![d] = [y EXCEPT !.state = state, !.rate = rate, !.inputs = S]]
      BY <3>1
    <3>3. S \in SUBSET Coins /\ rate \in Nat
      BY AmountsAssumption, SelectsFree
    <3> QED
      BY <2>0, <3>2, <3>3
  <2>2. CASE ReceiveOffer(d, state)
    <3>1. PICK rate \in FeeRates : deals' = [deals EXCEPT ![d] = [y EXCEPT !.state = state, !.rate = rate]]
      BY <1>0, <2>2 DEF ReceiveOffer
    <3>2. [y EXCEPT !.state = state, !.rate = rate]
          = [y EXCEPT !.state = state, !.rate = rate, !.inputs = y.inputs]
      BY <1>y DEF DealRecords
    <3>3. rate \in Nat
      BY AmountsAssumption
    <3> QED
      BY <1>y, <2>0, <3>1, <3>2, <3>3
  <2>3. CASE on_reject(d)
    <3>1. deals' = [deals EXCEPT ![d] = [y EXCEPT !.state = "rejected"]]
      BY <1>0, <2>3 DEF on_reject
    <3>2. [y EXCEPT !.state = "rejected"]
          = [y EXCEPT !.state = "rejected", !.rate = y.rate, !.inputs = y.inputs]
      BY <1>y DEF DealRecords
    <3> QED
      BY <1>y, <2>0, <3>1, <3>2
  <2> QED
    BY <2>1, <2>2, <2>3
<1> DEFINE x == [y EXCEPT !.state = s, !.rate = rate, !.inputs = S]
<1>3. DealOK(x)
  BY <1>y, DealMoves
<1> HIDE DEF x
<1>4. /\ value' = value /\ onchain' = onchain /\ escrows' = escrows /\ failures' = failures
      /\ meddled' = meddled
  BY DEF Offer, ReceiveOffer, on_reject
<1>5. \E T : Reserve(T) \/ unreserve_utxos(T) \/ utxos' = utxos
  BY Zenon DEF Offer, ReceiveOffer, on_reject
<1>6. PlainOK'
  <2>1. utxos' \in [Coins -> {"absent", "free", "reserved"}]
    BY <1>1, <1>5, ReserveType
  <2> QED
    BY <1>1, <1>4, <2>1 DEF PlainOK
<1>7. deals' = [deals EXCEPT ![d] = x]
  BY <1>2 DEF x
<1> QED
  BY <1>3, <1>4, <1>6, <1>7, StepFund

\* The accept message of the other node.
LEMMA OnAcceptFund ==
    ASSUME FundInv, NEW d \in Deals, on_accept_message(d)
    PROVE  FundInv'
<1>1. PlainOK /\ DealsOK /\ DealOK(deals[d]) /\ deals[d].state = "offered"
  BY FundParts DEF FundInv, DealsOK, on_accept_message
<1>2. PICK status \in {"ok", "err", "panic", "assertion"} :
         /\ failures' = failures \cup ({status} \ {"ok"})
         /\ deals' = [deals EXCEPT ![d].state = CASE status = "ok" -> "signed"
                                                  [] status = "err" -> "failed_accept"
                                                  [] OTHER -> @]
  <2>1. PICK fund : /\ fund = create_fund_transaction_with_fees(Params(deals[d].inputs), PeerParams,
                                                               deals[d].rate, 0)
                    /\ fund.status \in {"ok", "err", "panic", "assertion"}
    BY FundStatus
  <2> QED
    BY <2>1, Zenon DEF on_accept_message
<1>3. PICK s \in States \ {"escrow", "loan_accepted", "closed"} : deals' = [deals EXCEPT ![d].state = s]
  BY <1>1, <1>2 DEF States
<1>4. PICK y : y = deals[d]
  OBVIOUS
<1>5. y \in DealRecords /\ y.inputs \in SUBSET Coins /\ y.rate \in Nat
  BY <1>1, <1>4 DEF DealOK, DealRecords
<1> DEFINE x == [y EXCEPT !.state = s, !.rate = y.rate, !.inputs = y.inputs]
<1>6. x = [y EXCEPT !.state = s]
  BY <1>5 DEF DealRecords
<1>7. deals' = [deals EXCEPT ![d] = x]
  BY <1>1, <1>3, <1>4, <1>6 DEF DealsOK
<1>8. DealOK(x)
  BY <1>1, <1>4, <1>5, DealMoves
<1>9. PlainOK' /\ value' = value /\ escrows' = escrows
  BY <1>1, <1>2 DEF PlainOK, on_accept_message
<1> HIDE DEF x
<1> QED
  BY <1>7, <1>8, <1>9, StepFund

\* The node accepts a contract.
LEMMA AcceptFund ==
    ASSUME FundInv, NEW d \in Deals, accept_contract_offer(d)
    PROVE  FundInv'
<1>1. PlainOK /\ DealsOK /\ DealOK(deals[d])
  BY FundParts DEF FundInv, DealsOK
<1>2. PICK y, rate : y = deals[d] /\ rate = deals[d].rate
  OBVIOUS
<1>3. PICK S \in get_party_params(Collateral, rate), status \in {"ok", "err", "panic", "assertion"} :
         /\ Reserve(S)
         /\ failures' = failures \cup ({status} \ {"ok"})
         /\ deals' = IF status = "ok"
                     THEN [deals EXCEPT ![d].state = "accepted", ![d].inputs = S] ELSE deals
  BY <1>2, FundStatus DEF accept_contract_offer
<1>4. S \in SUBSET Coins
  BY SelectsFree
<1>y. y \in DealRecords /\ y.rate \in Nat
  BY <1>1, <1>2 DEF DealOK, DealRecords
<1> DEFINE x == [y EXCEPT !.state = "accepted", !.rate = y.rate, !.inputs = S]
<1>x. x = [y EXCEPT !.state = "accepted", !.inputs = S]
  BY <1>y DEF DealRecords
<1>5. DealOK(x)
  <2>1. "accepted" \in States \ {"escrow", "loan_accepted", "closed"}
    BY DEF States
  <2> QED
    BY <1>1, <1>2, <1>4, <1>y, <2>1, DealMoves
<1>6. deals' = [deals EXCEPT ![d] = x] \/ deals' = deals
  BY <1>1, <1>2, <1>3, <1>x DEF DealsOK
<1>7. utxos' \in [Coins -> {"absent", "free", "reserved"}]
  BY <1>1, <1>3, ReserveType
<1>8. value' = value /\ onchain' = onchain /\ escrows' = escrows /\ meddled' = meddled
  BY DEF accept_contract_offer
<1>9. PlainOK'
  BY <1>1, <1>3, <1>7, <1>8 DEF PlainOK
<1> HIDE DEF x
<1> QED
  BY <1>5, <1>6, <1>8, <1>9, StepFund

\* The borrower sends an escrow.
LEMMA EscrowFund ==
    ASSUME FundInv, NEW d \in Deals, send_escrow_transaction(d)
    PROVE  FundInv'
<1>1. PlainOK /\ DealsOK /\ DealOK(deals[d]) /\ deals[d].state \in {"loan_received", "escrow"}
  BY FundParts DEF FundInv, DealsOK, send_escrow_transaction
<1>2. PICK y, rate : y = deals[d] /\ rate = deals[d].rate
  OBVIOUS
<1>3. y \in DealRecords /\ rate \in Nat
  BY <1>1, <1>2 DEF DealOK, DealRecords
<1> DEFINE Sent(S, e) ==
              /\ Reserve(S)
              /\ IF e.status = "ok"
                 THEN /\ escrows' = escrows \cup {[inputs |-> S, value |-> e.value, change |-> e.change]}
                      /\ deals' = [deals EXCEPT ![d].state = "escrow", ![d].escrow = e.value]
                      /\ UNCHANGED failures
                 ELSE failures' = failures \cup {e.status} /\ UNCHANGED <<escrows, deals>>
<1>4. PICK S \in get_party_params(Collateral, rate) :
         Sent(S, create_escrow_transaction(Params(S), rate, 300))
  <2>1. PICK S \in get_party_params(Collateral, deals[d].rate) :
           Sent(S, create_escrow_transaction(Params(S), deals[d].rate, 300))
    BY Zenon DEF send_escrow_transaction
  <2> HIDE DEF Sent
  <2>2. rate = deals[d].rate
    BY <1>2, Zenon
  <2> QED
    BY <2>1, <2>2, Zenon
<1>5. PICK e : e = create_escrow_transaction(Params(S), rate, 300) /\ Sent(S, e)
  BY <1>4, Zenon
<1>6. S \in SUBSET Coins
  BY SelectsFree
<1>7. PICK amount \in Nat, inputs \in Nat : amount = ValueOf(S) /\ inputs = Cardinality(S)
  BY <1>1, <1>6, ValuesOK, ValueType
<1>8. /\ e.status \in {"ok", "err", "panic"}
      /\ e.value \in Nat /\ e.value >= Collateral + 200
      /\ e.status = "ok" => e.change \in Nat /\ amount > e.value + e.change
  <2>1. e = create_escrow_transaction([inputs |-> inputs, amount |-> amount, collateral |-> Collateral],
                                      rate, 300)
    BY <1>5, <1>7 DEF Params
  <2> QED
    BY <1>3, <2>1, AmountsAssumption, EscrowAmounts
<1> DEFINE x == [y EXCEPT !.state = "escrow", !.escrow = e.value]
<1>9. DealOK(x)
  <2>1. x \in DealRecords /\ x.state = "escrow" /\ x.escrow = e.value
    BY <1>3, <1>8 DEF DealRecords, States
  <2> HIDE DEF x
  <2> QED
    BY <1>8, <2>1 DEF DealOK, Escrowed, Agreed, Booked
<1>10. deals' = [deals EXCEPT ![d] = x] \/ deals' = deals
  BY <1>1, <1>2, <1>5 DEF DealsOK
<1> HIDE DEF x
<1>11. ASSUME NEW tx \in escrows' PROVE tx \in escrows \/ EscrowOK(tx)
  <2>1. CASE e.status = "ok"
    <3>1. tx \in escrows \/ tx = [inputs |-> S, value |-> e.value, change |-> e.change]
      BY <1>5, <2>1
    <3>2. CASE tx = [inputs |-> S, value |-> e.value, change |-> e.change]
      <4>1. tx.inputs = S /\ tx.value = e.value /\ tx.change = e.change
        BY <3>2
      <4> QED
        BY <1>6, <1>7, <1>8, <2>1, <4>1 DEF EscrowOK
    <3> QED
      BY <3>1, <3>2
  <2>2. CASE e.status # "ok"
    BY <1>5, <2>2
  <2> QED
    BY <2>1, <2>2
<1>12. value' = value /\ onchain' = onchain /\ meddled' = meddled
  BY DEF send_escrow_transaction
<1>13. PlainOK'
  <2>1. utxos' \in [Coins -> {"absent", "free", "reserved"}]
    BY <1>1, <1>5, ReserveType
  <2>2. failures' \subseteq {"err", "panic", "assertion"}
    BY <1>1, <1>5, <1>8 DEF PlainOK
  <2> QED
    BY <1>1, <1>12, <2>1, <2>2 DEF PlainOK
<1> QED
  BY <1>9, <1>10, <1>11, <1>12, <1>13, StepFund

\* The CETs of proper payouts are sequences of outputs.
LEMMA CetsType ==
    ASSUME NEW payouts \in PayoutSeqs, NEW first \in BOOLEAN
    PROVE  /\ create_cets(payouts, first) \in Seq(Seq(Outputs))
           /\ DOMAIN create_cets(payouts, first) = DOMAIN payouts
           /\ \A i \in DOMAIN payouts :
                 /\ payouts[i].offer \in Nat /\ payouts[i].accept \in Nat
                 /\ PaysBoth(create_cets(payouts, first)[i], "offer", payouts[i].offer, "accept", payouts[i].accept)
<1>1. PICK cets : cets = create_cets(payouts, first)
  OBVIOUS
<1>2. cets = [i \in DOMAIN payouts |-> create_cet(payouts[i].offer, payouts[i].accept, first)]
  BY <1>1 DEF create_cets
<1>3. ASSUME NEW i \in DOMAIN payouts
      PROVE  /\ payouts[i].offer \in Nat /\ payouts[i].accept \in Nat
             /\ PaysBoth(cets[i], "offer", payouts[i].offer, "accept", payouts[i].accept)
             /\ cets[i] \in Seq(Outputs)
  <2>1. payouts[i].offer \in Nat /\ payouts[i].accept \in Nat
    <3>1. \A R : payouts \in Seq(R) => payouts[i] \in R
      OBVIOUS
    <3>2. payouts[i] \in [offer : Nat, accept : Nat]
      BY <3>1 DEF PayoutSeqs
    <3> QED
      BY <3>2
  <2>2. cets[i] = create_cet(payouts[i].offer, payouts[i].accept, first)
    BY <1>2
  <2>3. PaysBoth(cets[i], "offer", payouts[i].offer, "accept", payouts[i].accept)
    BY <2>1, <2>2, CetPays
  <2>4. cets[i] \in Seq(Outputs)
    BY <2>3, Zenon DEF PaysBoth
  <2> QED
    BY <2>1, <2>3, <2>4
<1>4. cets \in Seq(Seq(Outputs))
  <2>1. DOMAIN payouts = 1 .. Len(payouts) /\ Len(payouts) \in Nat
    BY DEF PayoutSeqs
  <2> QED
    BY <1>2, <1>3, <2>1
<1>5. DOMAIN cets = DOMAIN payouts
  BY <1>2
<1> QED
  BY <1>1, <1>3, <1>4, <1>5

\* The borrower accepts the loan contract.
LEMMA LoanFund ==
    ASSUME FundInv, NEW d \in Deals, accept_loan_contract(d)
    PROVE  FundInv'
<1>1. PlainOK /\ DealsOK /\ DealOK(deals[d]) /\ deals[d].state = "escrow"
  BY FundParts DEF FundInv, DealsOK, accept_loan_contract
<1>2. PICK y, rate : y = deals[d] /\ rate = deals[d].rate
  OBVIOUS
<1>3. y \in DealRecords /\ y.escrow \in Nat /\ y.escrow >= Collateral + 200 /\ Collateral \in Nat
  BY <1>1, <1>2, AmountsAssumption DEF DealOK, DealRecords, Escrowed
<1> DEFINE Built(e, payouts, first) ==
              create_loan_expiration_dlc_transactions(create_collateral_transaction(e), payouts,
                                                      Collateral, first)
           Taken(S, payouts, txs) ==
              /\ Reserve(S)
              /\ failures' = failures \cup ({txs.status} \ {"ok"})
              /\ deals' = IF txs.status # "ok" THEN deals
                          ELSE [deals EXCEPT
                                   ![d] = [@ EXCEPT !.state = "loan_accepted", !.inputs = S,
                                                    !.collateral = txs.fund, !.payouts = payouts,
                                                    !.cets = txs.cets, !.refund = txs.refund]]
<1>4. PICK S \in get_party_params(Collateral, rate), payouts \in Payouts, first \in BOOLEAN :
         Taken(S, payouts, Built(y.escrow, payouts, first))
  <2>1. PICK S \in get_party_params(Collateral, deals[d].rate), payouts \in Payouts, first \in BOOLEAN :
           Taken(S, payouts, Built(deals[d].escrow, payouts, first))
    BY Zenon DEF accept_loan_contract
  <2> QED
    BY <1>2, <2>1, Zenon
<1>5. PICK txs : txs = Built(y.escrow, payouts, first) /\ Taken(S, payouts, txs)
  BY <1>4, Zenon
<1>6. /\ txs.status = (IF has_proper_outcomes(payouts, 0, Collateral) THEN "ok" ELSE "err")
      /\ txs.fund = y.escrow - 166
      /\ txs.cets = create_cets(payouts, first)
      /\ txs.refund = create_refund_transaction(0, Collateral)
  BY <1>5 DEF create_loan_expiration_dlc_transactions, create_cets_and_refund_tx, create_collateral_transaction
<1>7. S \in SUBSET Coins /\ payouts \in PayoutSeqs
  BY SelectsFree, PayoutsAssumption DEF PayoutSeqs
<1>8. txs.cets \in Seq(Seq(Outputs)) /\ txs.refund \in Seq(Outputs) /\ txs.fund \in Nat
  <2>1. txs.cets \in Seq(Seq(Outputs))
    BY <1>6, <1>7, CetsType
  <2>2. txs.refund \in Seq(Outputs)
    BY <1>3, <1>6, RefundPays
  <2> QED
    BY <1>3, <1>6, <2>1, <2>2
<1> DEFINE x == [y EXCEPT !.state = "loan_accepted", !.inputs = S, !.collateral = txs.fund,
                          !.payouts = payouts, !.cets = txs.cets, !.refund = txs.refund]
<1>9. CASE txs.status # "ok"
  <2>1. deals' = deals
    BY <1>5, <1>9
  <2>2. PlainOK' /\ value' = value /\ escrows' = escrows
    <3>1. utxos' \in [Coins -> {"absent", "free", "reserved"}]
      BY <1>1, <1>5, ReserveType
    <3>2. failures' \subseteq {"err", "panic", "assertion"}
      BY <1>1, <1>5, <1>6 DEF PlainOK
    <3>3. value' = value /\ onchain' = onchain /\ escrows' = escrows /\ meddled' = meddled
      BY DEF accept_loan_contract
    <3> QED
      BY <1>1, <3>1, <3>2, <3>3 DEF PlainOK
  <2> QED
    BY <1>1, <2>1, <2>2, StepFund
<1>10. CASE txs.status = "ok"
  <2>1. /\ x \in DealRecords /\ x.state = "loan_accepted" /\ x.escrow = y.escrow
        /\ x.collateral = txs.fund /\ x.payouts = payouts /\ x.cets = txs.cets /\ x.refund = txs.refund
    BY <1>3, <1>7, <1>8 DEF DealRecords, States
  <2>2. deals' = [deals EXCEPT ![d] = x]
    BY <1>1, <1>2, <1>5, <1>10 DEF DealsOK
  <2> HIDE DEF x
  <2>3. has_proper_outcomes(payouts, 0, Collateral)
    BY <1>6, <1>10
  <2>4. DealOK(x)
    BY <1>3, <1>6, <2>1, <2>3 DEF DealOK, Escrowed, Agreed, Booked
  <2>5. PlainOK' /\ value' = value /\ escrows' = escrows
    <3>1. utxos' \in [Coins -> {"absent", "free", "reserved"}]
      BY <1>1, <1>5, ReserveType
    <3>2. failures' \subseteq {"err", "panic", "assertion"}
      BY <1>1, <1>5, <1>6 DEF PlainOK
    <3>3. value' = value /\ onchain' = onchain /\ escrows' = escrows /\ meddled' = meddled
      BY DEF accept_loan_contract
    <3> QED
      BY <1>1, <3>1, <3>2, <3>3 DEF PlainOK
  <2> QED
    BY <2>2, <2>4, <2>5, StepFund
<1> QED
  BY <1>9, <1>10

\* The profit and loss of an agreed loan.
LEMMA PnlOfCet ==
    ASSUME NEW x \in DealRecords, Agreed(x), x.state \in {"loan_accepted", "closed"},
           NEW i \in DOMAIN x.cets
    PROVE  /\ i \in DOMAIN x.payouts
           /\ x.payouts[i].offer \in Nat /\ x.payouts[i].accept \in Nat
           /\ x.payouts[i].offer + x.payouts[i].accept = Collateral
           /\ Paid(x.cets[i]) = Kept(x.payouts[i].offer) + Kept(x.payouts[i].accept)
           /\ compute_pnl(x.cets[i], "offer", 0) = Kept(x.payouts[i].offer) - 0
           /\ compute_pnl(x.cets[i], "accept", Collateral) = Kept(x.payouts[i].accept) - Collateral
<1>1. PICK first \in BOOLEAN : x.cets = create_cets(x.payouts, first)
  BY DEF Agreed
<1>2. x.payouts \in PayoutSeqs
  BY DEF DealRecords
<1>3. /\ i \in DOMAIN x.payouts /\ x.payouts[i].offer \in Nat /\ x.payouts[i].accept \in Nat
      /\ PaysBoth(x.cets[i], "offer", x.payouts[i].offer, "accept", x.payouts[i].accept)
  BY <1>1, <1>2, CetsType
<1>4. x.payouts[i].offer + x.payouts[i].accept = Collateral
  BY <1>3, AmountsAssumption DEF Agreed, has_proper_outcomes
<1>5. /\ Paid(x.cets[i]) = Kept(x.payouts[i].offer) + Kept(x.payouts[i].accept)
      /\ \A c \in Int : /\ compute_pnl(x.cets[i], "offer", c) = Kept(x.payouts[i].offer) - c
                        /\ compute_pnl(x.cets[i], "accept", c) = Kept(x.payouts[i].accept) - c
  BY <1>3, Zenon DEF PaysBoth
<1>6. 0 \in Int /\ Collateral \in Int
  BY AmountsAssumption
<1> QED
  BY <1>3, <1>4, <1>5, <1>6

\* A CET is mined.
LEMMA CloseFund ==
    ASSUME FundInv, NEW d \in Deals, Close(d)
    PROVE  FundInv'
<1>1. PlainOK /\ DealsOK /\ DealOK(deals[d]) /\ deals[d].state = "loan_accepted"
  BY FundParts DEF FundInv, DealsOK, Close
<1>2. PICK y : y = deals[d]
  OBVIOUS
<1>3. y \in DealRecords /\ Agreed(y) /\ Escrowed(y) /\ y.state = "loan_accepted"
  BY <1>1, <1>2 DEF DealOK
<1>4. PICK i \in DOMAIN y.cets : \E po, pa :
         /\ po = compute_pnl(y.cets[i], "offer", 0) /\ pa = compute_pnl(y.cets[i], "accept", Collateral)
         /\ deals' = [deals EXCEPT ![d] = [@ EXCEPT !.state = "closed", !.cet = i,
                                                    !.pnl = [offer |-> po, accept |-> pa]]]
  BY <1>2, Zenon DEF Close
<1>5. PICK po, pa :
         /\ po = compute_pnl(y.cets[i], "offer", 0) /\ pa = compute_pnl(y.cets[i], "accept", Collateral)
         /\ deals' = [deals EXCEPT ![d] = [@ EXCEPT !.state = "closed", !.cet = i,
                                                    !.pnl = [offer |-> po, accept |-> pa]]]
  BY <1>4
<1>6. po \in Int /\ pa \in Int /\ i \in Nat
  <2>1. /\ y.payouts[i].offer \in Nat /\ y.payouts[i].accept \in Nat
        /\ po = Kept(y.payouts[i].offer) - 0 /\ pa = Kept(y.payouts[i].accept) - Collateral
    BY <1>3, <1>5, PnlOfCet
  <2>2. y.cets \in Seq(Seq(Outputs))
    BY <1>3 DEF DealRecords
  <2>3. i \in Nat
    BY <2>2
  <2> QED
    BY <2>1, <2>3, AmountsAssumption DEF Kept
<1> DEFINE pnl == [offer |-> po, accept |-> pa]
           x == [y EXCEPT !.state = "closed", !.cet = i, !.pnl = pnl]
<1>7. pnl \in [offer : Int, accept : Int]
  BY <1>6
<1>8. deals' = [deals EXCEPT ![d] = x]
  BY <1>1, <1>2, <1>5 DEF DealsOK
<1>9. pnl = [offer  |-> compute_pnl(y.cets[i], "offer", 0), accept |-> compute_pnl(y.cets[i], "accept", Collateral)]
  BY <1>5
<1> HIDE DEF pnl
<1>10. /\ x \in DealRecords /\ x.state = "closed" /\ x.escrow = y.escrow /\ x.collateral = y.collateral
       /\ x.payouts = y.payouts /\ x.cets = y.cets /\ x.refund = y.refund /\ x.cet = i /\ x.pnl = pnl
  BY <1>3, <1>6, <1>7 DEF DealRecords, States
<1> HIDE DEF x
<1>11. DealOK(x)
  <2>1. Escrowed(x)
    BY <1>3, <1>10 DEF Escrowed
  <2>2. Agreed(x)
    BY <1>3, <1>10, Zenon DEF Agreed
  <2>3. Booked(x)
    BY <1>9, <1>10 DEF Booked
  <2> QED
    BY <1>10, <2>1, <2>2, <2>3 DEF DealOK
<1>12. PlainOK' /\ value' = value /\ escrows' = escrows
  BY <1>1 DEF Close, PlainOK
<1> QED
  BY <1>8, <1>11, <1>12, StepFund

\* Every step keeps it.
LEMMA NextFund == FundInv /\ [Next]_vars => FundInv'
<1> SUFFICES ASSUME FundInv, [Next]_vars PROVE FundInv'
  OBVIOUS
<1>1. CASE Wallet \/ UNCHANGED vars \/ \E tx \in escrows : Mine(tx)
  BY <1>1, WalletFund
<1>2. ASSUME NEW d \in Deals,
             \/ Offer(d, "offered") \/ Offer(d, "channel_offered")
             \/ ReceiveOffer(d, "received") \/ ReceiveOffer(d, "loan_received")
             \/ on_accept_message(d) \/ accept_contract_offer(d) \/ on_reject(d)
             \/ send_escrow_transaction(d) \/ accept_loan_contract(d) \/ Close(d)
      PROVE  FundInv'
  BY <1>2, OfferFund, OnAcceptFund, AcceptFund, EscrowFund, LoanFund, CloseFund
<1> QED
  BY <1>1, <1>2, Zenon DEF Next

\* It holds in every behaviour.
LEMMA FundsAreSound == Spec => []FundInv
BY InitFund, NextFund, PTL DEF Spec

\* TypeOK for every number of coins and deals and every collateral, fee rate and payout: the
\* change that get_change_output_and_fees computes for an escrow is never negative, since the
\* panic of the subtraction comes before the transaction exists.
THEOREM TypeCorrect == Spec => []TypeOK
<1>1. FundInv => TypeOK
  BY DEF FundInv
<1> QED
  BY <1>1, FundsAreSound, PTL

\* LoanTransactionsAreCovered for every instance: an escrow holds the collateral and 200 more,
\* the collateral transaction takes 166 of them, and proper payouts share the collateral out,
\* so that dropping dust outputs only lowers what a CET or the refund pays.
THEOREM LoansAreCovered == Spec => []LoanTransactionsAreCovered
<1>1. ASSUME FundInv PROVE LoanTransactionsAreCovered
  <2>1. \A tx \in escrows : ValueOf(tx.inputs) > tx.value + tx.change
    BY <1>1 DEF FundInv, EscrowOK
  <2>2. ASSUME NEW d \in Deals, deals[d].state \in {"loan_accepted", "closed"}
        PROVE  /\ deals[d].escrow > deals[d].collateral
               /\ deals[d].collateral > Paid(deals[d].refund)
               /\ \A i \in DOMAIN deals[d].cets : deals[d].collateral > Paid(deals[d].cets[i])
    <3>1. PICK x : x = deals[d]
      OBVIOUS
    <3>2. x \in DealRecords /\ Agreed(x) /\ Escrowed(x) /\ x.state \in {"loan_accepted", "closed"}
      BY <1>1, <2>2, <3>1 DEF FundInv, DealsOK, DealOK
    <3>3. /\ x.escrow \in Nat /\ x.escrow >= Collateral + 200 /\ x.collateral = x.escrow - 166
          /\ x.refund = create_refund_transaction(0, Collateral) /\ Collateral \in Nat
      BY <3>2, AmountsAssumption DEF Agreed, Escrowed, DealRecords
    <3>4. x.collateral > Paid(x.refund)
      <4>1. Paid(x.refund) = Kept(Collateral)
        BY <3>3, RefundPays
      <4> QED
        BY <3>3, <4>1 DEF Kept
    <3>5. ASSUME NEW i \in DOMAIN x.cets PROVE x.collateral > Paid(x.cets[i])
      <4>1. PICK a \in Nat, b \in Nat : a + b = Collateral /\ Paid(x.cets[i]) = Kept(a) + Kept(b)
        BY <3>2, PnlOfCet
      <4>2. Kept(a) \in 0 .. a /\ Kept(b) \in 0 .. b
        BY DEF Kept
      <4> QED
        BY <3>3, <4>1, <4>2
    <3> QED
      BY <3>1, <3>3, <3>4, <3>5
  <2> QED
    BY <2>1, <2>2 DEF LoanTransactionsAreCovered
<1> QED
  BY <1>1, FundsAreSound, PTL

\* PnlIsWhatWasAgreed for every instance: compute_pnl finds a party's output whichever place
\* it has in the CET, and what both records miss of the payout is exactly the dust.
THEOREM BooksSayWhatWasAgreed == Spec => []PnlIsWhatWasAgreed
<1>1. ASSUME FundInv PROVE PnlIsWhatWasAgreed
  <2>1. ASSUME NEW d \in Deals, deals[d].state = "closed"
        PROVE  LET agreed == deals[d].payouts[deals[d].cet]
                   lost == [offer  |-> agreed.offer - deals[d].pnl.offer,
                            accept |-> agreed.accept - Collateral - deals[d].pnl.accept]
               IN  /\ lost.offer \in 0 .. (DUST_LIMIT - 1) /\ lost.accept \in 0 .. (DUST_LIMIT - 1)
                   /\ lost.offer + lost.accept = Collateral - Paid(deals[d].cets[deals[d].cet])
    <3>1. PICK x : x = deals[d]
      OBVIOUS
    <3>2. x \in DealRecords /\ Agreed(x) /\ Booked(x) /\ x.state = "closed"
      BY <1>1, <2>1, <3>1 DEF FundInv, DealsOK, DealOK
    <3>3. PICK i \in DOMAIN x.cets : i = x.cet
      BY <3>2 DEF Booked
    <3>4. x.pnl = [offer  |-> compute_pnl(x.cets[i], "offer", 0),
                   accept |-> compute_pnl(x.cets[i], "accept", Collateral)]
      BY <3>2, <3>3 DEF Booked
    <3>5. PICK a, b : a = x.payouts[i].offer /\ b = x.payouts[i].accept
      OBVIOUS
    <3>6. /\ a \in Nat /\ b \in Nat /\ a + b = Collateral
          /\ Paid(x.cets[i]) = Kept(a) + Kept(b)
          /\ x.pnl.offer = Kept(a) - 0 /\ x.pnl.accept = Kept(b) - Collateral
      BY <3>2, <3>4, <3>5, PnlOfCet
    <3>7. a - Kept(a) \in 0 .. (DUST_LIMIT - 1) /\ b - Kept(b) \in 0 .. (DUST_LIMIT - 1)
      BY <3>6 DEF Kept, DUST_LIMIT
    <3>8. Kept(a) \in Nat /\ Kept(b) \in Nat
      BY <3>6 DEF Kept
    <3>9. /\ a - x.pnl.offer = a - Kept(a)
          /\ b - Collateral - x.pnl.accept = b - Kept(b)
          /\ (a - x.pnl.offer) + (b - Collateral - x.pnl.accept) = Collateral - Paid(x.cets[i])
      BY <3>6, <3>8
    <3> QED
      BY <3>1, <3>3, <3>5, <3>7, <3>9
  <2> QED
    BY <2>1, Zenon DEF PnlIsWhatWasAgreed
<1> QED
  BY <1>1, FundsAreSound, PTL
----------------------------------------------------------------------------
(* No coin is promised twice.                                              *)

\* A promised coin is reserved, or spent and gone from the tree: only then refresh cannot
\* bring it back as a free one.
InUse(c) == utxos[c] = "reserved" \/ (utxos[c] = "absent" /\ onchain[c] = "spent")

Promised ==
    /\ \A d, e \in Deals : d # e => deals[d].inputs \cap deals[e].inputs = {}
    /\ \A tx, other \in escrows : tx # other => tx.inputs \cap other.inputs = {}
    /\ \A d \in Deals, tx \in escrows : deals[d].inputs \cap tx.inputs = {}
    /\ \A d \in Deals : \A c \in deals[d].inputs : InUse(c)
    /\ \A tx \in escrows : \A c \in tx.inputs : InUse(c)

CoinInv == ~meddled => Promised

\* A step that takes coins that were free, or none, for one deal or one escrow.
LEMMA TakesFree ==
    ASSUME FundInv, Promised, NEW S, S \subseteq Coins, \A c \in S : utxos[c] = "free",
           Reserve(S), onchain' = onchain, NEW d \in Deals,
           \/ /\ escrows' = escrows
              /\ \A e \in Deals : deals'[e].inputs = deals[e].inputs \/ (e = d /\ deals'[e].inputs = S)
           \/ /\ \A e \in Deals : deals'[e].inputs = deals[e].inputs
              /\ \E tx : tx.inputs = S /\ escrows' = escrows \cup {tx}
    PROVE  Promised'
<1>1. \A c \in Coins : (c \in S => utxos'[c] = "reserved") /\ (c \notin S => utxos'[c] = utxos[c])
  BY DEF Reserve
<1>2. \A e \in Deals : deals[e].inputs \subseteq Coins
  BY DEF FundInv, TypeOK
<1>3. \A tx \in escrows : tx.inputs \subseteq Coins
  BY DEF FundInv, TypeOK
<1>4. \A e \in Deals : deals[e].inputs \cap S = {}
  BY DEF Promised, InUse
<1>5. \A tx \in escrows : tx.inputs \cap S = {}
  BY DEF Promised, InUse
<1>6. \A c \in Coins : InUse(c) \/ c \in S => InUse(c)'
  BY <1>1 DEF InUse
<1>7. CASE /\ escrows' = escrows
           /\ \A e \in Deals : deals'[e].inputs = deals[e].inputs \/ (e = d /\ deals'[e].inputs = S)
  <2>1. \A e, f \in Deals : e # f => deals'[e].inputs \cap deals'[f].inputs = {}
    BY <1>4, <1>7 DEF Promised
  <2>2. \A e \in Deals, tx \in escrows : deals'[e].inputs \cap tx.inputs = {}
    BY <1>5, <1>7 DEF Promised
  <2>3. \A e \in Deals : \A c \in deals'[e].inputs : InUse(c)'
    BY <1>2, <1>6, <1>7 DEF Promised
  <2>4. \A tx \in escrows : \A c \in tx.inputs : InUse(c)'
    BY <1>3, <1>6 DEF Promised
  <2>5. \A tx, other \in escrows : tx # other => tx.inputs \cap other.inputs = {}
    BY DEF Promised
  <2> QED
    BY <1>7, <2>1, <2>2, <2>3, <2>4, <2>5 DEF Promised
<1>8. CASE /\ \A e \in Deals : deals'[e].inputs = deals[e].inputs
           /\ \E tx : tx.inputs = S /\ escrows' = escrows \cup {tx}
  <2>0. PICK new : new.inputs = S /\ escrows' = escrows \cup {new}
    BY <1>8
  <2>1. \A e, f \in Deals : e # f => deals'[e].inputs \cap deals'[f].inputs = {}
    BY <1>8 DEF Promised
  <2>2. \A e \in Deals, tx \in escrows' : deals'[e].inputs \cap tx.inputs = {}
    BY <1>4, <1>8, <2>0 DEF Promised
  <2>3. \A e \in Deals : \A c \in deals'[e].inputs : InUse(c)'
    BY <1>2, <1>6, <1>8 DEF Promised
  <2>4. \A tx \in escrows' : \A c \in tx.inputs : InUse(c)'
    BY <1>3, <1>6, <2>0 DEF Promised
  <2>5. \A tx, other \in escrows' : tx # other => tx.inputs \cap other.inputs = {}
    BY <1>5, <2>0 DEF Promised
  <2> QED
    BY <2>1, <2>2, <2>3, <2>4, <2>5 DEF Promised
<1> QED
  BY <1>7, <1>8

\* A step that takes no coin and gives none back.
LEMMA TakesNone ==
    ASSUME FundInv, Promised, escrows' = escrows,
           \A e \in Deals : deals'[e].inputs = deals[e].inputs \/ deals'[e].inputs = {},
           \A c \in Coins : InUse(c) => InUse(c)'
    PROVE  Promised'
<1>2. \A e \in Deals : deals[e].inputs \subseteq Coins
  BY DEF FundInv, TypeOK
<1>3. \A tx \in escrows : tx.inputs \subseteq Coins
  BY DEF FundInv, TypeOK
<1>4. \A e, f \in Deals : e # f => deals'[e].inputs \cap deals'[f].inputs = {}
  BY DEF Promised
<1>5. \A e \in Deals, tx \in escrows : deals'[e].inputs \cap tx.inputs = {}
  BY DEF Promised
<1>6. \A e \in Deals : \A c \in deals'[e].inputs : InUse(c)'
  BY <1>2 DEF Promised
<1>7. \A tx \in escrows : \A c \in tx.inputs : InUse(c)'
  BY <1>3 DEF Promised
<1>8. \A tx, other \in escrows : tx # other => tx.inputs \cap other.inputs = {}
  BY DEF Promised
<1> QED
  BY <1>4, <1>5, <1>6, <1>7, <1>8 DEF Promised

\* The wallet's own steps.
LEMMA WalletCoins ==
    ASSUME FundInv, CoinInv, Wallet \/ UNCHANGED vars \/ \E tx \in escrows : Mine(tx)
    PROVE  CoinInv'
<1>1. CASE unreserve_all_utxos \/ empty_to_address
  <2>1. meddled' = TRUE
    BY <1>1 DEF unreserve_all_utxos, empty_to_address
  <2> QED
    BY <2>1 DEF CoinInv
<1>2. CASE refresh \/ (\E c \in Coins : Receive(c)) \/ UNCHANGED vars \/ (\E tx \in escrows : Mine(tx))
  <2>1. deals' = deals /\ escrows' = escrows /\ meddled' = meddled
    BY <1>2 DEF refresh, Receive, vars, Mine
  <2>2. PlainOK
    BY FundParts
  <2>3. ASSUME NEW c \in Coins, InUse(c) PROVE InUse(c)'
    <3>1. CASE refresh
      BY <2>3, <3>1 DEF InUse, refresh
    <3>2. CASE \E b \in Coins : Receive(b)
      BY <2>2, <2>3, <3>2 DEF InUse, Receive, PlainOK
    <3>3. CASE UNCHANGED vars
      BY <2>3, <3>3 DEF InUse, vars
    <3>4. CASE \E tx \in escrows : Mine(tx)
      BY <2>3, <3>4 DEF InUse, Mine
    <3> QED
      BY <1>2, <3>1, <3>2, <3>3, <3>4
  <2> QED
    BY <2>1, <2>3, TakesNone DEF CoinInv
<1> QED
  BY <1>1, <1>2 DEF Wallet

\* Offers, and answers that need no coins.
LEMMA OfferCoins ==
    ASSUME FundInv, CoinInv, NEW d \in Deals, NEW state, Offer(d, state)
    PROVE  CoinInv'
<1>1. SUFFICES ASSUME Promised PROVE Promised'
  BY DEF CoinInv, Offer
<1>2. PICK rate, S : /\ S \in get_party_params(Collateral, rate)
                     /\ Reserve(S)
                     /\ deals' = [deals EXCEPT ![d] = [NewDeal EXCEPT !.state = state, !.rate = rate,
                                                                      !.inputs = S]]
  BY Zenon DEF Offer
<1>3. [NewDeal EXCEPT !.state = state, !.rate = rate, !.inputs = S].inputs = S
  BY DEF NewDeal
<1>4. \A e \in Deals : deals'[e].inputs = deals[e].inputs \/ (e = d /\ deals'[e].inputs = S)
  BY <1>2, <1>3 DEF FundInv, DealsOK
<1>5. S \subseteq Coins /\ \A c \in S : utxos[c] = "free"
  BY <1>2, SelectsFree
<1>6. onchain' = onchain /\ escrows' = escrows
  BY DEF Offer
<1> QED
  BY <1>1, <1>2, <1>4, <1>5, <1>6, TakesFree

\* Steps of a deal that leave the wallet alone.
LEMMA QuietCoins ==
    ASSUME FundInv, CoinInv, NEW d \in Deals, NEW state,
           ReceiveOffer(d, state) \/ on_accept_message(d) \/ Close(d)
    PROVE  CoinInv'
<1>1. SUFFICES ASSUME Promised PROVE Promised'
  BY DEF CoinInv, ReceiveOffer, on_accept_message, Close
<1>2. onchain' = onchain /\ utxos' = utxos /\ escrows' = escrows
  BY DEF ReceiveOffer, on_accept_message, Close
<1>3. PICK y : y = deals[d] /\ y \in DealRecords
  BY DEF FundInv, DealsOK, DealOK
<1>4. \E x : deals' = [deals EXCEPT ![d] = x] /\ (x.inputs = y.inputs \/ x.inputs = {})
  <2>1. CASE ReceiveOffer(d, state)
    <3>1. PICK rate : deals' = [deals EXCEPT ![d] = [NewDeal EXCEPT !.state = state, !.rate = rate]]
      BY <2>1 DEF ReceiveOffer
    <3>2. [NewDeal EXCEPT !.state = state, !.rate = rate].inputs = {}
      BY DEF NewDeal
    <3> QED
      BY <3>1, <3>2, Zenon
  <2>2. CASE on_accept_message(d)
    <3>1. PICK s : deals' = [deals EXCEPT ![d].state = s]
      BY <2>2 DEF on_accept_message
    <3>2. deals' = [deals EXCEPT ![d] = [y EXCEPT !.state = s]]
      BY <1>3, <3>1 DEF FundInv, DealsOK
    <3>3. [y EXCEPT !.state = s].inputs = y.inputs
      BY <1>3 DEF DealRecords
    <3> QED
      BY <3>2, <3>3, Zenon
  <2>3. CASE Close(d)
    <3>1. PICK i, pnl : deals' = [deals EXCEPT ![d] = [@ EXCEPT !.state = "closed", !.cet = i, !.pnl = pnl]]
      BY <2>3, Zenon DEF Close
    <3>2. [y EXCEPT !.state = "closed", !.cet = i, !.pnl = pnl].inputs = y.inputs
      BY <1>3 DEF DealRecords
    <3> QED
      BY <1>3, <3>1, <3>2, Zenon
  <2> QED
    BY <2>1, <2>2, <2>3
<1>5. \A e \in Deals : deals'[e].inputs = deals[e].inputs \/ deals'[e].inputs = {}
  BY <1>3, <1>4 DEF FundInv, DealsOK
<1>6. \A c \in Coins : InUse(c) => InUse(c)'
  BY <1>2 DEF InUse
<1> QED
  BY <1>1, <1>2, <1>5, <1>6, TakesNone

\* A node accepts a contract or a loan, or sends an escrow.
LEMMA AcceptCoins ==
    ASSUME FundInv, CoinInv, NEW d \in Deals,
           accept_contract_offer(d) \/ send_escrow_transaction(d) \/ accept_loan_contract(d)
    PROVE  CoinInv'
<1>1. SUFFICES ASSUME Promised PROVE Promised'
  BY DEF CoinInv, accept_contract_offer, send_escrow_transaction, accept_loan_contract
<1>2. onchain' = onchain
  BY DEF accept_contract_offer, send_escrow_transaction, accept_loan_contract
<1>3. PICK y : y = deals[d] /\ y \in DealRecords
  BY DEF FundInv, DealsOK, DealOK
<1> DEFINE Kind1(S) == /\ escrows' = escrows
                       /\ \/ deals' = deals
                          \/ \E x : deals' = [deals EXCEPT ![d] = x] /\ x.inputs = S
           Kind2(S) == /\ \E x : deals' = [deals EXCEPT ![d] = x] /\ x.inputs = y.inputs
                       /\ \E tx : tx.inputs = S /\ escrows' = escrows \cup {tx}
<1>4. PICK S : (\E rate : S \in get_party_params(Collateral, rate)) /\ Reserve(S) /\ (Kind1(S) \/ Kind2(S))
  <2>1. CASE accept_contract_offer(d)
    <3>1. PICK S \in get_party_params(Collateral, deals[d].rate) :
             /\ Reserve(S)
             /\ deals' = deals \/ deals' = [deals EXCEPT ![d].state = "accepted", ![d].inputs = S]
      BY <2>1 DEF accept_contract_offer
    <3>2. [deals EXCEPT ![d].state = "accepted", ![d].inputs = S]
          = [deals EXCEPT ![d] = [y EXCEPT !.state = "accepted", !.inputs = S]]
      BY <1>3 DEF FundInv, DealsOK
    <3>3. [y EXCEPT !.state = "accepted", !.inputs = S].inputs = S
      BY <1>3 DEF DealRecords
    <3>4. escrows' = escrows
      BY <2>1 DEF accept_contract_offer
    <3>5. Kind1(S)
      BY <3>1, <3>2, <3>3, <3>4, Zenon
    <3> QED
      BY <3>1, <3>5, Zenon
  <2>2. CASE accept_loan_contract(d)
    <3> DEFINE Built(payouts, first) ==
                  create_loan_expiration_dlc_transactions(
                      create_collateral_transaction(deals[d].escrow), payouts, Collateral, first)
               After(S, payouts, txs) ==
                  IF txs.status # "ok" THEN deals
                  ELSE [deals EXCEPT
                           ![d] = [@ EXCEPT !.state = "loan_accepted", !.inputs = S,
                                            !.collateral = txs.fund, !.payouts = payouts,
                                            !.cets = txs.cets, !.refund = txs.refund]]
    <3>0. PICK S \in get_party_params(Collateral, deals[d].rate), payouts \in Payouts, first \in BOOLEAN :
             Reserve(S) /\ deals' = After(S, payouts, Built(payouts, first))
      BY <2>2, Zenon DEF accept_loan_contract
    <3>1. PICK txs : Reserve(S) /\ deals' = After(S, payouts, txs)
      BY <3>0, Zenon
    <3> DEFINE x == [y EXCEPT !.state = "loan_accepted", !.inputs = S, !.collateral = txs.fund,
                              !.payouts = payouts, !.cets = txs.cets, !.refund = txs.refund]
    <3>2. deals' = deals \/ deals' = [deals EXCEPT ![d] = x]
      BY <1>3, <3>1
    <3>3. x.inputs = S
      BY <1>3 DEF DealRecords
    <3>4. escrows' = escrows
      BY <2>2 DEF accept_loan_contract
    <3>5. Kind1(S)
      BY <3>2, <3>3, <3>4, Zenon
    <3> QED
      BY <3>1, <3>5, Zenon
  <2>3. CASE send_escrow_transaction(d)
    <3>1. PICK S \in get_party_params(Collateral, deals[d].rate) :
             /\ Reserve(S)
             /\ \/ escrows' = escrows /\ deals' = deals
                \/ \E v, c : /\ escrows' = escrows \cup {[inputs |-> S, value |-> v, change |-> c]}
                             /\ deals' = [deals EXCEPT ![d].state = "escrow", ![d].escrow = v]
      BY <2>3 DEF send_escrow_transaction
    <3>2. CASE escrows' = escrows /\ deals' = deals
      BY <3>1, <3>2, Zenon
    <3>3. CASE \E v, c : /\ escrows' = escrows \cup {[inputs |-> S, value |-> v, change |-> c]}
                         /\ deals' = [deals EXCEPT ![d].state = "escrow", ![d].escrow = v]
      <4>1. PICK v, c : /\ escrows' = escrows \cup {[inputs |-> S, value |-> v, change |-> c]}
                        /\ deals' = [deals EXCEPT ![d].state = "escrow", ![d].escrow = v]
        BY <3>3
      <4>2. deals' = [deals EXCEPT ![d] = [y EXCEPT !.state = "escrow", !.escrow = v]]
        BY <1>3, <4>1 DEF FundInv, DealsOK
      <4>3. /\ [y EXCEPT !.state = "escrow", !.escrow = v].inputs = y.inputs
            /\ [inputs |-> S, value |-> v, change |-> c].inputs = S
        BY <1>3 DEF DealRecords
      <4>4. Kind2(S)
        BY <4>1, <4>2, <4>3, Zenon
      <4> QED
        BY <3>1, <4>4, Zenon
    <3> QED
      BY <3>1, <3>2, <3>3
  <2> QED
    BY <2>1, <2>2, <2>3
<1>5. S \subseteq Coins /\ \A c \in S : utxos[c] = "free"
  BY <1>4, SelectsFree
<1>6. CASE Kind1(S)
  <2>1. \A e \in Deals : deals'[e].inputs = deals[e].inputs \/ (e = d /\ deals'[e].inputs = S)
    BY <1>3, <1>6 DEF FundInv, DealsOK
  <2>2. escrows' = escrows
    BY <1>6
  <2> QED
    BY <1>1, <1>2, <1>4, <1>5, <2>1, <2>2, TakesFree
<1>7. CASE Kind2(S)
  <2>1. \A e \in Deals : deals'[e].inputs = deals[e].inputs
    BY <1>3, <1>7 DEF FundInv, DealsOK
  <2>2. \E tx : tx.inputs = S /\ escrows' = escrows \cup {tx}
    BY <1>7
  <2> QED
    BY <1>1, <1>2, <1>4, <1>5, <2>1, <2>2, TakesFree
<1> QED
  BY <1>4, <1>6, <1>7

\* A rejected channel gives its own coins back, which nothing else was promised.
LEMMA RejectCoins ==
    ASSUME FundInv, CoinInv, NEW d \in Deals, on_reject(d)
    PROVE  CoinInv'
<1>1. SUFFICES ASSUME Promised PROVE Promised'
  BY DEF CoinInv, on_reject
<1>2. onchain' = onchain /\ escrows' = escrows
  BY DEF on_reject
<1>3. [NewDeal EXCEPT !.state = "rejected"].inputs = {}
  BY DEF NewDeal
<1>4. deals'[d].inputs = {} /\ \A e \in Deals : e # d => deals'[e] = deals[e]
  BY <1>3 DEF on_reject, FundInv, DealsOK
<1>5. \A c \in Coins : c \notin deals[d].inputs => utxos'[c] = utxos[c]
  BY DEF on_reject, unreserve_utxos
<1>6. \A c \in Coins : c \notin deals[d].inputs /\ InUse(c) => InUse(c)'
  BY <1>2, <1>5 DEF InUse
<1>7. \A e \in Deals : deals[e].inputs \subseteq Coins
  BY DEF FundInv, TypeOK
<1>8. \A tx \in escrows : tx.inputs \subseteq Coins
  BY DEF FundInv, TypeOK
<1>9. \A e, f \in Deals : e # f => deals'[e].inputs \cap deals'[f].inputs = {}
  BY <1>1, <1>4 DEF Promised
<1>10. \A e \in Deals, tx \in escrows : deals'[e].inputs \cap tx.inputs = {}
  BY <1>1, <1>4 DEF Promised
<1>11. \A e \in Deals : \A c \in deals'[e].inputs : InUse(c)'
  BY <1>1, <1>4, <1>6, <1>7 DEF Promised
<1>12. \A tx \in escrows : \A c \in tx.inputs : InUse(c)'
  BY <1>1, <1>6, <1>8 DEF Promised
<1>13. \A tx, other \in escrows : tx # other => tx.inputs \cap other.inputs = {}
  BY <1>1 DEF Promised
<1> QED
  BY <1>2, <1>9, <1>10, <1>11, <1>12, <1>13 DEF Promised

\* Every step keeps the promises.
LEMMA NextCoins == FundInv /\ CoinInv /\ [Next]_vars => CoinInv'
<1> SUFFICES ASSUME FundInv, CoinInv, [Next]_vars PROVE CoinInv'
  OBVIOUS
<1>1. CASE Wallet \/ UNCHANGED vars \/ \E tx \in escrows : Mine(tx)
  BY <1>1, WalletCoins
<1>2. ASSUME NEW d \in Deals,
             \/ Offer(d, "offered") \/ Offer(d, "channel_offered")
             \/ ReceiveOffer(d, "received") \/ ReceiveOffer(d, "loan_received")
             \/ on_accept_message(d) \/ accept_contract_offer(d) \/ on_reject(d)
             \/ send_escrow_transaction(d) \/ accept_loan_contract(d) \/ Close(d)
      PROVE  CoinInv'
  BY <1>2, OfferCoins, QuietCoins, AcceptCoins, RejectCoins
<1> QED
  BY <1>1, <1>2, Zenon DEF Next

\* CoinsFundOneContract for every number of coins and deals: get_utxos_for_amount only looks at
\* coins that are not reserved, every reservation outlives its contract, and the refresh of the
\* wallet never brings a coin back that a contract still counts on.
THEOREM CoinsArePromisedOnce == Spec => []CoinsFundOneContract
<1>1. Init => CoinInv
  <2> SUFFICES ASSUME Init PROVE Promised
    BY DEF CoinInv
  <2>1. NewDeal.inputs = {}
    BY DEF NewDeal
  <2>2. escrows = {} /\ \A d \in Deals : deals[d].inputs = {}
    BY <2>1 DEF Init
  <2> QED
    BY <2>2 DEF Promised
<1>2. CoinInv => CoinsFundOneContract
  <2> SUFFICES ASSUME ~meddled, Promised PROVE CoinsFundOneContract
    BY DEF CoinInv, CoinsFundOneContract
  <2>1. ASSUME NEW c \in UNION ({deals[d].inputs : d \in Deals} \cup {tx.inputs : tx \in escrows})
        PROVE  utxos[c] # "free"
    <3>1. (\E d \in Deals : c \in deals[d].inputs) \/ (\E tx \in escrows : c \in tx.inputs)
      OBVIOUS
    <3> QED
      BY <3>1 DEF Promised, InUse
  <2> QED
    BY <2>1 DEF Promised, CoinsFundOneContract
<1>3. Spec => []CoinInv
  BY <1>1, InitFund, NextFund, NextCoins, PTL DEF Spec
<1> QED
  BY <1>2, <1>3, PTL

=============================================================================
