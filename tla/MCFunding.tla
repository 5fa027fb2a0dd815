----------------------------- MODULE MCFunding -----------------------------
(***************************************************************************)
(* Coins that are too small, that cover what the wallet looks for but not  *)
(* the fees, that fall into the 100 satoshi above what is required, and    *)
(* that are enough.                                                        *)
(***************************************************************************)
EXTENDS Funding, TLC

MCValues == {<<5300, 5400, 30000>>, <<10300, 10700, 30000>>, <<30000, 12000, 10900>>}
Symmetry == Permutations(Deals)
MCPeer == [inputs |-> 1, amount |-> 30000, collateral |-> 10000]
MCPayouts == {<<[offer |-> 0, accept |-> 10000], [offer |-> 4000, accept |-> 6000],
                [offer |-> 999, accept |-> 9001], [offer |-> 1000, accept |-> 9000]>>,
              <<[offer |-> 10000, accept |-> 10000]>>}

=============================================================================
