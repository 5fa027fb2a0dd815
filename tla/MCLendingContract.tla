------------------------- MODULE MCLendingContract -------------------------
(***************************************************************************)
(* LendingContract for TLC: model values for accounts and addresses, and   *)
(* the permutations of the accounts, which no definition tells apart.      *)
(***************************************************************************)
EXTENDS LendingContract, TLC

CONSTANTS a1, a2, lendingContract, addr, empty

AccountSymmetry == Permutations(Accounts)

=============================================================================
