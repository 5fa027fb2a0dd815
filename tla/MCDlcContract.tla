--------------------------- MODULE MCDlcContract ---------------------------
(***************************************************************************)
(* Oracles that mature together, one after the other, or so far apart that *)
(* no refund lock time suits the dates.                                    *)
(***************************************************************************)
EXTENDS DlcContract, TLC

MCMaturities == {[i \in Oracles |-> 1],
                 [i \in Oracles |-> NbOracles + 1 - i],
                 [i \in Oracles |-> IF i = 1 THEN 4 ELSE 1]}

=============================================================================
