--------------------------- MODULE MCLoanProtocol ---------------------------
(***************************************************************************)
(* LoanProtocol for TLC: model values for the nodes, the offers and the    *)
(* contract's address, and the environments.                               *)
(***************************************************************************)
EXTENDS LoanProtocol

CONSTANTS alice, bob, lendingContract, o1, o2, noOffer, noPreimage

\* One offer, nothing fails; its acceptance may be repeated.
OneOffer ==
    [offers |-> {o1}, sigs |-> {TRUE}, lossy |-> FALSE, patient |-> TRUE, kills |-> 0]

\* Two offers, one killed process, lossy links, signatures that may not verify.
Rough ==
    [offers |-> {o1, o2}, sigs |-> {TRUE, FALSE}, lossy |-> TRUE, patient |-> FALSE, kills |-> 1]

\* One offer and one killed process.
OneKill == [OneOffer EXCEPT !.patient = FALSE, !.kills = 1]

AnyWeather == {OneOffer, Rough}
OnlyOneKill == {OneKill}
=============================================================================
