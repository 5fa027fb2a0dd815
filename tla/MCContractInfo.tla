--------------------------- MODULE MCContractInfo ---------------------------
(***************************************************************************)
(* Contracts for model checking ContractInfo. Numbers have 3 digits or     *)
(* more: 8 outcomes, a total collateral of 12.                             *)
(***************************************************************************)
EXTENDS ContractInfo

Pt(o, p) == [outcome |-> o, payout |-> p, extra |-> 0]

Poly(points) == [kind |-> "polynomial", points |-> points]

Hyper(points, ad) == [kind |-> "hyperbola", points |-> points, translate |-> 0,
                      positive |-> TRUE, ad |-> ad]

\* A bond: rising and then flat; the last piece pays the whole collateral.
Bond == <<Poly(<<Pt(0, 0), Pt(5, 12)>>), Poly(<<Pt(5, 12), Pt(7, 12)>>)>>

\* The shape of the sample loan: all the collateral up to 3, then a hyperbola.
Loan == <<Poly(<<Pt(0, 12), Pt(2, 12)>>), Hyper(<<Pt(2, 12), Pt(7, 3)>>, 24)>>

\* Nothing is said about the outcomes before the hyperbola.
Gap == <<Hyper(<<Pt(2, 12), Pt(7, 3)>>, 24)>>

\* A parabola with its top inside: outcomes apart from each other pay the same.
Arc == <<Poly(<<Pt(0, 0), Pt(4, 12), Pt(7, 2)>>)>>

\* Drops under zero between its points: an evaluation fails.
Dip == <<Poly(<<Pt(0, 4), Pt(4, 0), Pt(7, 9)>>)>>

\* Flat where the rounding changes: the payout is not rounded again.
Plateau == <<Poly(<<Pt(0, 0), Pt(2, 7)>>), Poly(<<Pt(2, 7), Pt(5, 7)>>),
             Poly(<<Pt(5, 7), Pt(7, 12)>>)>>

Even == <<Poly(<<Pt(0, 6), Pt(7, 6)>>)>>

Short == <<Poly(<<Pt(0, 0), Pt(6, 12)>>)>>

Fine   == <<[begin |-> 0, mod |-> 1]>>
Coarse == <<[begin |-> 0, mod |-> 1], [begin |-> 3, mod |-> 5]>>

NoDiff == <<>>
Diff(maxErrorExp, minSupportExp) ==
    <<[maxErrorExp |-> maxErrorExp, minSupportExp |-> minSupportExp]>>

Num(pieces, intervals, nbDigits, threshold, diff) ==
    [kind |-> "numerical", pieces |-> pieces, intervals |-> intervals, total |-> 12,
     nbDigits |-> nbDigits, threshold |-> threshold, diff |-> diff]

Enum(events, outcome_payouts, threshold) ==
    [kind |-> "enum", events |-> events, outcome_payouts |-> outcome_payouts,
     threshold |-> threshold]

OutcomePayouts == <<[outcome |-> "a", payout |-> 12], [outcome |-> "b", payout |-> 0],
                    [outcome |-> "c", payout |-> 5]>>

MCContracts ==
    { Num(Bond, Fine, <<3>>, 1, NoDiff),
      Num(Arc, Coarse, <<3>>, 1, NoDiff),
      Num(Loan, Fine, <<3, 3>>, 2, NoDiff),
      Num(Arc, Fine, <<4, 3>>, 1, NoDiff),
      Num(Loan, Coarse, <<3, 4, 3>>, 2, NoDiff),
      Num(Bond, Fine, <<3, 3>>, 2, Diff(2, 0)),
      Num(Arc, Coarse, <<3, 3>>, 2, Diff(2, 1)),
      Num(Loan, Fine, <<3, 4>>, 2, Diff(2, 1)),
      Num(Loan, Fine, <<3, 3, 3>>, 2, Diff(1, 0)),
      Num(Arc, Fine, <<4, 3, 3>>, 2, Diff(2, 1)),
      Num(Bond, Coarse, <<4, 3, 5>>, 2, NoDiff),
      Num(Arc, Fine, <<3, 3, 3>>, 1, NoDiff),
      Num(Arc, Fine, <<3, 4, 3>>, 3, Diff(2, 1)),
      Num(Arc, Fine, <<3, 4>>, 1, Diff(2, 1)),
      Num(Arc, Fine, <<3, 3>>, 1, Diff(2, 1)),
      Num(Plateau, Coarse, <<3>>, 1, NoDiff),
      Num(Loan, Fine, <<3, 4, 4>>, 2, Diff(2, 0)),
      Num(Gap, Fine, <<3, 3>>, 2, NoDiff),
      Num(Gap, Fine, <<3, 4>>, 2, Diff(2, 0)),
      Num(Dip, Fine, <<3>>, 1, NoDiff),
      Num(Even, Fine, <<3>>, 1, NoDiff),
      Num(Short, Fine, <<3>>, 1, NoDiff),
      Num(Bond, Fine, <<3, 3>>, 2, Diff(1, 1)),
      Enum(<<<<"a", "b", "c">>, <<"b", "c", "a">>, <<"a", "b", "c">>>>, OutcomePayouts, 2),
      Enum(<<<<"a", "b">>>>, OutcomePayouts, 1) }

=============================================================================
