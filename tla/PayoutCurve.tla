----------------------------- MODULE PayoutCurve -----------------------------
(***************************************************************************)
(* Payout functions, their rounding and the range payouts computed from    *)
(* them (dlc-manager/src/payout_curve.rs). f64 values are exact fractions  *)
(* [num, den]; a den of 0 is a result that is not a number. A polynomial   *)
(* piece is a sequence of points; a hyperbola piece is modelled for b = 0  *)
(* and c = 0, the shape of the sample loan contract                        *)
(* (examples/contracts/sample_loan_expiration.json): a * d divided by the  *)
(* translated outcome. Payouts are the offering party's.                   *)
(***************************************************************************)
EXTENDS Integers, Sequences, SequencesExt, FiniteSetsExt

CONSTANT Precision    \* Units of PayoutPoint::extra_precision, 2^16 in the code.

ASSUME PrecisionAssumption == Precision \in Nat \ {0}

IsHyperbola(piece) == piece.kind = "hyperbola"

get_first_point(piece) == Head(piece.points)
get_last_point(piece)  == Last(piece.points)

get_first_outcome(piece) == get_first_point(piece).outcome
get_last_outcome(piece)  == get_last_point(piece).outcome

\* PayoutPoint::get_outcome_payout, as a numerator over Precision.
get_outcome_payout(point) == point.payout * Precision + point.extra

Product(S, f(_)) == FoldSet(LAMBDA x, acc : f(x) * acc, 1, S)
Sum(S, f(_))     == FoldSet(LAMBDA x, acc : f(x) + acc, 0, S)

\* Two points: a line through the payouts without their extra precision.
Linear(l, r, outcome) ==
    [num |-> (outcome - l.outcome) * (r.payout - l.payout)
             + l.payout * (r.outcome - l.outcome),
     den |-> r.outcome - l.outcome]

\* Lagrange interpolation through all points, over one common denominator.
Lagrange(points, outcome) ==
    LET I == 1 .. Len(points)
        Den(i) == Product(I \ {i}, LAMBDA j : points[i].outcome - points[j].outcome)
        Num(i) == Product(I \ {i}, LAMBDA j : outcome - points[j].outcome)
        all    == Product(I, Den)
        num    == Sum(I, LAMBDA i : get_outcome_payout(points[i]) * Num(i)
                                    * Product(I \ {i}, Den))
    IN  IF all > 0 THEN [num |-> num, den |-> all * Precision]
        ELSE [num |-> -num, den |-> -all * Precision]

\* With b = 0 the square root is the distance to the translation point: on one
\* side of it the two branches add up, on the other they cancel out and the
\* quotient is not a number.
Hyperbola(piece, outcome) ==
    LET t == outcome - piece.translate
    IN  IF piece.positive = (t > 0) /\ t # 0
        THEN IF t > 0 THEN [num |-> piece.ad, den |-> t] ELSE [num |-> -piece.ad, den |-> -t]
        ELSE [num |-> 0, den |-> 0]

evaluate(piece, outcome) ==
    CASE IsHyperbola(piece) -> Hyperbola(piece, outcome)
      [] ~IsHyperbola(piece) /\ Len(piece.points) = 2 ->
           Linear(piece.points[1], piece.points[2], outcome)
      [] OTHER -> Lagrange(piece.points, outcome)

\* The modulus of the last interval that begins at or before outcome.
RoundingMod(intervals, outcome) ==
    intervals[Max({i \in DOMAIN intervals : intervals[i].begin <= outcome})].mod

\* RoundingIntervals::round: to the nearest multiple, halves up.
round(intervals, outcome, v) ==
    LET mod  == RoundingMod(intervals, outcome)
        k    == v.num \div (v.den * mod)
        rest == v.num - k * v.den * mod
    IN  IF 2 * rest >= mod * v.den THEN (k + 1) * mod ELSE k * mod

\* f64::round of a value that is not negative.
Nearest(v) == (2 * v.num + v.den) \div (2 * v.den)

\* Whether get_rounded_payout returns Err.
EvaluationFails(piece, outcome, total) ==
    LET v == evaluate(piece, outcome)
    IN  v.den = 0 \/ v.num < 0 \/ Nearest(v) > total

get_rounded_payout(piece, outcome, intervals, total) ==
    Min({round(intervals, outcome, evaluate(piece, outcome)), total})

RangePayout(start, count, payout) == [start |-> start, count |-> count, payout |-> payout]

IsFlat(piece) ==
    /\ ~IsHyperbola(piece)
    /\ Len(piece.points) = 2
    /\ piece.points[1].payout = piece.points[2].payout

\* The ranges the piece goes on with: the last one is the current range.
get_cur_range(piece, intervals, total, ranges) ==
    IF ranges # <<>> THEN ranges
    ELSE LET o == get_first_outcome(piece)
         IN  <<RangePayout(o, 1, get_rounded_payout(piece, o, intervals, total))>>

\* Mutant: a new range is empty.
AddOutcomeUncounted(piece, intervals, total, ranges, outcome) ==
    LET payout == get_rounded_payout(piece, outcome, intervals, total)
    IN  IF Last(ranges).payout = payout
        THEN [ranges EXCEPT ![Len(ranges)].count = @ + 1]
        ELSE Append(ranges, RangePayout(outcome, 0, payout))

\* One more outcome: it extends the current range or begins a new one.
AddOutcome(piece, intervals, total, ranges, outcome) ==
    LET payout == get_rounded_payout(piece, outcome, intervals, total)
    IN  IF Last(ranges).payout = payout
        THEN [ranges EXCEPT ![Len(ranges)].count = @ + 1]
        ELSE Append(ranges, RangePayout(outcome, 1, payout))

\* The loop over the outcomes after the first.
compute_range_payouts(piece, intervals, total, ranges) ==
    LET first == get_first_outcome(piece)
        upTo[n \in Nat] ==
            IF n = 0 THEN get_cur_range(piece, intervals, total, ranges)
            ELSE AddOutcome(piece, intervals, total, upTo[n - 1], first + n)
    IN  upTo[get_last_outcome(piece) - first]

\* A flat piece extends the current range without looking at its outcomes.
to_range_payouts(piece, intervals, total, ranges) ==
    IF IsFlat(piece)
    THEN LET cur == get_cur_range(piece, intervals, total, ranges)
         IN  [cur EXCEPT ![Len(cur)].count = @ + get_last_outcome(piece)
                                               - get_first_outcome(piece)]
    ELSE compute_range_payouts(piece, intervals, total, ranges)

\* The outcomes the piece is evaluated at, given the ranges so far.
EvaluatedOutcomes(piece, ranges) ==
    (IF ranges = <<>> THEN {get_first_outcome(piece)} ELSE {})
    \cup (IF IsFlat(piece) THEN {} ELSE (get_first_outcome(piece) + 1) .. get_last_outcome(piece))

RangePayoutsFail(piece, total, ranges) ==
    \E o \in EvaluatedOutcomes(piece, ranges) : EvaluationFails(piece, o, total)

is_continuous(pieces) ==
    \A i \in 1 .. (Len(pieces) - 1) : get_last_point(pieces[i]) = get_first_point(pieces[i + 1])

\* PayoutFunction::validate. Where a first hyperbola piece begins is not looked
\* at: the comparison is commented out.
payout_function_validate(pieces, max_value) ==
    /\ is_continuous(pieces)
    /\ IsHyperbola(Head(pieces)) \/ get_first_outcome(Head(pieces)) = 0
    /\ get_last_outcome(Last(pieces)) = max_value

rounding_intervals_validate(intervals) ==
    /\ intervals # <<>>
    /\ intervals[1].begin = 0
    /\ \A i \in 2 .. Len(intervals) : intervals[i - 1].begin < intervals[i].begin

=============================================================================
