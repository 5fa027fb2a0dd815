--------------------------- MODULE EnumDescriptor ---------------------------
(***************************************************************************)
(* Contracts on an enumerated event                                        *)
(* (dlc-manager/src/contract/enum_descriptor.rs). One CET per outcome, and *)
(* one adaptor signature per outcome and selection of threshold oracles:   *)
(* sels is what CombinationIterator yields.                                *)
(***************************************************************************)
EXTENDS Digits

\* What contract/utils.rs compares: the outcomes with their multiplicities.
CountOf(s) == [x \in Range(s) |-> Cardinality({i \in DOMAIN s : s[i] = x})]

unordered_equal(a, b) == CountOf(a) = CountOf(b)

\* EnumDescriptor::validate, after ContractDescriptor::validate has compared
\* the events of the oracles with the first.
enum_validate(events, outcome_payouts) ==
    /\ \A i \in DOMAIN events : unordered_equal(events[1], events[i])
    /\ unordered_equal(events[1],
                       [i \in DOMAIN outcome_payouts |-> outcome_payouts[i].outcome])

\* The adaptor signatures in the order of iter_outcomes: per outcome, per selection.
iter_outcomes(outcome_payouts, sels, threshold) ==
    LET n == Len(sels)
    IN  [a \in 1 .. Len(outcome_payouts) * n |->
            LET cet == (a - 1) \div n + 1
                sel == sels[((a - 1) % n) + 1]
            IN  [indexes |-> sel,
                 paths   |-> [k \in 1 .. threshold |-> <<outcome_payouts[cet].outcome>>],
                 value   |-> [cet |-> cet, adaptor |-> a]]]

\* get_majority_combination: a largest group of oracles that attested the same.
\* Groups of the same size are in the order of a hash map: any of them.
get_majority_combination(given) ==
    LET Group(d) == SelectSeq(given, LAMBDA g : g.digits = d)
        groups == {Group(given[i].digits) : i \in DOMAIN given}
    IN  {g \in groups : \A h \in groups : Len(h) <= Len(g)}

\* EnumDescriptor::get_range_info_for_outcome, as the set of possible answers;
\* <<>> is None.
enum_range_info(outcome_payouts, sels, threshold, given) ==
    LET Answer(g) ==
            LET chosen == [k \in 1 .. threshold |-> g[k].index]
                pos == Min({i \in DOMAIN outcome_payouts :
                            outcome_payouts[i].outcome = g[1].digits[1]})
                combPos == CHOOSE c \in DOMAIN sels : sels[c] = chosen
            IN  IF Len(g) < threshold THEN <<>>
                ELSE <<[value |-> [cet |-> pos,
                                   adaptor |-> Len(sels) * (pos - 1) + combPos],
                        path  |-> [k \in 1 .. threshold |->
                                      [index |-> chosen[k], path |-> <<g[1].digits[1]>>]]]>>
    IN  IF Len(given) < threshold THEN {<<>>}
        ELSE {Answer(g) : g \in get_majority_combination(given)}

=============================================================================
