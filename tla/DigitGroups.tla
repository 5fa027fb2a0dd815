---------------------------- MODULE DigitGroups ----------------------------
(***************************************************************************)
(* The prefixes of digit sequences that stand for intervals                *)
(* (dlc-trie/src/digit_decomposition.rs) and the selections of oracles in  *)
(* the order of dlc-trie/src/combination_iterator.rs.                      *)
(***************************************************************************)
EXTENDS Digits

\* Trailing digits equal to to_remove go, all but the first digit.
remove_tail(v, to_remove) ==
    LET keep == {i \in 2 .. Len(v) : v[i] # to_remove} \cup {1}
    IN  SubSeq(v, 1, Max(keep))

Increment(v) == [v EXCEPT ![Len(v)] = @ + 1]

(***************************************************************************)
(* The three loops of group_by_ignoring_digits. Each takes the stack and   *)
(* the prefixes listed so far.                                             *)
(***************************************************************************)
RECURSIVE Climb(_, _, _)
Climb(stack, list, base) ==
    IF Len(stack) = 1 THEN <<stack, list>>
    ELSE CASE Last(stack) = base - 1 ->
                Climb(Increment(remove_tail(Front(stack), base - 1)),
                      Append(list, stack), base)
           [] Last(stack) = 0 ->
                Climb(remove_tail(stack, 0), list, base)
           [] OTHER ->
                Climb(Increment(stack), Append(list, stack), base)

Cross(first, last) == [i \in 1 .. (last - first) |-> <<first + i - 1>>]

RECURSIVE Descend(_, _, _)
Descend(stack, list, de) ==
    IF stack = de THEN Append(list, de)
    ELSE IF Last(stack) = de[Len(stack)]
         THEN Descend(Append(stack, 0), list, de)
         ELSE Descend(Increment(stack), Append(list, stack), de)

\* The prefixes that cover the interval start .. end.
group_by_ignoring_digits(start, end, base, nb_digits) ==
    LET s      == decompose_value(start, base, nb_digits)
        e      == decompose_value(end, base, nb_digits)
        shared == SharedLen(s, e)
        prefix == SubSeq(s, 1, shared)
        ds     == Drop(s, shared)
        de     == Drop(e, shared)
        dsCut  == remove_tail(ds, 0)
        deCut  == remove_tail(de, base - 1)
        climbed == Climb(dsCut, <<>>, base)
        crossed == climbed[2] \o Cross(climbed[1][1], deCut[1])
        list    == Descend(<<deCut[1]>>, crossed, deCut)
    IN  IF /\ \A i \in 1 .. Len(ds) : ds[i] = 0
           /\ \A i \in 1 .. Len(de) : de[i] = base - 1
        THEN <<prefix>>
        ELSE [i \in 1 .. Len(list) |-> prefix \o list[i]]

\* The numbers with nb_digits digits that start with prefix.
IntervalOf(prefix, base, nb_digits) ==
    LET width == base ^ (nb_digits - Len(prefix))
        from  == compose_value(prefix, base) * width
    IN  from .. (from + width - 1)

(***************************************************************************)
(* CombinationIterator: the selections of nb_selected indexes out of       *)
(* 1 .. nb_elements, in the order in which the iterator yields them.       *)
(***************************************************************************)
NextSelector(selector, nb_elements) ==
    LET k == Len(selector)
        bumped == Max({1} \cup {i \in 1 .. k : selector[i] # nb_elements - (k - i)})
    IN  [i \in 1 .. k |-> IF i < bumped THEN selector[i]
                          ELSE selector[bumped] + 1 + (i - bumped)]

RECURSIVE SelectorsFrom(_, _)
SelectorsFrom(selector, nb_elements) ==
    IF selector[1] = nb_elements - Len(selector) + 2 THEN <<>>
    ELSE <<selector>> \o SelectorsFrom(NextSelector(selector, nb_elements), nb_elements)

CombinationIterator(nb_elements, nb_selected) ==
    SelectorsFrom([i \in 1 .. nb_selected |-> i], nb_elements)

=============================================================================
