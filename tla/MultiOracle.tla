----------------------------- MODULE MultiOracle -----------------------------
(***************************************************************************)
(* Which prefixes of the other oracles close a contract together with a    *)
(* prefix of the main one (dlc-trie/src/multi_oracle.rs), and the paths    *)
(* for values that only oracles with more digits can express (utils.rs).   *)
(* The base is 2. A combination has one path per oracle, the main oracle   *)
(* (the one with the fewest digits) first.                                 *)
(***************************************************************************)
EXTENDS DigitGroups

\* What the code returns as Err(()) and drops.
NoPrefix == <<2>>

adjust_prefix_size(prefix, nb_digits, suffix_len) ==
    LET extra == Len(prefix) - (nb_digits - suffix_len)
    IN  CASE extra <= 0 -> pre_pad_vec(prefix, nb_digits - suffix_len)
          [] extra > 0 /\ \A i \in 1 .. extra : prefix[i] = 0 -> Drop(prefix, extra)
          [] OTHER -> NoPrefix

\* The leading digits of input, ignored_digits cut off.
num_to_vec(input, nb_digits, ignored_digits) ==
    SubSeq(decompose_value(input, 2, nb_digits), 1, nb_digits - ignored_digits)

\* The same prefix for every other oracle.
single_covering_prefix_combinations(main, other, nbDigits, suffix_len) ==
    [i \in 1 .. Len(nbDigits) |->
        IF i = 1 THEN adjust_prefix_size(main, nbDigits[1], suffix_len)
        ELSE adjust_prefix_size(other, nbDigits[i], Len(main) - Len(other) + suffix_len)]

LexLeq(a, b) ==
    LET n == SharedLen(a, b)
    IN  n = Len(a) \/ (n < Len(b) /\ a[n + 1] <= b[n + 1])

\* Every choice of left or right for the other oracles, as counted by the bits
\* of 0 .. 2^(n-1) - 1; bit j belongs to the (n - 1 - j)-th other oracle because
\* the code reverses. A choice with an oracle that cannot express it is dropped.
double_covering_prefix_combinations(main, left, right, nbDigits, suffix_len) ==
    LET n == Len(nbDigits)
        first  == IF LexLeq(left, right) THEN left ELSE right
        second == IF LexLeq(left, right) THEN right ELSE left
        Bit(k, j) == (k \div 2 ^ j) % 2
        Raw(k) == [i \in 1 .. n |-> IF i = 1 THEN main
                                    ELSE IF Bit(k, n - i) = 0 THEN first ELSE second]
        Trimmed(k) == [i \in 1 .. n |->
            adjust_prefix_size(Raw(k)[i], nbDigits[i],
                               Len(main) + suffix_len - Len(Raw(k)[i]))]
    IN  SelectSeq([k \in 1 .. 2 ^ (n - 1) |-> Trimmed(k - 1)],
                  LAMBDA c : \A i \in 1 .. n : c[i] # NoPrefix)

\* The same without the combination that has main everywhere.
double_covering_restricted_prefix_combinations(main, other, nbDigits, suffix_len) ==
    LET Rest(all) == IF LexLeq(main, other) THEN Tail(all) ELSE Front(all)
    IN  Rest(double_covering_prefix_combinations(main, main, other, nbDigits, suffix_len))

(***************************************************************************)
(* compute_outcome_combinations with maximize_coverage, the only value     *)
(* MultiOracleTrieWithDiff::new passes. p holds the main prefix as digits  *)
(* of the code's min_num_digits: one more than the main oracle has when    *)
(* another oracle has more, so that values above the main oracle's maximum *)
(* can be covered.                                                         *)
(***************************************************************************)
SmallInterval(p, start, end, digits, suffix_len, nbDigits, maxErrorExp, minSupportExp) ==
    LET maxError   == 2 ^ maxErrorExp
        minSupport == 2 ^ minSupportExp
        leftBound  == (start \div maxError) * maxError
        rightBound == leftBound + maxError - 1
        maxNum     == 2 ^ digits - 1
        around     == num_to_vec(leftBound, digits, maxErrorExp)
        before     == num_to_vec(leftBound - maxError \div 2, digits, maxErrorExp - 1)
        after      == num_to_vec(rightBound + 1, digits, maxErrorExp - 1)
        Single     == <<single_covering_prefix_combinations(p, around, nbDigits, suffix_len)>>
        Double(q)  == double_covering_prefix_combinations(p, around, q, nbDigits, suffix_len)
    IN  CASE start % maxError >= minSupport /\ end <= rightBound - minSupport -> Single
          [] start % maxError < minSupport ->
               IF leftBound = 0 THEN Single ELSE Double(before)
          [] start % maxError >= minSupport /\ end > rightBound - minSupport ->
               IF rightBound = maxNum THEN Single ELSE Double(after)

LargeInterval(p, start, end, digits, suffix_len, nbDigits, maxErrorExp) ==
    LET half == 2 ^ (maxErrorExp - 1)
        Edge(inside, outside) ==
            double_covering_restricted_prefix_combinations(
                num_to_vec(inside, digits, maxErrorExp - 1),
                num_to_vec(outside, digits, maxErrorExp - 1),
                nbDigits, maxErrorExp - 1)
    IN  (IF start # 0 THEN Edge(start, start - half) ELSE <<>>)
        \o <<single_covering_prefix_combinations(p, p, nbDigits, suffix_len)>>
        \o (IF end # 2 ^ digits - 1 THEN Edge(end - half + 1, end + 1) ELSE <<>>)

compute_outcome_combinations(nbDigits, mainPrefix, maxErrorExp, minSupportExp) ==
    LET alike  == \A i \in 1 .. Len(nbDigits) : nbDigits[i] = nbDigits[1]
        digits == IF alike THEN nbDigits[1] ELSE nbDigits[1] + 1
        p      == IF alike THEN mainPrefix ELSE <<0>> \o mainPrefix
        suffix_len == digits - Len(p)
        interval   == IntervalOf(p, 2, digits)
        start == Min(interval)
        end   == Max(interval)
    IN  IF suffix_len < maxErrorExp
        THEN SmallInterval(p, start, end, digits, suffix_len, nbDigits,
                           maxErrorExp, minSupportExp)
        ELSE LargeInterval(p, start, end, digits, suffix_len, nbDigits, maxErrorExp)

(***************************************************************************)
(* get_max_covering_paths: for every selection with an oracle of more than *)
(* the minimum of digits, the paths above that minimum: the oracles that   *)
(* have just the minimum at their maximum, the others at 0..01 with the 1  *)
(* in one of the extra digits.                                             *)
(***************************************************************************)
get_max_covering_paths(nbDigits, threshold) ==
    LET minDigits == Min({nbDigits[i] : i \in 1 .. Len(nbDigits)})
        Extra(sel, i) == nbDigits[sel[i]] - minDigits
        Counters(sel) ==
            {c \in [1 .. threshold -> 0 .. Max({nbDigits[i] - minDigits : i \in DOMAIN nbDigits})] :
                \A i \in 1 .. threshold :
                    IF Extra(sel, i) = 0 THEN c[i] = 0 ELSE c[i] \in 1 .. Extra(sel, i)}
        \* The first counter runs fastest.
        Before(a, b) == \E i \in 1 .. threshold :
                            a[i] < b[i] /\ \A j \in (i + 1) .. threshold : a[j] = b[j]
        PathOf(k) == IF k = 0 THEN Repeat(1, minDigits) ELSE Append(Repeat(0, k - 1), 1)
        Paths(sel) ==
            IF \A i \in 1 .. threshold : Extra(sel, i) = 0 THEN <<>>
            ELSE LET cs == SetToSortSeq(Counters(sel), Before)
                 IN  [k \in 1 .. Len(cs) |->
                        [indexes |-> sel,
                         paths   |-> [i \in 1 .. threshold |-> PathOf(cs[k][i])]]]
        sels == CombinationIterator(Len(nbDigits), threshold)
    IN  FlattenSeq([k \in 1 .. Len(sels) |-> Paths(sels[k])])

=============================================================================
