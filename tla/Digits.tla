------------------------------- MODULE Digits -------------------------------
(***************************************************************************)
(* Numbers as sequences of digits, most significant first                  *)
(* (dlc-trie/src/digit_decomposition.rs and the helpers of utils.rs).      *)
(* Rust indexes from 0, the sequences here from 1.                         *)
(***************************************************************************)
EXTENDS Naturals, Sequences, SequencesExt, FiniteSets, FiniteSetsExt

Repeat(d, n) == [i \in 1 .. n |-> d]

\* The assertion of the code (the value fits in nb_digits) is the caller's.
decompose_value(value, base, nb_digits) ==
    [i \in 1 .. nb_digits |-> (value \div base ^ (nb_digits - i)) % base]

compose_value(digits, base) ==
    FoldLeft(LAMBDA acc, d : acc * base + d, 0, digits)

\* Zeros in front until the length is expected_size.
pre_pad_vec(input, expected_size) ==
    Repeat(0, expected_size - Len(input)) \o input

TakeWhile(s, P(_)) ==
    LET stops == {i \in 1 .. Len(s) : ~P(s[i])}
    IN  IF stops = {} THEN s ELSE SubSeq(s, 1, Min(stops) - 1)

\* How many leading digits the two sequences share.
SharedLen(a, b) ==
    Len(TakeWhile(Zip(a, b), LAMBDA p : p[1] = p[2]))

Drop(s, n) == SubSeq(s, n + 1, Len(s))

=============================================================================
