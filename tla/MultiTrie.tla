------------------------------ MODULE MultiTrie ------------------------------
(***************************************************************************)
(* The trie of tries of dlc-trie/src/multi_trie.rs. A path is one digit    *)
(* path per selected oracle; a digit trie of an oracle that is not the     *)
(* last of a path holds, per next oracle, the trie to go on in. The arena  *)
(* (store, store_index) becomes nesting. Roots are functions from the      *)
(* first oracle of a selection to its trie.                                *)
(***************************************************************************)
EXTENDS DigitTrie, MultiOracle

NbRoots(nb_tries, nb_required) == nb_tries - nb_required + 1

EmptyRoots(nb_tries, nb_required) == [i \in 1 .. NbRoots(nb_tries, nb_required) |-> NoTrie]

\* insert_internal of MultiTrie, from the k-th path on.
RECURSIVE InsertPaths(_, _, _, _, _)
InsertPaths(t, indexes, paths, k, value) ==
    IF k = Len(paths) THEN insert_internal(t, paths[k], value, 2)
    ELSE LET old  == DataAt(t, paths[k])
             next == indexes[k + 1]
             subs == IF old = <<>> THEN [i \in {} |-> NoTrie] ELSE old[1]
             sub  == IF next \in DOMAIN subs THEN subs[next] ELSE NoTrie
             new  == InsertPaths(sub, indexes, paths, k + 1, value)
         IN  insert_internal(t, paths[k],
                             [i \in DOMAIN subs \cup {next} |->
                                 IF i = next THEN new ELSE subs[i]], 2)

InsertAtRoot(roots, indexes, paths, value) ==
    [roots EXCEPT ![indexes[1]] = InsertPaths(@, indexes, paths, 1, value)]

\* Mutant: the path of the main oracle stays in front.
MainFirstCombinations(nbDigits, selector, path, maxErrorExp, minSupportExp) ==
    LET chosen == [i \in 1 .. Len(selector) |-> nbDigits[selector[i]]]
        fewest == Min({chosen[i] : i \in DOMAIN chosen})
        minIndex == Min({i \in DOMAIN chosen : chosen[i] = fewest})
    IN  compute_outcome_combinations(<<fewest>> \o RemoveAt(chosen, minIndex), path,
                                     maxErrorExp, minSupportExp)

\* The combinations insert covers for one selection of oracles: the main oracle
\* is the first with the fewest digits, and goes back to its place.
SelectionCombinations(nbDigits, selector, path, maxErrorExp, minSupportExp) ==
    LET chosen   == [i \in 1 .. Len(selector) |-> nbDigits[selector[i]]]
        fewest   == Min({chosen[i] : i \in DOMAIN chosen})
        minIndex == Min({i \in DOMAIN chosen : chosen[i] = fewest})
        mainFirst == <<fewest>> \o RemoveAt(chosen, minIndex)
        overall  == Min({nbDigits[i] : i \in DOMAIN nbDigits})
        padded   == pre_pad_vec(path, Len(path) + fewest - overall)
        combs    == compute_outcome_combinations(mainFirst, padded, maxErrorExp, minSupportExp)
        Restored(cs) == [c \in DOMAIN cs |-> InsertAt(Tail(cs[c]), minIndex, cs[c][1])]
    IN  Restored(combs)

\* The <<indexes, paths>> under which insert stores one group, in its order.
InsertedPaths(nbDigits, nb_required, path, maxErrorExp, minSupportExp) ==
    LET sels == CombinationIterator(Len(nbDigits), nb_required)
        Of(sel) == IF nb_required > 1
                   THEN SelectionCombinations(nbDigits, sel, path, maxErrorExp, minSupportExp)
                   ELSE <<<<path>>>>
        Under(sel, paths) == [c \in DOMAIN paths |-> [indexes |-> sel, paths |-> paths[c]]]
    IN  FlattenSeq([s \in DOMAIN sels |-> Under(sels[s], Of(sels[s]))])

\* look_up_internal of MultiTrie: the entries that match, first to last; the
\* code stops at the first. given is a sequence of [index, digits].
RECURSIVE MatchingEntries(_, _, _)
MatchingEntries(t, given, k) ==
    LET found == look_up_internal(t, given[k].digits)
        Here(l) == [index |-> given[k].index, path |-> l.path]
        Below(l) ==
            IF given[k + 1].index \notin DOMAIN l.value THEN <<>>
            ELSE LET rest == MatchingEntries(l.value[given[k + 1].index], given, k + 1)
                 IN  [r \in 1 .. Len(rest) |-> [rest[r] EXCEPT !.path = <<Here(l)>> \o @]]
    IN  IF k = Len(given)
        THEN IF found = <<>> THEN <<>>
             ELSE <<[value |-> found[1].value, path |-> <<Here(found[1])>>]>>
        ELSE FlattenSeq([l \in 1 .. Len(found) |-> Below(found[l])])

\* look_up: the first selection of the given paths with a match; <<>> is None.
LookUpPaths(roots, nb_required, given) ==
    LET sels == IF Len(given) < nb_required THEN <<>>
                ELSE CombinationIterator(Len(given), nb_required)
        Of(sel) == LET chosen == [i \in 1 .. nb_required |-> given[sel[i]]]
                   IN  IF chosen[1].index \notin DOMAIN roots THEN <<>>
                       ELSE MatchingEntries(roots[chosen[1].index], chosen, 1)
        matching == {s \in 1 .. Len(sels) : Of(sels[s]) # <<>>}
    IN  IF matching = {} THEN <<>> ELSE <<Of(sels[Min(matching)])[1]>>

\* MultiTrieIterator: every entry with its indexes and paths.
RECURSIVE EntriesFrom(_, _, _)
EntriesFrom(index, t, more) ==
    IF more = 0
    THEN {[indexes |-> <<index>>, paths |-> <<e.path>>, value |-> e.value] : e \in Entries(t)}
    ELSE UNION {UNION {{[indexes |-> <<index>> \o r.indexes,
                         paths   |-> <<e.path>> \o r.paths,
                         value   |-> r.value] : r \in EntriesFrom(i, e.value[i], more - 1)} :
                       i \in DOMAIN e.value} : e \in Entries(t)}

AllEntries(roots, nb_required) ==
    UNION {EntriesFrom(i, roots[i], nb_required - 1) : i \in DOMAIN roots}

=============================================================================
