---------------------------- MODULE ContractInfo ----------------------------
(***************************************************************************)
(* How ContractCets is implemented (contract_info.rs,                      *)
(* numerical_descriptor.rs, enum_descriptor.rs and the crate dlc-trie):    *)
(* every range is cut into digit prefixes, each prefix and selection of    *)
(* oracles gets one adaptor signature, and the attestations are looked up  *)
(* in the tries to find the CET and the signature to close with.           *)
(***************************************************************************)
EXTENDS ContractCets, MultiTrie

VARIABLES
    trie,         \* digit_trie of MultiOracleTrie.
    roots         \* multi_trie of the trie with difference, else extra_cover_trie.

trieVars == <<trie, roots>>

vars == <<cetVars, trieVars>>

TrieInit ==
    /\ Init
    /\ trie = NoTrie
    /\ roots = EmptyRoots(NbOracles(contract), contract.threshold)

(***************************************************************************)
(* generate.                                                               *)
(***************************************************************************)
Groups(c, r) ==
    group_by_ignoring_digits(r.start, r.start + r.count - 1, 2, get_min_nb_digits(c))

\* Mutant: the paths have the fewest digits for every oracle.
InsertGroupUnpadded(c, built, group, cet) ==
    LET sels == CombinationIterator(NbOracles(c), c.threshold)
        Value(s) == [cet |-> cet, adaptor |-> Len(built.infos) + s]
    IN  [built EXCEPT
            !.trie  = insert_internal(@, group, [s \in DOMAIN sels |-> Value(s)], 2),
            !.infos = @ \o [s \in DOMAIN sels |->
                               [indexes |-> sels[s],
                                paths   |-> [k \in DOMAIN sels[s] |-> group],
                                value   |-> Value(s)]]]

\* MultiOracleTrie::generate for one group: one value per selection, all under
\* the group, the paths padded to the digits of each oracle.
InsertGroup(c, built, group, cet) ==
    LET sels == CombinationIterator(NbOracles(c), c.threshold)
        Value(s) == [cet |-> cet, adaptor |-> Len(built.infos) + s]
        Padded(i) == pre_pad_vec(group, Len(group) + c.nbDigits[i] - get_min_nb_digits(c))
    IN  [built EXCEPT
            !.trie  = insert_internal(@, group, [s \in DOMAIN sels |-> Value(s)], 2),
            !.infos = @ \o [s \in DOMAIN sels |->
                               [indexes |-> sels[s],
                                paths   |-> [k \in DOMAIN sels[s] |-> Padded(sels[s][k])],
                                value   |-> Value(s)]]]

\* Mutant: the index is read before the signatures that precede it are counted.
InsertIndexedAtLast(built, entry, cet) ==
    LET value == [cet |-> cet, adaptor |-> Len(built.infos)]
    IN  [built EXCEPT
            !.roots = InsertAtRoot(@, entry.indexes, entry.paths, value),
            !.infos = Append(@, [indexes |-> entry.indexes, paths |-> entry.paths,
                                 value |-> value])]

\* get_value_callback and the insertion around it.
InsertIndexed(built, entry, cet) ==
    LET value == [cet |-> cet, adaptor |-> Len(built.infos) + 1]
    IN  [built EXCEPT
            !.roots = InsertAtRoot(@, entry.indexes, entry.paths, value),
            !.infos = Append(@, [indexes |-> entry.indexes, paths |-> entry.paths,
                                 value |-> value])]

\* MultiOracleTrieWithDiff::generate for one group.
InsertGroupWithDiff(c, built, group, cet) ==
    FoldLeft(LAMBDA acc, e : InsertIndexed(acc, e, cet), built,
             InsertedPaths(c.nbDigits, c.threshold, group,
                           c.diff[1].maxErrorExp, c.diff[1].minSupportExp))

Built == [trie |-> trie, roots |-> roots, infos |-> infos]

\* The trie is one with difference when the descriptor has difference_params.
InsertOneGroup(acc, g) ==
    IF HasDiff(contract) THEN InsertGroupWithDiff(contract, acc, g, inserted + 1)
                         ELSE InsertGroup(contract, acc, g, inserted + 1)

\* A range: its CET gets the next index. The empty prefix, the one group of a
\* range with all the outcomes, is a path DigitTrie::insert panics on.
InsertRange ==
    /\ status = "trie" /\ ~IsEnum(contract)
    /\ inserted < Len(ranges)
    /\ \E groups \in {Groups(contract, ranges[inserted + 1])} :
       IF <<>> \in Range(groups)
       THEN status' = "panicked" /\ UNCHANGED <<inserted, trie, roots, infos>>
       ELSE /\ \E built \in {FoldLeft(InsertOneGroup, Built, groups)} :
                  trie' = built.trie /\ roots' = built.roots /\ infos' = built.infos
            /\ inserted' = inserted + 1
            /\ UNCHANGED status
    /\ UNCHANGED <<contract, piece, ranges, given, found>>

\* The end of generate: the paths above the maximum, where oracles differ in
\* digits, all lead to the last CET.
insert_max_paths ==
    /\ status = "trie" /\ ~IsEnum(contract)
    /\ inserted = Len(ranges)
    /\ LET paths == IF has_diff_nb_digits(contract)
                    THEN get_max_covering_paths(contract.nbDigits, contract.threshold)
                    ELSE <<>>
           built == FoldLeft(LAMBDA acc, e : InsertIndexed(acc, e, Len(ranges)), Built, paths)
       IN  roots' = built.roots /\ infos' = built.infos
    /\ status' = "done"
    /\ UNCHANGED <<contract, piece, ranges, inserted, trie, given, found>>

\* An enumerated contract: the payouts are the CETs, there is no trie.
IterOutcomes ==
    /\ status = "trie" /\ IsEnum(contract)
    /\ infos' = iter_outcomes(contract.outcome_payouts,
                              CombinationIterator(NbOracles(contract), contract.threshold),
                              contract.threshold)
    /\ ranges' = contract.outcome_payouts
    /\ status' = "done"
    /\ UNCHANGED <<contract, piece, inserted, trie, roots, given, found>>

(***************************************************************************)
(* Signing and verifying, once the trie is generated. A signature is named *)
(* by the CET it signs and the adaptor point it is encrypted with, which   *)
(* is the sum of the points of the digits of the paths.                    *)
(***************************************************************************)
Signature(e) == [cet |-> e.value.cet, indexes |-> e.indexes, paths |-> e.paths]

\* MultiOracleTrieIter and MultiTrieIterator; the callers sort or do not mind the order.
iter ==
    LET sels == CombinationIterator(NbOracles(contract), contract.threshold)
        Padded(p, i) == pre_pad_vec(p, Len(p) + contract.nbDigits[i]
                                       - get_min_nb_digits(contract))
    IN  {[indexes |-> sels[s],
          paths   |-> [k \in DOMAIN sels[s] |-> Padded(e.path, sels[s][k])],
          value   |-> e.value[s]] : e \in Entries(trie), s \in DOMAIN sels}
        \cup AllEntries(roots, contract.threshold)

sign_helper(entries) ==
    LET unsorted == FoldSet(LAMBDA e, acc : Append(acc, e), <<>>, entries)
        sorted   == SortSeq(unsorted, LAMBDA a, b : a.value.adaptor < b.value.adaptor)
    IN  [k \in DOMAIN sorted |-> Signature(sorted[k])]

verify_helper(entries, sigs) ==
    \A e \in entries : e.value.adaptor \in DOMAIN sigs /\ sigs[e.value.adaptor] = Signature(e)

generate_sign == sign_helper(Range(infos))
generate_verify(sigs) == verify_helper(Range(infos), sigs)
sign == sign_helper(iter)
verify(sigs) == verify_helper(iter, sigs)

(***************************************************************************)
(* Look-up.                                                                *)
(***************************************************************************)
\* Mutant: the extra digits are cut off without a look at them.
StrippedUnchecked(c) ==
    [i \in DOMAIN given |->
        [given[i] EXCEPT !.digits = Drop(@, Len(@) - get_min_nb_digits(c))]]

\* The attestations whose value fits in the fewest digits, cut to them.
Stripped(c) ==
    LET n == get_min_nb_digits(c)
        Extra(g) == Len(g.digits) - n
        Fits(g) == \A k \in 1 .. Extra(g) : g.digits[k] = 0
        fitting == SelectSeq(given, Fits)
    IN  [i \in DOMAIN fitting |-> [fitting[i] EXCEPT !.digits = Drop(@, Extra(fitting[i]))]]

\* Mutant: one more oracle than threshold has to agree.
get_agreeing_oracles_strict(c) ==
    LET paths == Stripped(c)
        Group(d) == SelectSeq(paths, LAMBDA g : g.digits = d)
    IN  {g \in {Group(paths[i].digits) : i \in DOMAIN paths} : Len(g) > c.threshold}

\* get_agreeing_oracles: the groups with the same digits and threshold members.
get_agreeing_oracles(c) ==
    LET paths == Stripped(c)
        Group(d) == SelectSeq(paths, LAMBDA g : g.digits = d)
    IN  {g \in {Group(paths[i].digits) : i \in DOMAIN paths} : Len(g) >= c.threshold}

\* MultiOracleTrie::look_up, as the set of possible answers: the smallest groups
\* with a match come first, groups of one size in the order of a hash map.
look_up(c) ==
    LET matching == {g \in get_agreeing_oracles(c) : look_up_internal(trie, g[1].digits) # <<>>}
        first == {g \in matching : \A h \in matching : Len(g) <= Len(h)}
        sels == CombinationIterator(NbOracles(c), c.threshold)
        Answer(g) ==
            LET res == look_up_internal(trie, g[1].digits)[1]
                chosen == [k \in 1 .. c.threshold |-> g[k].index]
                position == CHOOSE s \in DOMAIN sels : sels[s] = chosen
                PathOf(i) == pre_pad_vec(res.path, Len(res.path) + c.nbDigits[i]
                                                   - get_min_nb_digits(c))
            IN  <<[value |-> res.value[position],
                   path  |-> [k \in 1 .. c.threshold |->
                                 [index |-> chosen[k], path |-> PathOf(chosen[k])]]]>>
    IN  IF first # {} THEN {Answer(g) : g \in first}
        ELSE {LookUpPaths(roots, c.threshold, given)}

get_range_info_for_outcome(c) ==
    CASE IsEnum(c) -> enum_range_info(c.outcome_payouts,
                                      CombinationIterator(NbOracles(c), c.threshold),
                                      c.threshold, given)
      [] ~IsEnum(c) /\ HasDiff(c) -> {LookUpPaths(roots, c.threshold, given)}
      [] OTHER -> look_up(c)

\* get_closable_contract_info passes on threshold attestations or more.
LookUp ==
    /\ status = "done"
    /\ Len(given) >= contract.threshold
    /\ found' \in get_range_info_for_outcome(contract)
    /\ status' = "attested"
    /\ UNCHANGED <<contract, piece, ranges, inserted, trie, roots, infos, given>>

TrieNext ==
    \/ Validate /\ UNCHANGED trieVars
    \/ AddPiece /\ UNCHANGED trieVars
    \/ InsertRange
    \/ insert_max_paths
    \/ IterOutcomes
    \/ Attest /\ UNCHANGED trieVars
    \/ LookUp

TrieSpec == TrieInit /\ [][TrieNext]_vars

(***************************************************************************)
(* Properties.                                                             *)
(***************************************************************************)
\* The tries implement the abstract list: every range is served by the signatures generate
\* makes for it, and the look-up of attestations (stripped of leading zeros, grouped by what
\* they say, walked down the tries) finds a signature just when one on the list is usable.
\* The one kind of contract for which they do not is the one whose paths are not padded
\* (multi_trie.rs:276): its signatures are for other outcomes than those of their range.
ImplementsCets == Init /\ [][PathsArePadded(contract) => Next]_cetVars

\* What the acceptor signs while it generates its trie the offerer verifies while it
\* generates its own, and what the offerer then signs from the iterator of its trie the
\* acceptor verifies from the iterator of its: the orders are the same, no signature is
\* missing and none is read past the end.
SignedAsGenerated ==
    ~IsEnum(contract) /\ status = "done" /\ given = <<>> =>
        /\ generate_verify(generate_sign) /\ verify(generate_sign)
        /\ generate_verify(sign) /\ verify(sign)

=============================================================================
