---------------------------- MODULE ContractCets ----------------------------
(***************************************************************************)
(* What a contract promises about its CETs: from the payout description to *)
(* the CET an attestation closes with. A contract is validated, its payout *)
(* curve becomes ranges with one CET each, the adaptor signatures of every *)
(* CET are listed, and an attestation closes with a listed signature all   *)
(* of whose paths begin the digits that the oracles attested.              *)
(*                                                                         *)
(* This is the abstract specification of ContractInfo, which cuts the      *)
(* ranges into prefixes, keeps them in tries and looks the attestations up *)
(* there. Here a range gets any list of signatures that serves it: those   *)
(* for no other outcome, and one for every outcome and every selection of  *)
(* oracles that agree.                                                     *)
(*                                                                         *)
(* CET and adaptor indexes count from 1. diff is <<>> or the one element   *)
(* <<[maxErrorExp, minSupportExp]>>.                                       *)
(***************************************************************************)
EXTENDS PayoutCurve, EnumDescriptor

CONSTANT Contracts    \* The contracts: records of kind "enum" or "numerical".

VARIABLES
    contract,     \* The contract under way.
    status,       \* "new", "curve", "trie", "done", "attested", or how it failed.
    piece,        \* Pieces of the payout function turned into ranges.
    ranges,       \* The range payouts so far: one CET each.
    inserted,     \* Ranges that have their adaptor signatures.
    infos,        \* The TrieIterInfo of generate, in the order of adaptor_index.
    given,        \* The attestations: a sequence of [index, value, digits].
    found         \* What get_range_info_for_outcome returned: <<>> is None.

cetVars == <<contract, status, piece, ranges, inserted, infos, given, found>>

IsEnum(c)      == c.kind = "enum"
NbOracles(c)   == IF IsEnum(c) THEN Len(c.events) ELSE Len(c.nbDigits)
HasDiff(c)     == ~IsEnum(c) /\ c.diff # <<>>
get_min_nb_digits(c)  == Min(Range(c.nbDigits))
has_diff_nb_digits(c) == \E i \in DOMAIN c.nbDigits : c.nbDigits[i] # c.nbDigits[1]
MaxValue(c)    == 2 ^ get_min_nb_digits(c) - 1

(***************************************************************************)
(* The contracts there can be: what the constructors of the pieces and     *)
(* OracleInput::validate let through.                                      *)
(***************************************************************************)
Points == Seq([outcome : Nat, payout : Nat, extra : Nat])

\* PolynomialPayoutCurvePiece::new and HyperbolaPayoutCurvePiece::new.
Pieces ==
    {p \in [kind : {"polynomial"}, points : Points]
           \cup [kind : {"hyperbola"}, points : Points, translate : Int,
                 positive : BOOLEAN, ad : Int] :
        /\ Len(p.points) >= 2
        /\ \A i, j \in DOMAIN p.points : i < j => p.points[i].outcome < p.points[j].outcome}

NumericalContracts ==
    [kind : {"numerical"}, pieces : Seq(Pieces) \ {<<>>},
     intervals : Seq([begin : Nat, mod : Nat]), total : Nat,
     nbDigits : Seq(Nat \ {0}) \ {<<>>}, threshold : Nat \ {0},
     diff : {d \in Seq([maxErrorExp : Nat, minSupportExp : Nat]) : Len(d) <= 1}]

EnumContracts ==
    [kind : {"enum"}, events : Seq(Seq(STRING)) \ {<<>>},
     outcome_payouts : Seq([outcome : STRING, payout : Nat]), threshold : Nat \ {0}]

ASSUME ContractsAssumption ==
    \A c \in Contracts : c \in NumericalContracts \cup EnumContracts
                         /\ c.threshold <= NbOracles(c)

Init ==
    /\ contract \in Contracts
    /\ status = "new"
    /\ piece = 0 /\ inserted = 0
    /\ ranges = <<>> /\ infos = <<>> /\ given = <<>> /\ found = <<>>

(***************************************************************************)
(* Validation, and the CETs.                                               *)
(***************************************************************************)
\* NumericalDescriptor::validate and MultiOracleTrieWithDiff::new.
numerical_validate(c) ==
    /\ rounding_intervals_validate(c.intervals)
    /\ payout_function_validate(c.pieces, MaxValue(c))
    /\ HasDiff(c) => /\ c.threshold <= NbOracles(c)
                     /\ c.diff[1].minSupportExp < c.diff[1].maxErrorExp

Validate ==
    /\ status = "new"
    /\ status' = IF IsEnum(contract)
                 THEN IF enum_validate(contract.events, contract.outcome_payouts)
                      THEN "trie" ELSE "rejected"
                 ELSE IF numerical_validate(contract) THEN "curve" ELSE "rejected"
    /\ UNCHANGED <<contract, piece, ranges, inserted, infos, given, found>>

\* One piece of PayoutFunction::to_range_payouts.
AddPiece ==
    /\ status = "curve"
    /\ LET p == contract.pieces[piece + 1]
       IN  IF RangePayoutsFail(p, contract.total, ranges)
           THEN status' = "error" /\ UNCHANGED <<piece, ranges>>
           ELSE /\ ranges' = to_range_payouts(p, contract.intervals, contract.total, ranges)
                /\ piece' = piece + 1
                /\ status' = IF piece' = Len(contract.pieces) THEN "trie" ELSE "curve"
    /\ UNCHANGED <<contract, inserted, infos, given, found>>

(***************************************************************************)
(* Attestations. at is a function from the oracles of a selection to what  *)
(* they attest.                                                            *)
(***************************************************************************)
\* External: an oracle attests one of its outcomes, digit by digit for a number.
Attestable(c, i) ==
    IF IsEnum(c) THEN {[value |-> o, digits |-> <<o>>] : o \in Range(c.events[i])}
    ELSE {[value |-> v, digits |-> decompose_value(v, 2, c.nbDigits[i])] :
              v \in 0 .. (2 ^ c.nbDigits[i] - 1)}

Selections(c) == {S \in SUBSET (1 .. NbOracles(c)) : Cardinality(S) = c.threshold}

Attestations(c, S) ==
    {at \in [S -> UNION {Attestable(c, i) : i \in S}] : \A i \in S : at[i] \in Attestable(c, i)}

\* All attest the same value, or values within the minimum support of each other.
Agree(c, at) ==
    \A i, j \in DOMAIN at :
        IF HasDiff(c) THEN at[i].value - at[j].value <= 2 ^ c.diff[1].minSupportExp
                      ELSE at[i].value = at[j].value

\* The main oracle of a selection is the first of those with the fewest digits.
Main(c, S) == Min({i \in S : \A j \in S : c.nbDigits[i] <= c.nbDigits[j]})

InRange(r, v) == v \in r.start .. (r.start + r.count - 1)

MaxError(c) == IF HasDiff(c) THEN 2 ^ c.diff[1].maxErrorExp ELSE 0

\* The main oracle attests an outcome of the range, the others one near it.
NearRange(c, r, at) ==
    LET main == at[Main(c, DOMAIN at)].value
    IN  /\ InRange(r, main)
        /\ \A i \in DOMAIN at : at[i].value - main \in (-MaxError(c)) .. MaxError(c)

\* All attest the maximum of the oracle with the fewest digits, or more.
AtMaximum(c, at) == \A i \in DOMAIN at : at[i].value >= MaxValue(c)

(***************************************************************************)
(* Adaptor signatures. A signature for paths of the oracles indexes can be *)
(* decrypted when each path begins what its oracle attested.               *)
(***************************************************************************)
Entry(c) ==
    [indexes : Seq(1 .. NbOracles(c)),
     paths   : Seq(Seq(IF IsEnum(c) THEN STRING ELSE {0, 1})),
     value   : [cet : Nat, adaptor : Nat]]

Admits(e, at) ==
    \A k \in DOMAIN e.indexes :
        e.indexes[k] \in DOMAIN at /\ IsPrefix(e.paths[k], at[e.indexes[k]].digits)

\* What follows the signatures listed before: one per path of threshold oracles in
\* their order, numbered on.
Listed(c, old, all) ==
    /\ all \in Seq(Entry(c))
    /\ IsPrefix(old, all)
    /\ \A a \in (Len(old) + 1) .. Len(all) :
          /\ all[a].value.adaptor = a
          /\ Len(all[a].indexes) = c.threshold /\ Len(all[a].paths) = c.threshold
          /\ \A k, l \in 1 .. c.threshold : k < l => all[a].indexes[k] < all[a].indexes[l]

\* The signature is for outcomes of the range and no other: each path by itself or, with
\* difference, all of them together.
ForRange(c, r, e) ==
    IF HasDiff(c)
    THEN \A at \in Attestations(c, Range(e.indexes)) : Admits(e, at) => NearRange(c, r, at)
    ELSE \A k \in DOMAIN e.indexes : \A d \in Attestable(c, e.indexes[k]) :
             IsPrefix(e.paths[k], d.digits) => InRange(r, d.value)

ForMaximum(c, e) ==
    \A k \in DOMAIN e.indexes : \A d \in Attestable(c, e.indexes[k]) :
        IsPrefix(e.paths[k], d.digits) => d.value >= MaxValue(c)

\* Whatever threshold oracles attest that agree and mean the range, there is a signature.
RangeServed(c, r, entries) ==
    \A S \in Selections(c) : \A at \in Attestations(c, S) :
        Agree(c, at) /\ InRange(r, at[Main(c, S)].value) => \E e \in entries : Admits(e, at)

MaximumServed(c, entries) ==
    \A S \in Selections(c) : \A at \in Attestations(c, S) :
        (\A i \in S : at[i].value > MaxValue(c)) => \E e \in entries : Admits(e, at)

OutcomesServed(c, entries) ==
    \A S \in Selections(c) : \A at \in Attestations(c, S) :
        Agree(c, at) => \E e \in entries : Admits(e, at)

New(old, all) == {all[a] : a \in (Len(old) + 1) .. Len(all)}

\* One range of generate: its CET gets the next index. A range with all the outcomes has
\* the empty prefix, a path DigitTrie::insert panics on.
ListRange ==
    /\ status = "trie" /\ ~IsEnum(contract)
    /\ inserted < Len(ranges)
    /\ LET r == ranges[inserted + 1]
       IN  IF r.start = 0 /\ r.count = MaxValue(contract) + 1
           THEN status' = "panicked" /\ UNCHANGED <<inserted, infos>>
           ELSE /\ Listed(contract, infos, infos')
                /\ \A e \in New(infos, infos') :
                      e.value.cet = inserted + 1 /\ ForRange(contract, r, e)
                /\ RangeServed(contract, r, New(infos, infos'))
                /\ inserted' = inserted + 1
                /\ UNCHANGED status
    /\ UNCHANGED <<contract, piece, ranges, given, found>>

\* The end of generate: what only oracles with more digits can attest leads to the last CET.
ListMaximum ==
    /\ status = "trie" /\ ~IsEnum(contract)
    /\ inserted = Len(ranges)
    /\ Listed(contract, infos, infos')
    /\ \A e \in New(infos, infos') : e.value.cet = Len(ranges) /\ ForMaximum(contract, e)
    /\ MaximumServed(contract, New(infos, infos'))
    /\ status' = "done"
    /\ UNCHANGED <<contract, piece, ranges, inserted, given, found>>

\* An enumerated contract: the payouts are the CETs.
ListOutcomes ==
    /\ status = "trie" /\ IsEnum(contract)
    /\ Listed(contract, infos, infos')
    /\ \A e \in New(infos, infos') :
          /\ e.value.cet \in DOMAIN contract.outcome_payouts
          /\ \A k \in DOMAIN e.paths :
                e.paths[k] = <<contract.outcome_payouts[e.value.cet].outcome>>
    /\ OutcomesServed(contract, New(infos, infos'))
    /\ ranges' = contract.outcome_payouts
    /\ status' = "done"
    /\ UNCHANGED <<contract, piece, inserted, given, found>>

(***************************************************************************)
(* Closing.                                                                *)
(***************************************************************************)
\* One more oracle attests; the attestations are kept in the order of the oracles.
Attest ==
    /\ status = "done"
    /\ \E i \in 1 .. NbOracles(contract) :
        /\ \A k \in DOMAIN given : given[k].index < i
        /\ \E d \in Attestable(contract, i) :
               given' = Append(given, [index |-> i, value |-> d.value, digits |-> d.digits])
    /\ UNCHANGED <<contract, status, piece, ranges, inserted, infos, found>>

Attested(i) == CHOOSE g \in Range(given) : g.index = i

Given == [i \in {given[k].index : k \in DOMAIN given} |-> Attested(i)]

\* A signature that the attestations decrypt. Without difference the oracles it uses have
\* to attest the same value, or all of them the maximum or more.
Usable(e) ==
    /\ Admits(e, Given)
    /\ LET at == [i \in Range(e.indexes) |-> Given[i]]
       IN  IsEnum(contract) \/ HasDiff(contract) \/ Agree(contract, at) \/ AtMaximum(contract, at)

ClosingInfo(e) ==
    [value |-> e.value,
     path  |-> [k \in DOMAIN e.indexes |-> [index |-> e.indexes[k], path |-> e.paths[k]]]]

\* get_closable_contract_info passes on threshold attestations or more.
Close ==
    /\ status = "done"
    /\ Len(given) >= contract.threshold
    /\ \/ \E a \in DOMAIN infos : Usable(infos[a]) /\ found' = <<ClosingInfo(infos[a])>>
       \/ (\A a \in DOMAIN infos : ~Usable(infos[a])) /\ found' = <<>>
    /\ status' = "attested"
    /\ UNCHANGED <<contract, piece, ranges, inserted, infos, given>>

Next ==
    \/ Validate
    \/ AddPiece
    \/ ListRange
    \/ ListMaximum
    \/ ListOutcomes
    \/ Attest
    \/ Close

Spec == Init /\ [][Next]_cetVars

(***************************************************************************)
(* Properties.                                                             *)
(***************************************************************************)
Statuses == {"new", "curve", "trie", "done", "attested", "rejected", "error", "panicked"}

\* Every CET and adaptor index in use stays inside the arrays it indexes.
TypeOK ==
    /\ status \in Statuses
    /\ piece \in Nat /\ inserted \in 0 .. Len(ranges)
    /\ \A a \in DOMAIN infos : infos[a].value.adaptor = a /\ infos[a].value.cet \in DOMAIN ranges
    /\ Len(given) <= NbOracles(contract)

\* The piece that defines the payout of an outcome: the first that reaches it.
PieceOf(c, o) == c.pieces[Min({i \in DOMAIN c.pieces : o <= get_last_outcome(c.pieces[i])})]

CurvePayout(c, o) == get_rounded_payout(PieceOf(c, o), o, c.intervals, c.total)

\* A flat piece goes on with the payout of its first outcome; it is not rounded again. This is
\* so where no rounding interval begins inside it and the piece before ends without extra
\* precision.
FlatNeedsNoRounding(c) ==
    \A i \in DOMAIN c.pieces :
        LET p == c.pieces[i]
        IN  IsFlat(p) =>
                \A o \in (get_first_outcome(p) + 1) .. get_last_outcome(p) :
                    CurvePayout(c, o) = CurvePayout(c, get_first_outcome(p))

\* The ranges follow each other from the first to the last outcome of the curve, no
\* two neighbours pay the same (there is no CET too many), and each outcome is in a range
\* that pays what the curve pays there after rounding.
RangesFollowTheCurve ==
    ~IsEnum(contract) /\ status \in {"trie", "done", "attested"} =>
        /\ ranges[1].start = get_first_outcome(contract.pieces[1])
        /\ Last(ranges).start + Last(ranges).count - 1 = MaxValue(contract)
        /\ \A r \in 1 .. (Len(ranges) - 1) :
              /\ ranges[r + 1].start = ranges[r].start + ranges[r].count
              /\ ranges[r + 1].payout # ranges[r].payout
        /\ FlatNeedsNoRounding(contract) =>
              \A r \in DOMAIN ranges :
                  \A o \in ranges[r].start .. (ranges[r].start + ranges[r].count - 1) :
                      ranges[r].payout = CurvePayout(contract, o)

\* The signature the look-up points to was made for the CET it points to, by an adaptor
\* point that is the sum of exactly the oracle signatures get_range_info_and_oracle_sigs
\* collects: it decrypts, and the CET is valid.
ClosingSignatureDecrypts ==
    \A f \in Range(found) :
        LET info == infos[f.value.adaptor]
        IN  /\ info.value.cet = f.value.cet
            /\ Len(f.path) = contract.threshold
            /\ \A k \in DOMAIN f.path :
                  /\ info.indexes[k] = f.path[k].index
                  /\ info.paths[k] = SubSeq(Attested(f.path[k].index).digits, 1,
                                            Len(f.path[k].path))

\* MultiOracleTrieWithDiff::generate with a threshold of one inserts each prefix as it is
\* under every oracle (multi_trie.rs:276): an oracle with more digits than the fewest reads it
\* without its leading zeros. For every other contract the paths have the oracle's digits.
PathsArePadded(c) == ~(HasDiff(c) /\ c.threshold = 1 /\ has_diff_nb_digits(c))

\* The CET pays what the attested outcome says, unless the paths are not padded: then an
\* oracle with more digits is paid the outcome of its first digits. Without difference all
\* the oracles used attested the same value; with it, the first of those with the fewest
\* digits (the main oracle of the selection) attested a value of the range, and the others are
\* within the maximum error of it. Or all are at or above the maximum of the smallest oracle,
\* and the last CET pays.
PaysTheAttestedOutcome ==
    PathsArePadded(contract) => \A f \in Range(found) :
        LET cet == f.value.cet
            at  == [i \in {f.path[k].index : k \in DOMAIN f.path} |-> Attested(i)]
        IN  IF IsEnum(contract)
            THEN \A i \in DOMAIN at : at[i].value = ranges[cet].outcome
            ELSE \/ cet = Len(ranges) /\ AtMaximum(contract, at)
                 \/ NearRange(contract, ranges[cet], at)

\* The curve says what the attestations pay: the main oracle attests an outcome that it
\* reaches, or all attest more than the smallest oracle can.
Covered(c, at) ==
    \/ at[Main(c, DOMAIN at)].value \in get_first_outcome(c.pieces[1]) .. MaxValue(c)
    \/ \A i \in DOMAIN at : at[i].value > MaxValue(c)

\* threshold oracles that attest the same value, or values no further apart than the minimum
\* support, close the contract: there is a CET for every outcome the curve covers, unless the
\* main oracle is above the maximum of the smallest and another is not.
AgreementCloses ==
    status = "attested" =>
        \A S \in Selections(contract) \cap SUBSET (DOMAIN Given) :
            LET at == [i \in S |-> Attested(i)]
            IN  Agree(contract, at) /\ (IsEnum(contract) \/ Covered(contract, at))
                    => found # <<>>

=============================================================================
