------------------------- MODULE DlcContractProofs -------------------------
(***************************************************************************)
(* Theorems about DlcContract for any number of oracles, any threshold,    *)
(* set of outcomes, maturities and confirmations, with forged messages and *)
(* crashes: type correctness, what both nodes hold once the fund           *)
(* transaction is sent, what a spending transaction has been earned with,  *)
(* and the refinement of ContractOutcome.                                  *)
(***************************************************************************)
EXTENDS DlcContract, SumLemmas

----------------------------------------------------------------------------
(* Numbers.                                                                *)

\* The values of a function on 1 .. n have a maximum: otherwise take the least k such that
\* those on 1 .. k have none.
LEMMA MaximumExists ==
    ASSUME NEW n \in Nat \ {0}, NEW f \in [1 .. n -> Nat]
    PROVE  Max({f[i] : i \in 1 .. n}) \in Nat
<1> DEFINE Unbounded == {k \in 1 .. n : \A i \in 1 .. k : \E j \in 1 .. k : ~(f[j] <= f[i])}
<1>1. Unbounded = {}
  <2> SUFFICES ASSUME Unbounded # {} PROVE FALSE
    OBVIOUS
  <2>1. Unbounded \subseteq Nat
    OBVIOUS
  <2>2. PICK k \in Unbounded : \A m \in Unbounded : k <= m
    <3> HIDE DEF Unbounded
    <3> QED
      BY <2>1, SmallestExists, Zenon
  <2>3. k \in 1 .. n /\ k # 1
    BY <2>2
  <2>4. k - 1 \in 1 .. n /\ k - 1 \notin Unbounded
    <3>1. k - 1 \in 1 .. n /\ ~(k <= k - 1)
      BY <2>3
    <3> HIDE DEF Unbounded
    <3> QED
      BY <2>2, <3>1
  <2>5. PICK i \in 1 .. k - 1 : \A j \in 1 .. k - 1 : f[j] <= f[i]
    BY <2>4
  <2>6. /\ i \in 1 .. k /\ k \in 1 .. k
        /\ \A j \in 1 .. k : j = k \/ j \in 1 .. k - 1
    BY <2>3
  <2>7. \A j \in 1 .. k : f[j] \in Nat
    BY <2>3
  <2>8. ~ \E m \in 1 .. k : \A j \in 1 .. k : f[j] <= f[m]
    BY <2>2
  <2>9. CASE f[k] <= f[i]
    BY <2>5, <2>6, <2>8, <2>9
  <2>10. CASE ~(f[k] <= f[i])
    <3>1. ASSUME NEW j \in 1 .. k PROVE f[j] <= f[k]
      <4>1. CASE j = k
        BY <4>1, <2>7
      <4>2. CASE j \in 1 .. k - 1
        <5>1. f[j] <= f[i]
          BY <2>5, <4>2
        <5>2. f[j] \in Nat /\ f[i] \in Nat /\ f[k] \in Nat
          BY <2>6, <2>7
        <5> HIDE DEF Unbounded
        <5> QED
          BY <5>1, <5>2, <2>10
      <4> QED
        BY <4>1, <4>2, <2>6
    <3> QED
      BY <2>6, <2>8, <3>1
  <2> QED
    BY <2>9, <2>10
<1>2. PICK i \in 1 .. n : \A j \in 1 .. n : f[j] <= f[i]
  <2>1. n \in 1 .. n
    OBVIOUS
  <2>2. n \notin Unbounded
    <3> HIDE DEF Unbounded
    <3> QED
      BY <1>1
  <2> QED
    BY <2>1, <2>2
<1> DEFINE S == {f[j] : j \in 1 .. n}
<1>3. \E x \in S : \A y \in S : x >= y
  BY <1>2
<1>4. Max(S) \in S
  BY <1>3 DEF Max
<1> QED
  BY <1>4

\* The refund's lock time is a time.
LEMMA RefundLocktimeType ==
    ASSUME maturity \in Maturities
    PROVE  RefundLocktime \in Nat /\ RefundLocktime > 0
<1>1. maturity \in [1 .. NbOracles -> Nat] /\ NbOracles \in Nat \ {0}
  BY OraclesAssumption, TimesAssumption DEF Oracles
<1>2. Max({maturity[i] : i \in 1 .. NbOracles}) \in Nat
  BY <1>1, MaximumExists
<1>3. RefundLocktime = Max({maturity[i] : i \in 1 .. NbOracles}) + RefundDelay
  BY Zenon DEF RefundLocktime, Oracles
<1> DEFINE M == Max({maturity[i] : i \in 1 .. NbOracles})
<1> HIDE DEF M
<1>4. M \in Nat /\ RefundLocktime = M + RefundDelay
  BY <1>2, <1>3 DEF M
<1> QED
  BY <1>4, TimesAssumption

\* It does not change with the clock or the oracles' answers.
LEMMA RefundLocktimeFixed ==
    ASSUME maturity' = maturity
    PROVE  RefundLocktime' = RefundLocktime
BY DEF RefundLocktime

----------------------------------------------------------------------------
(* The store.                                                              *)

\* The two slots of the tree.
LEMMA IdsAre ==
    /\ Ids = {"temporary", "contract"}
    /\ get_temporary_id = "temporary"
    /\ \A s \in {"Offered", "FailedAccept"} : get_id(s) = "temporary"
    /\ \A s \in ContractStates \ {"Offered", "FailedAccept"} : get_id(s) = "contract"
BY DEF Ids, get_temporary_id, get_id, ContractStates

Records == [state : ContractStates, cet : Outcomes \cup {None}, sigs : SUBSET Signatures]

\* A record is well typed when its parts are.
LEMMA RecordType ==
    ASSUME NEW state \in ContractStates, NEW cet \in Outcomes \cup {None},
           NEW sigs \in SUBSET Signatures
    PROVE  /\ Record(state, cet, sigs) \in Records
           /\ Record(state, cet, sigs).state = state
           /\ Record(state, cet, sigs).cet = cet
           /\ Record(state, cet, sigs).sigs = sigs
BY Zenon DEF Record, Records

\* The empty slot is a record.
LEMMA NoContractType == NoContract \in Records /\ NoContract.state = "None"
BY DEF NoContract, Record, Records, ContractStates

\* What a write to the tree of node p leaves: nothing of the other node's, nothing of the
\* slot that is not written, except that a temporary record goes with Accepted and Signed.
LEMMA UpdateStep ==
    ASSUME store \in [Nodes -> [Ids -> Records]], NEW p \in Nodes,
           NEW state \in ContractStates, NEW cet \in Outcomes \cup {None},
           NEW sigs \in SUBSET Signatures, update_contract(p, state, cet, sigs)
    PROVE  /\ store' \in [Nodes -> [Ids -> Records]]
           /\ \A q \in Nodes \ {p} : store'[q] = store[q]
           /\ store'[p][get_id(state)] = Record(state, cet, sigs)
           /\ state \in {"Accepted", "Signed"} => store'[p]["temporary"] = NoContract
           /\ state \notin {"Accepted", "Signed"} =>
                \A id \in Ids \ {get_id(state)} : store'[p][id] = store[p][id]
<1> DEFINE rec == Record(state, cet, sigs)
           base == IF state \in {"Accepted", "Signed"}
                   THEN [store[p] EXCEPT !["temporary"] = NoContract] ELSE store[p]
           tree == [base EXCEPT ![get_id(state)] = rec]
<1>1. store' = [store EXCEPT ![p] = tree]
  <2>1. rec.state = state
    BY Zenon DEF Record
  <2>2. store' = [store EXCEPT ![p] = Inserted(base, rec)]
    BY IdsAre, Zenon DEF update_contract
  <2> QED
    BY <2>1, <2>2, Zenon DEF Inserted
<1>2. rec \in Records
  BY RecordType
<1>3. get_id(state) \in Ids /\ "temporary" \in Ids /\ store[p] \in [Ids -> Records]
  <2>1. state \in {"Offered", "FailedAccept"} \/ state \in ContractStates \ {"Offered", "FailedAccept"}
    OBVIOUS
  <2> QED
    BY <2>1, IdsAre
<1>4. state \in {"Accepted", "Signed"} => get_id(state) = "contract"
  BY IdsAre DEF ContractStates
<1> HIDE DEF rec
<1>5. base \in [Ids -> Records]
  BY <1>3, NoContractType
<1>6. tree \in [Ids -> Records] /\ tree[get_id(state)] = rec
  <2> HIDE DEF base
  <2> QED
    BY <1>2, <1>3, <1>5
<1>7. /\ state \in {"Accepted", "Signed"} => tree["temporary"] = NoContract
      /\ state \notin {"Accepted", "Signed"} =>
            \A id \in Ids \ {get_id(state)} : tree[id] = store[p][id]
  BY <1>2, <1>3, <1>4
<1> HIDE DEF base, tree
<1>8. /\ store' \in [Nodes -> [Ids -> Records]] /\ store'[p] = tree
      /\ \A q \in Nodes \ {p} : store'[q] = store[q]
  BY <1>1, <1>6
<1> QED
  BY <1>6, <1>7, <1>8 DEF rec

\* The two nodes.
LEMMA OtherIs ==
    /\ Nodes = {Offerer, Accepter} /\ Offerer # Accepter
    /\ Other(Offerer) = Accepter /\ Other(Accepter) = Offerer
    /\ \A p \in Nodes : Other(p) \in Nodes /\ Other(p) # p
BY NodesAssumption DEF Nodes, Other

\* The states after Signed that a check or the user moves a contract to.
Later == {"Confirmed", "PreClosed", "Closed", "Refunded"}

\* A step to a later state keeps the signatures and the other slot.
LEMMA AdvanceStep ==
    ASSUME store \in [Nodes -> [Ids -> Records]], NEW p \in Nodes, NEW state \in Later,
           NEW cet \in Outcomes \cup {None}, Advance(p, state, cet)
    PROVE  /\ store' \in [Nodes -> [Ids -> Records]]
           /\ \A q \in Nodes \ {p} : store'[q] = store[q]
           /\ store'[p]["contract"] = Record(state, cet, store[p]["contract"].sigs)
           /\ store'[p]["temporary"] = store[p]["temporary"]
<1> DEFINE sigs == store[p]["contract"].sigs
<1>1. sigs \in SUBSET Signatures
  <2>1. store[p]["contract"] \in Records
    BY IdsAre
  <2> QED
    BY <2>1 DEF Records
<1>2. update_contract(p, state, cet, sigs)
  <2>1. get_id("Signed") = "contract"
    BY DEF get_id, get_temporary_id
  <2> QED
    BY <2>1 DEF Advance, get_contract
<1>3. state \in ContractStates \ {"Offered", "FailedAccept"} /\ state \notin {"Accepted", "Signed"}
  BY DEF Later, ContractStates
<1>4. get_id(state) = "contract" /\ "temporary" \in Ids \ {"contract"}
  BY <1>3, IdsAre
<1> HIDE DEF sigs
<1>5. /\ store' \in [Nodes -> [Ids -> Records]]
      /\ \A q \in Nodes \ {p} : store'[q] = store[q]
      /\ store'[p][get_id(state)] = Record(state, cet, sigs)
      /\ \A id \in Ids \ {get_id(state)} : store'[p][id] = store[p][id]
  BY <1>1, <1>2, <1>3, UpdateStep
<1> QED
  BY <1>4, <1>5 DEF sigs

\* Accepted and Signed: the record under the final id, and the temporary one gone.
LEMMA PromoteStep ==
    ASSUME store \in [Nodes -> [Ids -> Records]], NEW p \in Nodes,
           NEW state \in {"Accepted", "Signed"}, NEW sigs \in SUBSET Signatures,
           update_contract(p, state, None, sigs)
    PROVE  /\ \A q \in Nodes \ {p} : store'[q] = store[q]
           /\ store'[p]["contract"] = Record(state, None, sigs)
           /\ store'[p]["temporary"] = NoContract
<1>1. state \in ContractStates /\ get_id(state) = "contract" /\ None \in Outcomes \cup {None}
  BY IdsAre DEF ContractStates
<1>2. /\ \A q \in Nodes \ {p} : store'[q] = store[q]
      /\ store'[p][get_id(state)] = Record(state, None, sigs)
      /\ state \in {"Accepted", "Signed"} => store'[p]["temporary"] = NoContract
  BY <1>1, UpdateStep
<1> QED
  BY <1>1, <1>2

\* A new contract is offered under its temporary id.
LEMMA CreateStep ==
    ASSUME store \in [Nodes -> [Ids -> Records]], NEW p \in Nodes, create_contract(p)
    PROVE  /\ store' \in [Nodes -> [Ids -> Records]]
           /\ \A q \in Nodes \ {p} : store'[q] = store[q]
           /\ store'[p]["contract"] = store[p]["contract"]
<1> DEFINE rec == Record("Offered", None, {})
<1>1. rec \in Records /\ get_id(rec.state) = "temporary"
  BY DEF Record, Records, ContractStates, get_id, get_temporary_id
<1>2. store' = [store EXCEPT ![p] = [store[p] EXCEPT !["temporary"] = rec]]
  BY <1>1, Zenon DEF create_contract, Inserted
<1> HIDE DEF rec
<1> QED
  BY <1>1, <1>2, IdsAre

\* In reads the slot of the state it asks for.
LEMMA InIs ==
    ASSUME NEW p, NEW state \in ContractStates, In(p, {state})
    PROVE  IF state \in {"Offered", "FailedAccept"} THEN store[p]["temporary"].state = state
                                                    ELSE store[p]["contract"].state = state
BY IdsAre DEF In

----------------------------------------------------------------------------
(* What a spending transaction takes.                                      *)

\* The oracles that attested an outcome.
For(v) == {i \in Oracles : attested[i] = v}

\* What SpendIsEarned asks of one transaction.
Earned(tx) ==
    /\ tx = Refund => RefundLocktime <= now
    /\ tx \in Outcomes => Cardinality(For(tx)) >= Threshold

\* A set of oracles is finite.
LEMMA OraclesFinite ==
    ASSUME NEW S \in SUBSET Oracles
    PROVE  /\ IsFiniteSet(S) /\ Cardinality(S) \in Nat
           /\ \A T \in SUBSET S : Cardinality(T) <= Cardinality(S)
<1>1. IsFiniteSet(Oracles)
  BY OraclesAssumption, FS_Interval DEF Oracles
<1>2. IsFiniteSet(S)
  BY <1>1, FS_Subset
<1> QED
  BY <1>2, FS_Subset, FS_CardinalityType

\* get_signed_cet finds only a CET that threshold of the attestations ask for.
LEMMA SignedCetIsEarned ==
    ASSUME NEW answers \in SUBSET Oracles, NEW index, NEW cet \in get_signed_cet(answers, index)
    PROVE  cet.tx \in Outcomes /\ Cardinality(For(cet.tx)) >= Threshold
<1> DEFINE Group(v) == {i \in answers : attested[i] = v}
<1>1. PICK v \in Outcomes : /\ Cardinality(Group(v)) >= Threshold
                            /\ cet.tx = v
  BY DEF get_signed_cet
<1>2. Group(v) \in SUBSET For(v) /\ For(v) \in SUBSET Oracles /\ Group(v) \in SUBSET Oracles
  BY DEF For
<1> HIDE DEF Group
<1>3. /\ Cardinality(Group(v)) <= Cardinality(For(v))
      /\ Cardinality(Group(v)) \in Nat /\ Cardinality(For(v)) \in Nat
  BY <1>2, OraclesFinite
<1> QED
  BY <1>1, <1>3, OraclesAssumption

----------------------------------------------------------------------------
(* The steps that end a contract, summed up: the node's record moves to a  *)
(* later state or stays, and what it sends to its Bitcoin node is earned.  *)

\* The chain is left alone, or an earned transaction is sent to the node's Bitcoin node.
Sends(p) ==
    \/ UNCHANGED chain
    \/ \E tx \in Txs : Earned(tx) /\ send_transaction(p, tx)

\* The record of p goes to a later state: Closed with what the chain has decided for, and
\* Refunded when the refund is due or was seen.
Moves(p) ==
    \E state \in Later, cet \in Outcomes \cup {None} :
        /\ Advance(p, state, cet)
        /\ store[p]["contract"].state \in {"Signed", "Confirmed", "PreClosed"}
        /\ state = "Closed" => Confirmations(cet) >= NbConfirmations
        /\ state = "Refunded" => \/ RefundLocktime <= now
                                 \/ spend # None /\ spend.tx = Refund
                                 \/ mempool[p] = Refund

Ends(p) ==
    /\ UNCHANGED <<net, world>>
    /\ Sends(p)
    /\ Moves(p) \/ UNCHANGED store

\* Closing with a CET that get_signed_cet found.
LEMMA CloseEnds ==
    ASSUME NEW p \in Nodes, NEW cet, cet.tx \in Outcomes,
           Cardinality(For(cet.tx)) >= Threshold, close_contract(p, cet),
           store[p]["contract"].state = "Confirmed"
    PROVE  Sends(p) /\ Moves(p)
<1>1. Earned(cet.tx) /\ cet.tx \in Txs /\ cet.tx \in Outcomes \cup {None}
  BY NamesAssumption DEF Earned, Txs
<1>2. {"PreClosed", "Closed"} \subseteq Later
  BY DEF Later
<1>3. Sends(p)
  BY <1>1, Zenon DEF close_contract, Sends
<1>4. CASE Advance(p, "PreClosed", cet.tx)
  BY <1>1, <1>2, <1>3, <1>4 DEF Moves
<1>5. CASE Confirmations(cet.tx) >= NbConfirmations /\ Advance(p, "Closed", cet.tx)
  BY <1>1, <1>2, <1>3, <1>5 DEF Moves
<1> QED
  BY <1>3, <1>4, <1>5 DEF close_contract

\* Refunding.
LEMMA RefundEnds ==
    ASSUME NEW p \in Nodes, check_refund(p), store[p]["contract"].state = "Confirmed"
    PROVE  Sends(p) /\ Moves(p)
<1>1. Earned(Refund) /\ Refund \in Txs
  BY NamesAssumption DEF Earned, Txs, check_refund
<1>2. Sends(p)
  BY <1>1, Zenon DEF check_refund, Sends
<1>3. Moves(p)
  BY DEF check_refund, Moves, Later
<1> QED
  BY <1>2, <1>3

\* get_closable_contract_info answers for oracles only.
LEMMA ClosableType ==
    ASSUME NEW reached \in SUBSET Oracles
    PROVE  get_closable_contract_info(reached) \in SUBSET Oracles
BY DEF get_closable_contract_info

\* TypeOK's part on the stores.
LEMMA StoreType ==
    ASSUME TypeOK
    PROVE  /\ store \in [Nodes -> [Ids -> Records]]
           /\ \A p \in Nodes : \A id \in Ids : store[p][id] \in Records
BY DEF TypeOK, Records

\* The number of confirmations is a number.
LEMMA ConfirmationsType ==
    ASSUME TypeOK, NEW tx
    PROVE  Confirmations(tx) \in Nat
<1>1. spend # None => spend \in [tx : Txs, confs : 1 .. NbConfirmations]
  BY DEF TypeOK
<1>2. spend # None => spend.confs \in Nat
  BY <1>1, TimesAssumption
<1> QED
  BY <1>2 DEF Confirmations

\* Every check of a node and every call of its user ends the contract so.
LEMMA ClosingStep ==
    ASSUME TypeOK, NEW p \in Nodes, periodic_check(p) \/ User(p)
    PROVE  Ends(p)
<1> USE DEF ContractStates
<1>1. CASE check_signed_contract(p)
  <2>1. store[p]["contract"].state = "Signed"
    BY <1>1, InIs DEF check_signed_contract
  <2>2. Moves(p)
    BY <1>1, <2>1 DEF check_signed_contract, Moves, Later
  <2> QED
    BY <1>1, <2>2, Zenon DEF check_signed_contract, Ends, Sends
<1>2. CASE check_preclosed_contract(p)
  <2>1. store[p]["contract"].state = "PreClosed"
    BY <1>2, InIs DEF check_preclosed_contract
  <2> DEFINE cet == get_contract(p).cet
  <2>2. Advance(p, "Closed", cet) /\ Confirmations(cet) >= NbConfirmations
    BY <1>2, Zenon DEF check_preclosed_contract
  <2>3. cet \in Outcomes \cup {None}
    BY StoreType, IdsAre DEF get_contract, Records, get_id, get_temporary_id
  <2> HIDE DEF cet
  <2>4. Moves(p)
    BY <2>1, <2>2, <2>3 DEF Moves, Later
  <2> QED
    BY <1>2, <2>4, Zenon DEF check_preclosed_contract, Ends, Sends
<1>3. CASE \E reached \in SUBSET Oracles : check_confirmed_contract(p, reached)
  <2>1. PICK reached \in SUBSET Oracles : check_confirmed_contract(p, reached)
    BY <1>3
  <2>2. store[p]["contract"].state = "Confirmed"
    BY <2>1, InIs DEF check_confirmed_contract
  <2> DEFINE answers == get_closable_contract_info(reached)
             index == [i \in Matured |-> IndexAmong(i, Matured)]
  <2>3. answers \in SUBSET Oracles
    BY ClosableType
  <2>4. \/ \E cet \in get_signed_cet(answers, index) : close_contract(p, cet)
        \/ check_refund(p)
    BY <2>1, Zenon DEF check_confirmed_contract
  <2> HIDE DEF answers, index
  <2>5. Sends(p) /\ Moves(p)
    BY <2>2, <2>3, <2>4, CloseEnds, RefundEnds, SignedCetIsEarned
  <2> QED
    BY <2>1, <2>5, Zenon DEF check_confirmed_contract, Ends
<1>4. CASE close_confirmed_contract(p)
  <2>1. store[p]["contract"].state = "Confirmed"
    BY <1>4, InIs DEF close_confirmed_contract
  <2> DEFINE index == [i \in Oracles |-> i]
  <2>2. PICK answers \in SUBSET Oracles :
            \E cet \in get_signed_cet(answers, index) : close_contract(p, cet)
    BY <1>4, Zenon DEF close_confirmed_contract
  <2> HIDE DEF index
  <2>3. Sends(p) /\ Moves(p)
    BY <2>1, <2>2, CloseEnds, SignedCetIsEarned
  <2> QED
    BY <1>4, <2>3, Zenon DEF close_confirmed_contract, Ends
<1>5. CASE on_counterparty_close(p)
  <2>1. store[p]["contract"].state \in {"Confirmed", "PreClosed"}
    BY <1>5, IdsAre DEF on_counterparty_close, In
  <2>2. PICK tx \in Txs :
            /\ (spend # None /\ spend.tx = tx) \/ mempool[p] = tx
            /\ CASE tx = Refund -> Advance(p, "Refunded", None)
                 [] tx # Refund /\ Confirmations(tx) < NbConfirmations ->
                      Advance(p, "PreClosed", tx)
                 [] OTHER -> Advance(p, "Closed", tx)
    BY <1>5, Zenon DEF on_counterparty_close
  <2>3. CASE tx = Refund
    <3>1. Advance(p, "Refunded", None)
      BY <2>2, <2>3
    <3>2. Moves(p)
      BY <2>1, <2>2, <2>3, <3>1 DEF Moves, Later
    <3> QED
      BY <1>5, <3>2, Zenon DEF on_counterparty_close, Ends, Sends
  <2>4. CASE tx # Refund
    <3>1. tx \in Outcomes
      BY <2>4 DEF Txs
    <3>2. \/ Advance(p, "PreClosed", tx)
          \/ ~(Confirmations(tx) < NbConfirmations) /\ Advance(p, "Closed", tx)
      BY <2>2, <2>4
    <3>3. Moves(p)
      <4>1. Confirmations(tx) \in Nat /\ NbConfirmations \in Nat
        BY ConfirmationsType, TimesAssumption
      <4>2. CASE Advance(p, "PreClosed", tx)
        BY <2>1, <3>1, <4>2 DEF Moves, Later
      <4>3. CASE ~(Confirmations(tx) < NbConfirmations) /\ Advance(p, "Closed", tx)
        <5>1. Confirmations(tx) >= NbConfirmations
          BY <4>1, <4>3
        <5> QED
          BY <2>1, <3>1, <4>3, <5>1 DEF Moves, Later
      <4> QED
        BY <3>2, <4>2, <4>3
    <3> QED
      BY <1>5, <3>3, Zenon DEF on_counterparty_close, Ends, Sends
  <2> QED
    BY <2>3, <2>4
<1>6. CASE CrashAfterSend(p)
  <2>1. PICK tx \in Txs :
            /\ tx = Refund \/ Cardinality(For(tx)) >= Threshold
            /\ send_transaction(p, tx)
    BY <1>6, Zenon DEF CrashAfterSend, For
  <2>2. tx = Refund => RefundLocktime <= now
    BY <2>1 DEF send_transaction, Takes
  <2>3. Earned(tx)
    BY <2>1, <2>2, NamesAssumption DEF Earned
  <2> QED
    BY <1>6, <2>1, <2>3, Zenon DEF CrashAfterSend, Ends, Sends
<1> QED
  BY <1>1, <1>2, <1>3, <1>4, <1>5, <1>6 DEF periodic_check, User

----------------------------------------------------------------------------
(* Type correctness.                                                       *)

\* The type of the variables Negotiate leaves alone, and of the ones the environment changes.
WorldType == maturity \in Maturities /\ now \in 0 .. MaxTime
             /\ attested \in [Oracles -> Outcomes \cup Uncovered \cup {None}]
ChainType ==
    /\ fund \in 0 .. NbConfirmations \cup {None}
    /\ mempool \in [Nodes -> Txs \cup {None}]
    /\ spend \in [tx : Txs, confs : 1 .. NbConfirmations] \cup {None}

\* TypeOK by parts.
LEMMA TypeParts ==
    TypeOK <=> /\ store \in [Nodes -> [Ids -> Records]]
               /\ net \in [Nodes -> Messages \cup {None}]
               /\ WorldType /\ ChainType
BY Zenon DEF TypeOK, Records, WorldType, ChainType

\* TypeOK by parts, of the next state.
LEMMA TypePartsNext ==
    TypeOK' <=> /\ store' \in [Nodes -> [Ids -> Records]]
                /\ net' \in [Nodes -> Messages \cup {None}]
                /\ WorldType' /\ ChainType'
BY Zenon DEF TypeOK, Records, WorldType, ChainType

\* Consuming a message and answering it keep the type of the network.
LEMMA NetType ==
    ASSUME net \in [Nodes -> Messages \cup {None}], NEW p \in Nodes
    PROVE  /\ Consume(p) => net' \in [Nodes -> Messages \cup {None}]
           /\ \A type \in {"accept", "sign"}, sigs \in SUBSET Signatures :
                Reply(p, type, sigs) => /\ net' \in [Nodes -> Messages \cup {None}]
                                        /\ net'[p] = None
                                        /\ net'[Other(p)] = [type |-> type, sigs |-> sigs]
<1>1. Consume(p) => net' \in [Nodes -> Messages \cup {None}]
  BY DEF Consume
<1>2. ASSUME NEW type \in {"accept", "sign"}, NEW sigs \in SUBSET Signatures, Reply(p, type, sigs)
      PROVE  /\ net' \in [Nodes -> Messages \cup {None}]
             /\ net'[p] = None
             /\ net'[Other(p)] = [type |-> type, sigs |-> sigs]
  <2> DEFINE m == [type |-> type, sigs |-> sigs]
  <2>1. m \in Messages
    BY DEF Messages
  <2>2. net' = [net EXCEPT ![p] = None, ![Other(p)] = m]
    BY <1>2 DEF Reply
  <2> HIDE DEF m
  <2>3. /\ net' \in [Nodes -> Messages \cup {None}]
        /\ net'[p] = None /\ net'[Other(p)] = m
    BY <2>1, <2>2, OtherIs
  <2> QED
    BY <2>3 DEF m
<1> QED
  BY <1>1, <1>2

\* What a node signs arrives whole or in part.
LEMMA ArrivingType ==
    ASSUME NEW sigs \in Arriving(Signatures)
    PROVE  sigs \in SUBSET Signatures
BY DEF Arriving

\* What the handlers send.
LEMMA SentSignatures == accept_contract = Signatures /\ own_signatures = Signatures
BY DEF accept_contract, own_signatures, Signatures

\* A message with signatures carries a set of them.
LEMMA ReceivedType ==
    ASSUME TypeOK, NEW p \in Nodes, NEW type \in {"accept", "sign"}, Receives(p, type)
    PROVE  net[p].sigs \in SUBSET Signatures
<1>1. net[p] \in Messages
  BY DEF TypeOK, Receives
<1>2. net[p] \in [type : {"accept", "sign"}, sigs : SUBSET Signatures]
  <2>1. net[p].type # "offer"
    BY DEF Receives
  <2> QED
    BY <1>1, <2>1 DEF Messages
<1> QED
  BY <1>2

\* The steps of the negotiation change the store of one node and the network, within their types.
LEMMA NegotiateType ==
    ASSUME TypeOK, Negotiate
    PROVE  /\ store' \in [Nodes -> [Ids -> Records]]
           /\ net' \in [Nodes -> Messages \cup {None}]
           /\ UNCHANGED <<world, chain>>
<1>1. /\ store \in [Nodes -> [Ids -> Records]] /\ net \in [Nodes -> Messages \cup {None}]
      /\ now \in Nat
  BY StoreType, TimesAssumption DEF TypeOK
<1>2. Offerer \in Nodes /\ Accepter \in Nodes
  BY OtherIs
<1>3. /\ None \in Outcomes \cup {None} /\ {} \in SUBSET Signatures
      /\ {"Accepted", "Signed", "FailedAccept", "FailedSign"} \subseteq ContractStates
  BY DEF ContractStates
<1>4. CASE send_offer
  <2>1. store' \in [Nodes -> [Ids -> Records]]
    BY <1>1, <1>2, <1>4, CreateStep DEF send_offer
  <2>2. [type |-> "offer", cet_locktime |-> now] \in Messages
    BY <1>1 DEF Messages
  <2>3. net' \in [Nodes -> Messages \cup {None}]
    BY <1>1, <1>4, <2>2 DEF send_offer
  <2> QED
    BY <1>4, <2>1, <2>3 DEF send_offer
<1>5. CASE on_offer_message
  BY <1>1, <1>2, <1>5, CreateStep, NetType DEF on_offer_message
<1>6. CASE accept_contract_offer
  <2>1. store' \in [Nodes -> [Ids -> Records]]
    BY <1>1, <1>2, <1>3, <1>6, UpdateStep DEF accept_contract_offer
  <2>2. net' \in [Nodes -> Messages \cup {None}]
    BY <1>1, <1>2, <1>6, ArrivingType, SentSignatures, NetType DEF accept_contract_offer
  <2> QED
    BY <1>6, <2>1, <2>2 DEF accept_contract_offer
<1>7. CASE on_accept_message
  <2>1. net[Offerer].sigs \in SUBSET Signatures
    BY <1>2, <1>7, ReceivedType DEF on_accept_message
  <2>2. store' \in [Nodes -> [Ids -> Records]]
    BY <1>1, <1>2, <1>3, <1>7, <2>1, UpdateStep DEF on_accept_message
  <2>3. net' \in [Nodes -> Messages \cup {None}]
    BY <1>1, <1>2, <1>7, ArrivingType, SentSignatures, NetType DEF on_accept_message
  <2> QED
    BY <1>7, <2>2, <2>3 DEF on_accept_message
<1>8. CASE on_sign_message
  <2>1. net[Accepter].sigs \in SUBSET Signatures
    BY <1>2, <1>8, ReceivedType DEF on_sign_message
  <2>2. store' \in [Nodes -> [Ids -> Records]]
    BY <1>1, <1>2, <1>3, <1>8, <2>1, UpdateStep DEF on_sign_message
  <2>3. net' \in [Nodes -> Messages \cup {None}]
    BY <1>1, <1>2, <1>8, NetType DEF on_sign_message
  <2> QED
    BY <1>8, <2>2, <2>3 DEF on_sign_message
<1> QED
  BY <1>4, <1>5, <1>6, <1>7, <1>8 DEF Negotiate

\* A transaction that is sent to a Bitcoin node is held there.
LEMMA SendType ==
    ASSUME ChainType, NEW p \in Nodes, Sends(p)
    PROVE  ChainType'
BY DEF ChainType, Sends, send_transaction, chain

\* Blocks, relays, time and the oracles keep the types.
LEMMA EnvironmentType ==
    ASSUME TypeOK, Environment
    PROVE  WorldType' /\ ChainType' /\ UNCHANGED <<store, net>>
<1>1. WorldType /\ ChainType /\ NbConfirmations \in Nat \ {0} /\ MaxTime \in Nat
  BY TypeParts, TimesAssumption
<1>2. CASE FundTransaction
  BY <1>1, <1>2 DEF FundTransaction, WorldType, ChainType, world
<1>3. CASE FundBlock
  <2>1. fund' \in 0 .. NbConfirmations
    BY <1>1, <1>3 DEF FundBlock, ChainType
  <2> QED
    BY <1>1, <1>3, <2>1 DEF FundBlock, WorldType, ChainType, world
<1>4. CASE SpendBlock
  <2>1. CASE \E p \in Nodes : /\ spend = None /\ mempool[p] # None /\ fund # 0
                              /\ spend' = [tx |-> mempool[p], confs |-> 1]
                              /\ mempool' = [q \in Nodes |-> None]
    BY <1>1, <1>4, <2>1 DEF SpendBlock, WorldType, ChainType, world
  <2>2. CASE /\ spend # None /\ spend.confs < NbConfirmations
             /\ spend' = [spend EXCEPT !.confs = @ + 1]
             /\ UNCHANGED mempool
    <3>1. spend' \in [tx : Txs, confs : 1 .. NbConfirmations]
      BY <1>1, <2>2 DEF ChainType
    <3> QED
      BY <1>1, <1>4, <2>2, <3>1 DEF SpendBlock, WorldType, ChainType, world
  <2> QED
    BY <1>4, <2>1, <2>2 DEF SpendBlock
<1>5. CASE Tick
  <2>1. now' \in 0 .. MaxTime
    BY <1>1, <1>5 DEF Tick, WorldType
  <2> QED
    BY <1>1, <1>5, <2>1 DEF Tick, WorldType, ChainType, chain
<1>6. CASE \E p \in Nodes : Relay(p)
  BY <1>1, <1>6, OtherIs DEF Relay, WorldType, ChainType, world
<1>7. CASE \E i \in Oracles : Attest(i)
  BY <1>1, <1>7 DEF Attest, WorldType, ChainType, chain
<1> QED
  BY <1>2, <1>3, <1>4, <1>5, <1>6, <1>7 DEF Environment

\* Unchanged variables keep their type.
LEMMA UnchangedType ==
    /\ WorldType /\ UNCHANGED world => WorldType'
    /\ ChainType /\ UNCHANGED chain => ChainType'
BY DEF WorldType, ChainType, world, chain

\* Every step keeps the types.
LEMMA TypeStep == TypeOK /\ [Next]_vars => TypeOK'
<1> SUFFICES ASSUME TypeOK, [Next]_vars PROVE TypeOK'
  OBVIOUS
<1>1. /\ store \in [Nodes -> [Ids -> Records]] /\ net \in [Nodes -> Messages \cup {None}]
      /\ WorldType /\ ChainType
  BY TypeParts
<1>2. CASE Negotiate
  BY <1>1, <1>2, NegotiateType, UnchangedType, TypePartsNext
<1>3. CASE Environment
  BY <1>1, <1>3, EnvironmentType, TypePartsNext
<1>4. ASSUME NEW p \in Nodes, periodic_check(p) \/ User(p) PROVE TypeOK'
  <2>1. Ends(p)
    BY <1>4, ClosingStep
  <2>2. store' \in [Nodes -> [Ids -> Records]]
    BY <1>1, <2>1, AdvanceStep DEF Ends, Moves
  <2>3. ChainType'
    BY <1>1, <2>1, SendType DEF Ends
  <2> QED
    BY <1>1, <2>1, <2>2, <2>3, UnchangedType, TypePartsNext DEF Ends
<1>5. CASE UNCHANGED vars
  BY <1>5, <1>1, UnchangedType, TypePartsNext DEF vars, world, chain
<1> QED
  BY <1>2, <1>3, <1>4, <1>5 DEF Next

\* The stores, the messages on their way, the chain and the oracles' answers keep their types.
THEOREM TypeCorrect == Spec => []TypeOK
<1>1. Init => TypeOK
  BY NoContractType, OtherIs, TimesAssumption DEF Init, TypeOK, Records
<1> QED
  BY <1>1, TypeStep, PTL DEF Spec

----------------------------------------------------------------------------
(* What the two nodes hold.                                                *)

\* The accepted contract is signed by both, or was.
SignedStates == {"Signed", "Confirmed", "PreClosed", "Closed", "Refunded"}

\* A contract that is under its temporary id is not under the other.
OneSlot ==
    \A p \in Nodes : store[p]["temporary"] # NoContract => store[p]["contract"] = NoContract

\* The offerer answers with its signatures only after it stored the accepter's.
SignAnswersAccept ==
    Receives(Accepter, "sign") => store[Offerer]["contract"].sigs = Signatures

\* Once the accepter's contract is signed both nodes hold all signatures of the other.
SignedHoldAll ==
    store[Accepter]["contract"].state \in SignedStates =>
        \A p \in Nodes : store[p]["contract"].sigs = Signatures

\* The fund transaction is sent when the accepter's contract is signed, which it stays.
FundIsSigned == fund # None => store[Accepter]["contract"].state \in SignedStates

AgreementInv == OneSlot /\ SignAnswersAccept /\ SignedHoldAll /\ FundIsSigned

\* The empty slot holds no signatures.
LEMMA EmptySlot == NoContract.sigs # Signatures /\ NoContract.state \notin SignedStates
BY DEF NoContract, Record, Signatures, SignedStates

\* A verified message carries every signature.
LEMMA VerifiedIsAll ==
    ASSUME NEW sigs \in SUBSET Signatures,
           verify_accepted_and_sign_contract(sigs) \/ verify_signed_contract(sigs)
    PROVE  sigs = Signatures
BY DEF verify_accepted_and_sign_contract, verify_signed_contract, Signatures

\* A node without a trace of the contract has two empty slots.
LEMMA NoTraceIs ==
    ASSUME NEW p, NoTrace(p)
    PROVE  store[p]["temporary"] = NoContract /\ store[p]["contract"] = NoContract
BY IdsAre DEF NoTrace

\* send_offer and on_offer_message.
LEMMA OfferAgreement ==
    ASSUME TypeOK, AgreementInv, send_offer \/ on_offer_message
    PROVE  AgreementInv'
<1>1. store \in [Nodes -> [Ids -> Records]] /\ net \in [Nodes -> Messages \cup {None}]
  BY StoreType DEF TypeOK
<1>2. \/ UNCHANGED store
      \/ \E p \in Nodes : NoTrace(p) /\ create_contract(p)
  BY OtherIs DEF send_offer, on_offer_message
<1>3. /\ \A p \in Nodes : store'[p]["contract"] = store[p]["contract"]
      /\ OneSlot'
  <2>1. CASE UNCHANGED store
    BY <2>1 DEF OneSlot, AgreementInv
  <2>2. CASE \E p \in Nodes : NoTrace(p) /\ create_contract(p)
    <3>1. PICK p \in Nodes : NoTrace(p) /\ create_contract(p)
      BY <2>2
    <3>2. /\ \A q \in Nodes \ {p} : store'[q] = store[q]
          /\ store'[p]["contract"] = store[p]["contract"]
          /\ store[p]["contract"] = NoContract
      BY <1>1, <3>1, CreateStep, NoTraceIs
    <3> QED
      BY <3>2 DEF OneSlot, AgreementInv
  <2> QED
    BY <1>2, <2>1, <2>2
<1>4. ~Receives(Accepter, "sign")'
  <2>1. net'[Accepter] = None \/ net'[Accepter] = [type |-> "offer", cet_locktime |-> now]
    BY <1>1, OtherIs DEF send_offer, on_offer_message, Consume
  <2> QED
    BY <2>1 DEF Receives
<1>5. fund' = fund
  BY DEF send_offer, on_offer_message, chain
<1> QED
  BY <1>3, <1>4, <1>5, OtherIs
     DEF AgreementInv, SignAnswersAccept, SignedHoldAll, FundIsSigned

\* accept_contract_offer: the accepter has nothing under the final id yet.
LEMMA AcceptAgreement ==
    ASSUME TypeOK, AgreementInv, accept_contract_offer
    PROVE  AgreementInv'
<1>1. store \in [Nodes -> [Ids -> Records]] /\ net \in [Nodes -> Messages \cup {None}]
  BY StoreType DEF TypeOK
<1>2. store[Accepter]["temporary"].state = "Offered"
  BY InIs DEF accept_contract_offer, ContractStates
<1>3. store[Accepter]["contract"] = NoContract
  BY <1>2, NoContractType, OtherIs DEF AgreementInv, OneSlot
<1>4. /\ store'[Offerer] = store[Offerer]
      /\ store'[Accepter]["contract"] = Record("Accepted", None, {})
      /\ store'[Accepter]["temporary"] = NoContract
  <2>1. update_contract(Accepter, "Accepted", None, {}) /\ {} \in SUBSET Signatures
    BY DEF accept_contract_offer
  <2> QED
    BY <1>1, <2>1, PromoteStep, OtherIs
<1>5. net'[Accepter] = None
  BY <1>1, ArrivingType, SentSignatures, NetType, OtherIs DEF accept_contract_offer
<1>6. fund' = fund /\ fund = None
  BY <1>3, EmptySlot DEF accept_contract_offer, chain, AgreementInv, FundIsSigned
<1>7. store'[Accepter]["contract"].state = "Accepted"
  BY <1>4 DEF Record
<1>8. "Accepted" \notin SignedStates
  BY DEF SignedStates
<1>9. OneSlot'
  BY <1>4, OtherIs DEF AgreementInv, OneSlot
<1> QED
  BY <1>5, <1>6, <1>7, <1>8, <1>9
     DEF AgreementInv, SignAnswersAccept, SignedHoldAll, FundIsSigned, Receives

\* on_accept_message: the offerer has nothing under the final id yet, so nothing is funded.
LEMMA SignAgreement ==
    ASSUME TypeOK, AgreementInv, on_accept_message
    PROVE  AgreementInv'
<1>1. store \in [Nodes -> [Ids -> Records]] /\ net \in [Nodes -> Messages \cup {None}]
  BY StoreType DEF TypeOK
<1>2. store[Offerer]["temporary"].state = "Offered"
  BY InIs DEF on_accept_message, ContractStates
<1>3. store[Offerer]["contract"] = NoContract
  BY <1>2, NoContractType, OtherIs DEF AgreementInv, OneSlot
<1>4. store[Accepter]["contract"].state \notin SignedStates
  BY <1>3, EmptySlot, OtherIs DEF AgreementInv, SignedHoldAll
<1>5. ~Receives(Accepter, "sign")
  BY <1>3, EmptySlot DEF AgreementInv, SignAnswersAccept
<1>6. fund' = fund /\ fund = None
  BY <1>4 DEF on_accept_message, chain, AgreementInv, FundIsSigned
<1>7. net[Offerer].sigs \in SUBSET Signatures
  BY ReceivedType, OtherIs DEF on_accept_message
<1>8. /\ None \in Outcomes \cup {None} /\ {} \in SUBSET Signatures
      /\ Signatures \in SUBSET Signatures
      /\ "Signed" \in ContractStates /\ "FailedAccept" \in ContractStates
      /\ get_id("Signed") = "contract" /\ get_id("FailedAccept") = "temporary"
      /\ "contract" \in Ids \ {"temporary"}
  BY IdsAre DEF ContractStates
<1>9. CASE verify_accepted_and_sign_contract(net[Offerer].sigs)
  <2>1. net[Offerer].sigs = Signatures
    BY <1>7, <1>9, VerifiedIsAll
  <2>2. update_contract(Offerer, "Signed", None, Signatures)
    BY <1>9, <2>1, Zenon DEF on_accept_message
  <2>3. /\ store'[Accepter] = store[Accepter]
        /\ store'[Offerer]["contract"] = Record("Signed", None, Signatures)
        /\ store'[Offerer]["temporary"] = NoContract
    BY <1>1, <1>8, <2>2, PromoteStep, OtherIs
  <2>4. store'[Offerer]["contract"].sigs = Signatures
    BY <2>3 DEF Record
  <2>5. OneSlot'
    BY <2>3, OtherIs DEF AgreementInv, OneSlot
  <2> QED
    BY <1>4, <1>6, <2>3, <2>4, <2>5
       DEF AgreementInv, SignAnswersAccept, SignedHoldAll, FundIsSigned
<1>10. CASE ~verify_accepted_and_sign_contract(net[Offerer].sigs)
  <2>1. update_contract(Offerer, "FailedAccept", None, {}) /\ Consume(Offerer)
    BY <1>10 DEF on_accept_message
  <2>2. /\ store'[Accepter] = store[Accepter]
        /\ store'[Offerer]["contract"] = store[Offerer]["contract"]
    BY <1>1, <1>8, <2>1, UpdateStep, OtherIs
  <2>3. net'[Accepter] = net[Accepter]
    BY <1>1, <2>1, OtherIs DEF Consume
  <2>4. OneSlot'
    BY <1>3, <2>2, OtherIs DEF AgreementInv, OneSlot
  <2> QED
    BY <1>4, <1>5, <1>6, <2>2, <2>3, <2>4
       DEF AgreementInv, SignAnswersAccept, SignedHoldAll, FundIsSigned, Receives
<1> QED
  BY <1>9, <1>10

\* on_sign_message: the message itself shows that the offerer holds its share.
LEMMA SignedAgreement ==
    ASSUME TypeOK, AgreementInv, on_sign_message
    PROVE  AgreementInv'
<1>1. store \in [Nodes -> [Ids -> Records]] /\ net \in [Nodes -> Messages \cup {None}]
  BY StoreType DEF TypeOK
<1>2. store[Accepter]["contract"].state = "Accepted"
  BY InIs DEF on_sign_message, ContractStates
<1>3. store[Accepter]["temporary"] = NoContract
  BY <1>2, NoContractType, OtherIs DEF AgreementInv, OneSlot
<1>4. store[Offerer]["contract"].sigs = Signatures
  BY DEF on_sign_message, AgreementInv, SignAnswersAccept
<1>5. fund' = fund /\ fund = None
  <2>1. "Accepted" \notin SignedStates
    BY DEF SignedStates
  <2> QED
    BY <1>2, <2>1 DEF on_sign_message, chain, AgreementInv, FundIsSigned
<1>6. net[Accepter].sigs \in SUBSET Signatures
  BY ReceivedType, OtherIs DEF on_sign_message
<1>7. /\ None \in Outcomes \cup {None} /\ {} \in SUBSET Signatures
      /\ Signatures \in SUBSET Signatures
      /\ "Signed" \in ContractStates /\ "FailedSign" \in ContractStates
      /\ get_id("Signed") = "contract" /\ get_id("FailedSign") = "contract"
      /\ "temporary" \in Ids \ {"contract"}
  BY IdsAre DEF ContractStates
<1>8. ~Receives(Accepter, "sign")'
  BY <1>1, OtherIs DEF on_sign_message, Consume, Receives
<1>9. CASE verify_signed_contract(net[Accepter].sigs)
  <2>1. net[Accepter].sigs = Signatures
    BY <1>6, <1>9, VerifiedIsAll
  <2>2. update_contract(Accepter, "Signed", None, Signatures)
    BY <1>9, <2>1, Zenon DEF on_sign_message
  <2>3. /\ store'[Offerer] = store[Offerer]
        /\ store'[Accepter]["contract"] = Record("Signed", None, Signatures)
        /\ store'[Accepter]["temporary"] = NoContract
    BY <1>1, <1>7, <2>2, PromoteStep, OtherIs
  <2>4. store'[Accepter]["contract"].sigs = Signatures
    BY <2>3 DEF Record
  <2>5. OneSlot'
    BY <2>3, OtherIs DEF AgreementInv, OneSlot
  <2> QED
    BY <1>4, <1>5, <1>8, <2>3, <2>4, <2>5, OtherIs
       DEF AgreementInv, SignAnswersAccept, SignedHoldAll, FundIsSigned
<1>10. CASE ~verify_signed_contract(net[Accepter].sigs)
  <2>1. update_contract(Accepter, "FailedSign", None, {})
    BY <1>10 DEF on_sign_message
  <2>2. /\ store'[Offerer] = store[Offerer]
        /\ store'[Accepter]["contract"] = Record("FailedSign", None, {})
        /\ store'[Accepter]["temporary"] = NoContract
    BY <1>1, <1>3, <1>7, <2>1, UpdateStep, OtherIs
  <2>3. store'[Accepter]["contract"].state = "FailedSign"
    BY <2>2 DEF Record
  <2>4. "FailedSign" \notin SignedStates
    BY DEF SignedStates
  <2>5. OneSlot'
    BY <2>2, OtherIs DEF AgreementInv, OneSlot
  <2> QED
    BY <1>5, <1>8, <2>3, <2>4, <2>5
       DEF AgreementInv, SignAnswersAccept, SignedHoldAll, FundIsSigned
<1> QED
  BY <1>9, <1>10

\* The checks and the user's calls: a contract that moves on keeps its signatures.
LEMMA EndsAgreement ==
    ASSUME TypeOK, AgreementInv, NEW p \in Nodes, Ends(p)
    PROVE  AgreementInv'
<1>1. store \in [Nodes -> [Ids -> Records]]
  BY StoreType
<1>2. net' = net /\ (fund' # None => fund # None)
  BY DEF Ends, Sends, chain, send_transaction
<1>3. CASE UNCHANGED store
  BY <1>2, <1>3 DEF AgreementInv, OneSlot, SignAnswersAccept, SignedHoldAll, FundIsSigned, Receives
<1>4. CASE Moves(p)
  <2>1. PICK state \in Later, cet \in Outcomes \cup {None} :
            /\ Advance(p, state, cet)
            /\ store[p]["contract"].state \in {"Signed", "Confirmed", "PreClosed"}
    BY <1>4 DEF Moves
  <2>2. /\ \A q \in Nodes \ {p} : store'[q] = store[q]
        /\ store'[p]["contract"] = Record(state, cet, store[p]["contract"].sigs)
        /\ store'[p]["temporary"] = store[p]["temporary"]
    BY <1>1, <2>1, AdvanceStep
  <2>3. /\ store'[p]["contract"].state = state
        /\ store'[p]["contract"].sigs = store[p]["contract"].sigs
    BY <2>2 DEF Record
  <2>4. state \in SignedStates /\ store[p]["contract"].state \in SignedStates
    BY <2>1 DEF Later, SignedStates
  <2>5. store[p]["contract"] # NoContract
    BY <2>4, EmptySlot
  <2>6. OneSlot'
    BY <2>2, <2>5 DEF AgreementInv, OneSlot
  <2>7. \A q \in Nodes : /\ store'[q]["contract"].sigs = store[q]["contract"].sigs
                         /\ store'[q]["contract"].state \in SignedStates
                              <=> store[q]["contract"].state \in SignedStates
    BY <2>2, <2>3, <2>4
  <2> QED
    BY <1>2, <2>6, <2>7, OtherIs
       DEF AgreementInv, SignAnswersAccept, SignedHoldAll, FundIsSigned, Receives
<1> QED
  BY <1>3, <1>4 DEF Ends

\* The environment: only FundTransaction bears on the agreement.
LEMMA EnvironmentAgreement ==
    ASSUME TypeOK, AgreementInv, Environment
    PROVE  AgreementInv'
<1>1. UNCHANGED <<store, net>>
  BY EnvironmentType
<1>2. CASE FundTransaction
  <2>1. store[Accepter]["contract"].state = "Signed"
    BY <1>2, InIs DEF FundTransaction, ContractStates
  <2> QED
    BY <1>1, <2>1 DEF AgreementInv, OneSlot, SignAnswersAccept, SignedHoldAll, FundIsSigned,
                      Receives, SignedStates
<1>3. CASE ~FundTransaction
  <2>1. fund' # None => fund # None
    BY <1>3 DEF Environment, FundBlock, SpendBlock, Tick, Relay, Attest, chain
  <2> QED
    BY <1>1, <2>1 DEF AgreementInv, OneSlot, SignAnswersAccept, SignedHoldAll, FundIsSigned,
                      Receives
<1> QED
  BY <1>2, <1>3

\* Every step keeps what the nodes hold.
LEMMA AgreementStep == TypeOK /\ AgreementInv /\ [Next]_vars => AgreementInv'
<1> SUFFICES ASSUME TypeOK, AgreementInv, [Next]_vars PROVE AgreementInv'
  OBVIOUS
<1>1. CASE UNCHANGED vars
  BY <1>1 DEF vars, AgreementInv, OneSlot, SignAnswersAccept, SignedHoldAll, FundIsSigned, Receives
<1>2. CASE Negotiate
  BY <1>2, OfferAgreement, AcceptAgreement, SignAgreement, SignedAgreement DEF Negotiate
<1>3. CASE \E p \in Nodes : periodic_check(p) \/ User(p)
  BY <1>3, ClosingStep, EndsAgreement
<1> QED
  BY <1>1, <1>2, <1>3, EnvironmentAgreement DEF Next

\* Nothing is held before the first offer.
LEMMA AgreementInit == Init => AgreementInv
<1> SUFFICES ASSUME Init PROVE AgreementInv
  OBVIOUS
<1>1. \A p \in Nodes : store[p]["contract"] = NoContract /\ store[p]["temporary"] = NoContract
  BY IdsAre DEF Init
<1>2. net[Accepter] = None /\ fund = None
  BY OtherIs DEF Init
<1> QED
  BY <1>1, <1>2, EmptySlot, OtherIs
     DEF AgreementInv, OneSlot, SignAnswersAccept, SignedHoldAll, FundIsSigned, Receives

\* Spec keeps what the nodes hold.
THEOREM Agreement == Spec => []AgreementInv
BY AgreementInit, AgreementStep, TypeCorrect, PTL DEF Spec

\* Nobody's coins are locked before both nodes hold what gets them out again: once the fund
\* transaction is on its way both have stored the other's signatures, whatever was forged
\* and whoever crashed.
THEOREM BothHoldTheirWayOut == Spec => []FundedTogether
<1>1. AgreementInv => FundedTogether
  <2>1. get_id("Signed") = "contract"
    BY IdsAre DEF ContractStates
  <2> QED
    BY <2>1 DEF AgreementInv, FundIsSigned, SignedHoldAll, FundedTogether, get_contract
<1> QED
  BY <1>1, Agreement, PTL

\* A node never has the contract under both of its ids, where a second acceptance of the
\* offer would still find it.
THEOREM OneRecord == Spec => []OneRecordPerContract
<1>1. AgreementInv => OneRecordPerContract
  <2> SUFFICES ASSUME AgreementInv, NEW p \in Nodes
               PROVE  Cardinality({id \in Ids : store[p][id] # NoContract}) <= 1
    BY DEF OneRecordPerContract
  <2> DEFINE held == {id \in Ids : store[p][id] # NoContract}
  <2>1. held = {} \/ held = {"temporary"} \/ held = {"contract"}
    BY IdsAre DEF AgreementInv, OneSlot
  <2>2. Cardinality(held) = 0 \/ Cardinality(held) = 1
    BY <2>1, FS_EmptySet, FS_Singleton
  <2>3. Cardinality(held) <= 1
    <3> HIDE DEF held
    <3> QED
      BY <2>2
  <2> QED
    BY <2>3, Zenon
<1> QED
  BY <1>1, Agreement, PTL

----------------------------------------------------------------------------
(* What spends the fund output has been earned.                            *)

\* SpendIsEarned, transaction by transaction.
EarnedInv ==
    /\ \A p \in Nodes : Earned(mempool[p])
    /\ spend # None => Earned(spend.tx)

\* Attestations stay, and time goes on: what was earned stays so.
LEMMA EarnedStays ==
    ASSUME TypeOK, Next \/ UNCHANGED vars, NEW tx, Earned(tx)
    PROVE  Earned(tx)'
<1>1. /\ maturity' = maturity /\ now \in Nat /\ now' \in Nat /\ now <= now'
      /\ \A i \in Oracles : attested[i] # None => attested'[i] = attested[i]
  <2>1. now \in Nat /\ attested \in [Oracles -> Outcomes \cup Uncovered \cup {None}]
    BY TimesAssumption DEF TypeOK
  <2>2. CASE Tick
    BY <2>1, <2>2 DEF Tick
  <2>3. CASE \E i \in Oracles : Attest(i)
    BY <2>1, <2>3 DEF Attest
  <2>4. CASE UNCHANGED world
    BY <2>1, <2>4 DEF world
  <2>5. CASE Negotiate
    BY <2>4, <2>5, NegotiateType
  <2>6. CASE \E p \in Nodes : periodic_check(p) \/ User(p)
    BY <2>4, <2>6, ClosingStep DEF Ends
  <2>7. CASE FundTransaction \/ FundBlock \/ SpendBlock \/ \E p \in Nodes : Relay(p)
    BY <2>4, <2>7 DEF FundTransaction, FundBlock, SpendBlock, Relay
  <2>8. CASE UNCHANGED vars
    BY <2>4, <2>8 DEF vars, world
  <2> QED
    BY <2>2, <2>3, <2>5, <2>6, <2>7, <2>8 DEF Next, Environment
<1>2. RefundLocktime' = RefundLocktime /\ RefundLocktime \in Nat
  BY <1>1, RefundLocktimeFixed, RefundLocktimeType DEF TypeOK
<1>3. tx = Refund => (RefundLocktime <= now)'
  BY <1>1, <1>2 DEF Earned
<1>4. ASSUME tx \in Outcomes PROVE (Cardinality(For(tx)) >= Threshold)'
  <2>1. tx # None
    BY <1>4, NamesAssumption DEF Txs
  <2>2. For(tx) \in SUBSET For(tx)' /\ For(tx)' \in SUBSET Oracles
    BY <1>1, <2>1 DEF For
  <2>3. /\ Cardinality(For(tx)) <= Cardinality(For(tx)')
        /\ Cardinality(For(tx)) \in Nat /\ Cardinality(For(tx)') \in Nat
    BY <2>2, OraclesFinite
  <2>4. Cardinality(For(tx)) >= Threshold /\ Threshold \in Nat
    BY <1>4, OraclesAssumption DEF Earned
  <2>5. Cardinality(For(tx)') >= Threshold
    BY <2>3, <2>4
  <2> QED
    BY <2>5
<1> QED
  BY <1>3, <1>4 DEF Earned

\* What is held or mined after a step was held or mined before it, or has just been earned.
LEMMA EarnedStep == TypeOK /\ EarnedInv /\ [Next]_vars => EarnedInv'
<1> SUFFICES ASSUME TypeOK, EarnedInv, [Next]_vars PROVE EarnedInv'
  OBVIOUS
<1>1. /\ mempool \in [Nodes -> Txs \cup {None}]
      /\ spend \in [tx : Txs, confs : 1 .. NbConfirmations] \cup {None}
  BY DEF TypeOK
<1>2. /\ \A p \in Nodes : Earned(mempool'[p])
      /\ spend' # None => Earned(spend'.tx)
  <2>1. CASE UNCHANGED <<mempool, spend>>
    BY <2>1 DEF EarnedInv
  <2>2. CASE Negotiate
    BY <2>1, <2>2, NegotiateType DEF chain
  <2>3. CASE \E p \in Nodes : periodic_check(p) \/ User(p)
    <3>1. PICK p \in Nodes : Ends(p)
      BY <2>3, ClosingStep
    <3>2. CASE UNCHANGED chain
      BY <2>1, <3>2 DEF chain
    <3>3. CASE \E tx \in Txs : Earned(tx) /\ send_transaction(p, tx)
      <4>1. PICK tx \in Txs : Earned(tx) /\ send_transaction(p, tx)
        BY <3>3
      <4>2. mempool' = [mempool EXCEPT ![p] = tx] /\ spend' = spend
        BY <4>1 DEF send_transaction
      <4> QED
        BY <1>1, <4>1, <4>2 DEF EarnedInv
    <3> QED
      BY <3>1, <3>2, <3>3 DEF Ends, Sends
  <2>4. CASE SpendBlock
    <3>1. CASE \E p \in Nodes : /\ spend = None /\ mempool[p] # None
                                /\ spend' = [tx |-> mempool[p], confs |-> 1]
                                /\ mempool' = [q \in Nodes |-> None]
      <4>1. Earned(None)
        BY NamesAssumption DEF Earned, Txs
      <4> QED
        BY <3>1, <4>1 DEF EarnedInv
    <3>2. CASE /\ spend # None
               /\ spend' = [spend EXCEPT !.confs = @ + 1]
               /\ UNCHANGED mempool
      <4>1. spend'.tx = spend.tx
        BY <1>1, <3>2
      <4> QED
        BY <3>2, <4>1 DEF EarnedInv
    <3> QED
      BY <2>4, <3>1, <3>2 DEF SpendBlock
  <2>5. CASE \E p \in Nodes : Relay(p)
    BY <1>1, <2>5, OtherIs DEF Relay, EarnedInv
  <2>6. CASE FundTransaction \/ FundBlock \/ Tick \/ (\E i \in Oracles : Attest(i)) \/ UNCHANGED vars
    BY <2>1, <2>6 DEF FundTransaction, FundBlock, Tick, Attest, chain, vars
  <2> QED
    BY <2>2, <2>3, <2>4, <2>5, <2>6 DEF Next, Environment
<1>3. ASSUME NEW p \in Nodes PROVE Earned(mempool[p])'
  <2>1. ASSUME NEW tx, tx = mempool'[p] PROVE Earned(mempool[p])'
    BY <1>2, <2>1, EarnedStays DEF Earned, For
  <2> QED
    BY <2>1
<1>4. ASSUME spend' # None PROVE Earned(spend.tx)'
  <2>1. ASSUME NEW tx, tx = spend'.tx PROVE Earned(spend.tx)'
    BY <1>2, <1>4, <2>1, EarnedStays DEF Earned, For
  <2> QED
    BY <2>1
<1> QED
  BY <1>3, <1>4 DEF EarnedInv

\* Every transaction a mempool or the chain holds has been earned.
LEMMA EarnedAlways == Spec => []EarnedInv
<1>1. Init => EarnedInv
  <2>1. Earned(None)
    BY NamesAssumption DEF Earned, Txs
  <2> QED
    BY <2>1 DEF Init, EarnedInv
<1> QED
  BY <1>1, EarnedStep, TypeCorrect, PTL DEF Spec

\* A CET gets into a mempool or a block only when threshold oracles attested its outcome,
\* and a refund only when its lock time has passed: a disagreement of the oracles, a
\* process that ends after sending, and a race of the two nodes included.
THEOREM OnlyEarnedSpends == Spec => []SpendIsEarned
<1>1. EarnedInv => SpendIsEarned
  <2> SUFFICES ASSUME EarnedInv,
                      NEW tx \in {mempool[p] : p \in Nodes}
                                 \cup (IF spend = None THEN {} ELSE {spend.tx})
               PROVE  CASE tx = Refund -> RefundLocktime <= now
                        [] tx \in Outcomes ->
                             Cardinality({i \in Oracles : attested[i] = tx}) >= Threshold
                        [] OTHER -> TRUE
    BY DEF SpendIsEarned
  <2>1. Earned(tx)
    BY DEF EarnedInv
  <2>2. /\ tx = Refund => RefundLocktime <= now
        /\ tx \in Outcomes => Cardinality({i \in Oracles : attested[i] = tx}) >= Threshold
        /\ Refund \notin Outcomes
    BY <2>1, NamesAssumption, Zenon DEF Earned, For
  <2> QED
    BY <2>2
<1> QED
  BY <1>1, EarnedAlways, PTL

----------------------------------------------------------------------------
(* The refinement of ContractOutcome.                                      *)

\* The refinement mapping, as DlcContract's instance has it.
outcomeOf == IF spend # None /\ spend.confs >= NbConfirmations THEN spend.tx ELSE None
dueOf == RefundLocktime <= now
recordOf == [p \in Nodes |-> CASE In(p, {"Closed"}) -> get_contract(p).cet
                               [] In(p, {"Refunded"}) -> Refund
                               [] OTHER -> None]

\* What the record of a node maps to, by its state.
EndOf(rec) == CASE rec.state = "Closed" -> rec.cet
                [] rec.state = "Refunded" -> Refund
                [] OTHER -> None

\* The mapping reads the record under the final id.
LEMMA RecordOfIs == recordOf = [p \in Nodes |-> EndOf(store[p]["contract"])]
<1>1. /\ get_id("Closed") = "contract" /\ get_id("Refunded") = "contract"
      /\ get_id("Signed") = "contract"
  BY IdsAre DEF ContractStates
<1>2. \A p \in Nodes : /\ In(p, {"Closed"}) <=> store[p]["contract"].state = "Closed"
                       /\ In(p, {"Refunded"}) <=> store[p]["contract"].state = "Refunded"
                       /\ get_contract(p) = store[p]["contract"]
  BY <1>1 DEF In, get_contract
<1> QED
  BY <1>2 DEF recordOf, EndOf

\* The same of the next state.
LEMMA RecordOfIsNext == recordOf' = [p \in Nodes |-> EndOf(store'[p]["contract"])]
<1>1. /\ get_id("Closed") = "contract" /\ get_id("Refunded") = "contract"
      /\ get_id("Signed") = "contract"
  BY IdsAre DEF ContractStates
<1>2. \A p \in Nodes : /\ In(p, {"Closed"})' <=> store'[p]["contract"].state = "Closed"
                       /\ In(p, {"Refunded"})' <=> store'[p]["contract"].state = "Refunded"
                       /\ get_contract(p)' = store'[p]["contract"]
  BY <1>1 DEF In, get_contract
<1> QED
  BY <1>2 DEF recordOf, EndOf

\* A negotiation ends no record: it touches only empty slots and the accepted contract.
LEMMA NegotiateKeepsRecords ==
    ASSUME TypeOK, AgreementInv, Negotiate
    PROVE  recordOf' = recordOf
<1>1. store \in [Nodes -> [Ids -> Records]]
  BY StoreType
<1>2. \A p \in Nodes : EndOf(store'[p]["contract"]) = EndOf(store[p]["contract"])
  <2>1. ASSUME NEW p \in Nodes, create_contract(p) \/ UNCHANGED store
        PROVE  \A q \in Nodes : store'[q]["contract"] = store[q]["contract"]
    BY <1>1, <2>1, CreateStep
  <2>2. CASE send_offer \/ on_offer_message
    <3>1. \A q \in Nodes : store'[q]["contract"] = store[q]["contract"]
      BY <2>1, <2>2, OtherIs DEF send_offer, on_offer_message
    <3> QED
      BY <3>1
  <2>3. ASSUME NEW p \in Nodes, NEW state \in ContractStates \ {"Closed", "Refunded"},
               NEW sigs \in SUBSET Signatures, update_contract(p, state, None, sigs),
               store[p]["contract"].state \notin {"Closed", "Refunded"}
        PROVE  \A q \in Nodes : EndOf(store'[q]["contract"]) = EndOf(store[q]["contract"])
    <3>1. None \in Outcomes \cup {None} /\ "contract" \in Ids
      BY IdsAre
    <3>2. /\ \A q \in Nodes \ {p} : store'[q] = store[q]
          /\ store'[p][get_id(state)] = Record(state, None, sigs)
          /\ state \notin {"Accepted", "Signed"} =>
                \A id \in Ids \ {get_id(state)} : store'[p][id] = store[p][id]
      BY <1>1, <2>3, <3>1, UpdateStep
    <3>3. CASE get_id(state) = "contract"
      BY <2>3, <3>2, <3>3 DEF EndOf, Record
    <3>4. CASE get_id(state) # "contract"
      <4>1. state \notin {"Accepted", "Signed"}
        BY <3>4, IdsAre DEF ContractStates
      <4>2. store'[p]["contract"] = store[p]["contract"]
        BY <3>1, <3>2, <3>4, <4>1
      <4> QED
        BY <3>2, <4>2
    <3> QED
      BY <3>3, <3>4
  <2>4. /\ {"Accepted", "Signed", "FailedAccept", "FailedSign"}
              \subseteq ContractStates \ {"Closed", "Refunded"}
        /\ {} \in SUBSET Signatures
        /\ NoContract.state \notin {"Closed", "Refunded"}
    BY NoContractType DEF ContractStates
  <2>5. CASE accept_contract_offer
    <3>1. store[Accepter]["contract"] = NoContract
      BY <2>5, InIs, NoContractType, OtherIs
         DEF accept_contract_offer, ContractStates, AgreementInv, OneSlot
    <3> QED
      BY <2>3, <2>4, <2>5, <3>1, OtherIs DEF accept_contract_offer
  <2>6. CASE on_accept_message
    <3>1. store[Offerer]["contract"] = NoContract
      BY <2>6, InIs, NoContractType, OtherIs
         DEF on_accept_message, ContractStates, AgreementInv, OneSlot
    <3>2. net[Offerer].sigs \in SUBSET Signatures
      BY <2>6, ReceivedType, OtherIs DEF on_accept_message
    <3> QED
      BY <2>3, <2>4, <2>6, <3>1, <3>2, OtherIs DEF on_accept_message
  <2>7. CASE on_sign_message
    <3>1. store[Accepter]["contract"].state = "Accepted"
      BY <2>7, InIs DEF on_sign_message, ContractStates
    <3>2. net[Accepter].sigs \in SUBSET Signatures
      BY <2>7, ReceivedType, OtherIs DEF on_sign_message
    <3> QED
      BY <2>3, <2>4, <2>7, <3>1, <3>2, OtherIs DEF on_sign_message
  <2> QED
    BY <2>2, <2>5, <2>6, <2>7 DEF Negotiate
<1> QED
  BY <1>2, RecordOfIs, RecordOfIsNext

\* A record that moves on stays open, closes with what the chain has decided for, or ends as
\* refunded when the refund is due.
LEMMA MovesRecords ==
    ASSUME TypeOK, EarnedInv, NEW p \in Nodes, Moves(p)
    PROVE  \/ recordOf' = recordOf
           \/ /\ recordOf[p] = None /\ outcomeOf \in Outcomes
              /\ recordOf' = [recordOf EXCEPT ![p] = outcomeOf]
           \/ /\ recordOf[p] = None /\ dueOf
              /\ recordOf' = [recordOf EXCEPT ![p] = Refund]
<1>1. store \in [Nodes -> [Ids -> Records]]
  BY StoreType
<1>2. PICK state \in Later, cet \in Outcomes \cup {None} :
          /\ Advance(p, state, cet)
          /\ store[p]["contract"].state \in {"Signed", "Confirmed", "PreClosed"}
          /\ state = "Closed" => Confirmations(cet) >= NbConfirmations
          /\ state = "Refunded" => \/ RefundLocktime <= now
                                   \/ spend # None /\ spend.tx = Refund
                                   \/ mempool[p] = Refund
  BY DEF Moves
<1>3. /\ \A q \in Nodes \ {p} : store'[q] = store[q]
      /\ store'[p]["contract"].state = state /\ store'[p]["contract"].cet = cet
  <2>1. /\ \A q \in Nodes \ {p} : store'[q] = store[q]
        /\ store'[p]["contract"] = Record(state, cet, store[p]["contract"].sigs)
    BY <1>1, <1>2, AdvanceStep
  <2> QED
    BY <2>1 DEF Record
<1>4. EndOf(store[p]["contract"]) = None
  BY <1>2 DEF EndOf
<1>5. /\ recordOf[p] = None
      /\ recordOf' = [recordOf EXCEPT ![p] = EndOf(store'[p]["contract"])]
  <2>1. \A q \in Nodes \ {p} : EndOf(store'[q]["contract"]) = EndOf(store[q]["contract"])
    BY <1>3
  <2> QED
    BY <1>4, <2>1, RecordOfIs, RecordOfIsNext
<1>6. CASE state = "Closed"
  <2>1. spend # None => spend \in [tx : Txs, confs : 1 .. NbConfirmations]
    BY DEF TypeOK
  <2>2. spend # None /\ spend.tx = cet /\ spend.confs >= NbConfirmations
    BY <1>2, <1>6, TimesAssumption DEF Confirmations
  <2>3. cet \in Outcomes
    BY <2>1, <2>2, NamesAssumption DEF Txs
  <2>4. EndOf(store'[p]["contract"]) = cet /\ outcomeOf = cet
    BY <1>3, <1>6, <2>2 DEF EndOf, outcomeOf
  <2> QED
    BY <1>5, <2>3, <2>4
<1>7. CASE state = "Refunded"
  <2>1. dueOf
    BY <1>2, <1>7 DEF dueOf, EarnedInv, Earned
  <2>2. EndOf(store'[p]["contract"]) = Refund
    BY <1>3, <1>7 DEF EndOf
  <2> QED
    BY <1>5, <2>1, <2>2
<1>8. CASE state \notin {"Closed", "Refunded"}
  <2>1. EndOf(store'[p]["contract"]) = None
    BY <1>3, <1>8 DEF EndOf
  <2>2. recordOf' = recordOf
    BY <1>5, <2>1, RecordOfIs
  <2> QED
    BY <2>2
<1> QED
  BY <1>6, <1>7, <1>8

\* A block decides at most once, and for an earned transaction.
LEMMA BlockDecides ==
    ASSUME TypeOK, EarnedInv, SpendBlock
    PROVE  \/ outcomeOf' = outcomeOf
           \/ /\ outcomeOf = None
              /\ outcomeOf' \in Outcomes \cup (IF dueOf THEN {Refund} ELSE {})
<1>1. /\ mempool \in [Nodes -> Txs \cup {None}]
      /\ spend \in [tx : Txs, confs : 1 .. NbConfirmations] \cup {None}
      /\ NbConfirmations \in Nat \ {0}
  BY TimesAssumption DEF TypeOK
<1>2. ASSUME NEW tx \in Txs, Earned(tx)
      PROVE  tx \in Outcomes \cup (IF dueOf THEN {Refund} ELSE {})
  BY <1>2 DEF Txs, Earned, dueOf
<1>3. CASE \E p \in Nodes : /\ spend = None /\ mempool[p] # None
                            /\ spend' = [tx |-> mempool[p], confs |-> 1]
  <2>1. PICK p \in Nodes : /\ spend = None /\ mempool[p] # None
                           /\ spend' = [tx |-> mempool[p], confs |-> 1]
    BY <1>3
  <2>2. outcomeOf = None /\ outcomeOf' \in {None, mempool[p]}
    BY <2>1 DEF outcomeOf
  <2>3. mempool[p] \in Outcomes \cup (IF dueOf THEN {Refund} ELSE {})
    <3>1. mempool[p] \in Txs /\ Earned(mempool[p])
      BY <1>1, <2>1 DEF EarnedInv
    <3> QED
      BY <3>1, <1>2
  <2> QED
    BY <2>2, <2>3
<1>4. CASE /\ spend # None /\ spend.confs < NbConfirmations
           /\ spend' = [spend EXCEPT !.confs = @ + 1]
  <2>1. spend \in [tx : Txs, confs : 1 .. NbConfirmations] /\ spend'.tx = spend.tx
    BY <1>1, <1>4
  <2>2. outcomeOf = None
    BY <1>1, <1>4, <2>1 DEF outcomeOf
  <2>3. outcomeOf' \in {None, spend.tx}
    BY <2>1 DEF outcomeOf
  <2>4. spend.tx \in Outcomes \cup (IF dueOf THEN {Refund} ELSE {})
    <3>1. spend.tx \in Txs /\ Earned(spend.tx)
      BY <1>4, <2>1 DEF EarnedInv
    <3> QED
      BY <3>1, <1>2
  <2> QED
    BY <2>2, <2>3, <2>4
<1> QED
  BY <1>3, <1>4 DEF SpendBlock

\* Without a step of the clock the refund is due as before.
LEMMA DueStays ==
    ASSUME UNCHANGED <<maturity, now>>
    PROVE  dueOf' = dueOf
BY RefundLocktimeFixed DEF dueOf

\* With the records' slots unchanged the mapping is too.
LEMMA RecordsStay ==
    ASSUME UNCHANGED store
    PROVE  recordOf' = recordOf
BY RecordOfIs, RecordOfIsNext

\* Every step of the contract is a step of ContractOutcome or leaves it alone.
LEMMA OutcomeStep ==
    ASSUME TypeOK, AgreementInv, EarnedInv, [Next]_vars
    PROVE  \/ UNCHANGED <<outcomeOf, dueOf, recordOf>>
           \/ ~dueOf /\ dueOf' /\ UNCHANGED <<outcomeOf, recordOf>>
           \/ /\ outcomeOf = None
              /\ outcomeOf' \in Outcomes \cup (IF dueOf THEN {Refund} ELSE {})
              /\ UNCHANGED <<dueOf, recordOf>>
           \/ /\ \E p \in Nodes :
                    /\ recordOf[p] = None
                    /\ \/ outcomeOf \in Outcomes /\ recordOf' = [recordOf EXCEPT ![p] = outcomeOf]
                       \/ dueOf /\ recordOf' = [recordOf EXCEPT ![p] = Refund]
              /\ UNCHANGED <<outcomeOf, dueOf>>
<1>1. spend' = spend => outcomeOf' = outcomeOf
  BY DEF outcomeOf
<1>2. CASE Negotiate
  BY <1>1, <1>2, NegotiateType, NegotiateKeepsRecords, DueStays DEF world, chain
<1>3. CASE \E p \in Nodes : periodic_check(p) \/ User(p)
  <2>1. PICK p \in Nodes : Ends(p)
    BY <1>3, ClosingStep
  <2>2. outcomeOf' = outcomeOf /\ dueOf' = dueOf
    BY <1>1, <2>1, DueStays DEF Ends, Sends, send_transaction, chain, world
  <2>3. CASE UNCHANGED store
    BY <2>2, <2>3, RecordsStay
  <2>4. CASE Moves(p)
    BY <2>2, <2>4, MovesRecords
  <2> QED
    BY <2>1, <2>3, <2>4 DEF Ends
<1>4. CASE SpendBlock
  BY <1>4, BlockDecides, DueStays, RecordsStay DEF SpendBlock, world
<1>5. CASE Tick
  <2>1. outcomeOf' = outcomeOf /\ recordOf' = recordOf
    BY <1>1, <1>5, RecordsStay DEF Tick, chain
  <2>2. dueOf => dueOf'
    <3>1. /\ RefundLocktime' = RefundLocktime /\ RefundLocktime \in Nat
          /\ now \in Nat /\ now' = now + 1
      BY <1>5, RefundLocktimeFixed, RefundLocktimeType, TimesAssumption DEF Tick, TypeOK
    <3> QED
      BY <3>1 DEF dueOf
  <2>3. dueOf \in BOOLEAN /\ dueOf' \in BOOLEAN
    BY DEF dueOf
  <2> QED
    BY <2>1, <2>2, <2>3, Zenon
<1>6. CASE \/ FundTransaction \/ FundBlock \/ \E p \in Nodes : Relay(p)
           \/ \E i \in Oracles : Attest(i)
  BY <1>1, <1>6, DueStays, RecordsStay DEF FundTransaction, FundBlock, Relay, Attest, chain, world
<1>7. CASE UNCHANGED vars
  BY <1>1, <1>7, DueStays, RecordsStay DEF vars
<1> QED
  BY <1>2, <1>3, <1>4, <1>5, <1>6, <1>7 DEF Next, Environment

\* The detailed contract implements ContractOutcome: the chain decides once, for a CET or
\* for a refund that is due, and each node's record ends at most once, as closed with what
\* was decided or as refunded when the refund is due.
THEOREM ContractImplementsOutcome == Spec => ImplementsOutcome
<1>1. Init => O!OutcomeInit
  <2> SUFFICES ASSUME Init PROVE O!OutcomeInit
    OBVIOUS
  <2>1. outcomeOf = None
    BY DEF Init, outcomeOf
  <2>2. ~dueOf
    <3>1. RefundLocktime \in Nat /\ RefundLocktime > 0 /\ now = 0
      BY RefundLocktimeType DEF Init
    <3> QED
      BY <3>1 DEF dueOf
  <2>3. recordOf = [p \in Nodes |-> None]
    <3>1. \A p \in Nodes : store[p]["contract"] = NoContract
      BY IdsAre DEF Init
    <3>2. EndOf(NoContract) = None
      BY NoContractType DEF EndOf
    <3> QED
      BY <3>1, <3>2, RecordOfIs
  <2> QED
    BY <2>1, <2>2, <2>3 DEF O!OutcomeInit, outcomeOf, dueOf, recordOf
<1>2. TypeOK /\ AgreementInv /\ EarnedInv /\ [Next]_vars => [O!OutcomeNext]_(O!ovars)
  <2> SUFFICES ASSUME TypeOK, AgreementInv, EarnedInv, [Next]_vars
               PROVE  O!OutcomeNext \/ UNCHANGED O!ovars
    OBVIOUS
  <2> USE DEF outcomeOf, dueOf, recordOf
  <2>1. CASE UNCHANGED <<outcomeOf, dueOf, recordOf>>
    BY <2>1, Zenon DEF O!ovars
  <2>2. CASE ~dueOf /\ dueOf' /\ UNCHANGED <<outcomeOf, recordOf>>
    BY <2>2, Zenon DEF O!OutcomeNext, O!BecomeDue
  <2>3. CASE /\ outcomeOf = None
             /\ outcomeOf' \in Outcomes \cup (IF dueOf THEN {Refund} ELSE {})
             /\ UNCHANGED <<dueOf, recordOf>>
    BY <2>3, Zenon DEF O!OutcomeNext, O!Decide
  <2>4. CASE /\ \E p \in Nodes :
                    /\ recordOf[p] = None
                    /\ \/ outcomeOf \in Outcomes /\ recordOf' = [recordOf EXCEPT ![p] = outcomeOf]
                       \/ dueOf /\ recordOf' = [recordOf EXCEPT ![p] = Refund]
             /\ UNCHANGED <<outcomeOf, dueOf>>
    BY <2>4, Zenon DEF O!OutcomeNext, O!RecordClosed, O!RecordRefunded
  <2> QED
    BY <2>1, <2>2, <2>3, <2>4, OutcomeStep, Zenon
<1> QED
  BY <1>1, <1>2, EarnedAlways, TypeCorrect, Agreement, PTL
     DEF Spec, ImplementsOutcome, O!OutcomeSpec

=============================================================================
