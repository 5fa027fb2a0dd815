---------------------------- MODULE DlcContract ----------------------------
(***************************************************************************)
(* A contract outside of a channel between two nodes that run the same     *)
(* Manager: offer, accept and sign, confirmation of the fund transaction,  *)
(* closing with the attestations of the oracles or refunding, and what the *)
(* store says meanwhile (dlc-manager/src/manager.rs,                       *)
(* contract_updater.rs, contract/).                                        *)
(*                                                                         *)
(* A handler or check that returns Err leaves the stored contract alone,   *)
(* unless it stores a failure: it is no step here. Each node has a Bitcoin *)
(* node of its own, whose mempool refuses a transaction that conflicts     *)
(* with one it holds. A CET is named by the outcome it pays for.           *)
(*                                                                         *)
(* The assertion of create_fund_transaction_with_fees (see Funding) stops  *)
(* every acceptance of a contract that is not a loan; here the transactions*)
(* are built. Loans (see LoanProtocol) get to Accepted, Signed and the     *)
(* states after it by the same handlers: their offerer is the lender.      *)
(***************************************************************************)
EXTENDS Naturals, FiniteSets, FiniteSetsExt

CONSTANTS
    Offerer, Accepter, \* the two nodes
    FirstSigner,       \* the node whose signature the fund output's script takes first
    None,
    NbOracles,         \* the oracles are 1 .. NbOracles, in announcement order
    Threshold,         \* ContractInfo::threshold
    Outcomes,          \* the outcomes with a payout
    Uncovered,         \* outcomes an oracle can attest that no CET pays for
    Refund,            \* the refund transaction
    Maturities,        \* the event_maturity_epoch of the oracles: a set of choices
    RefundDelay,       \* REFUND_DELAY
    NbConfirmations,   \* NB_CONFIRMATIONS
    Forged,            \* may a message fail its verification
    Crashes,           \* may a node stop between sending and storing
    MaxTime            \* bound on the clock (only for TLC)

Nodes == {Offerer, Accepter}
Oracles == 1 .. NbOracles
Txs == Outcomes \cup {Refund}

ASSUME NodesAssumption == Offerer # Accepter /\ FirstSigner \in {Offerer, Accepter}
ASSUME NamesAssumption == None \notin Nodes \cup Txs /\ Refund \notin Outcomes
ASSUME OraclesAssumption == NbOracles \in Nat \ {0} /\ Threshold \in 1 .. NbOracles
ASSUME TimesAssumption ==
    /\ Maturities \subseteq [Oracles -> Nat]
    /\ RefundDelay \in Nat \ {0} /\ MaxTime \in Nat /\ NbConfirmations \in Nat \ {0}
ASSUME FaultsAssumption == {Forged, Crashes} \subseteq BOOLEAN

VARIABLES
    store,      \* per node its contract tree: the record under either id of the contract
    net,        \* per node the message on its way to it, or None
    maturity,   \* the maturities announced for this contract
    now,        \* unix_time_now
    attested,   \* per oracle the outcome it attested, or None
    fund,       \* confirmations of the fund transaction, or None before it is sent
    mempool,    \* per node what its Bitcoin node holds that spends the fund output
    spend       \* what spends it in the chain, with its confirmations, or None

vars == <<store, net, maturity, now, attested, fund, mempool, spend>>
chain == <<fund, mempool, spend>>
world == <<maturity, now, attested>>

Other(p) == IF p = Offerer THEN Accepter ELSE Offerer

ContractStates == {"None", "Offered", "Accepted", "Signed", "Confirmed", "PreClosed",
                   "Closed", "Refunded", "FailedAccept", "FailedSign"}

\* What a node signs for the other besides the fund transaction's inputs.
Signatures == {"refund", "cets"}

\* A record: the state, the CET that closes the contract, and the signatures of the
\* other node that were stored. NoContract is an empty slot of the tree.
Record(state, cet, sigs) == [state |-> state, cet |-> cet, sigs |-> sigs]
NoContract == Record("None", None, {})

get_temporary_id == "temporary"
get_id(state) ==
    IF state \in {"Offered", "FailedAccept"} THEN get_temporary_id ELSE "contract"
Ids == {get_temporary_id, get_id("Signed")}

\* get_contract and get_signed_contracts, get_confirmed_contracts, ...: the record in
\* one of these states.
In(p, states) == \E s \in states : store[p][get_id(s)].state = s
get_contract(p) == store[p][get_id("Signed")]

NoTrace(p) == \A id \in Ids : store[p][id] = NoContract

Inserted(tree, rec) == [tree EXCEPT ![get_id(rec.state)] = rec]
create_contract(p) ==
    store' = [store EXCEPT ![p] = Inserted(@, Record("Offered", None, {}))]

\* Mutant: the offer stays under its temporary id.
update_contract_kept(p, state, cet, sigs) ==
    store' = [store EXCEPT ![p] = Inserted(@, Record(state, cet, sigs))]

\* One transaction of the tree: what was kept under the temporary id goes.
update_contract(p, state, cet, sigs) ==
    store' = [store EXCEPT ![p] =
                Inserted(IF state \in {"Accepted", "Signed"}
                                THEN [@ EXCEPT ![get_temporary_id] = NoContract] ELSE @,
                                Record(state, cet, sigs))]

\* The later states keep the signed contract.
Advance(p, state, cet) == update_contract(p, state, cet, get_contract(p).sigs)

\* OfferedContract::new
RefundLocktime == Max({maturity[i] : i \in Oracles}) + RefundDelay

Messages == [type : {"offer"}, cet_locktime : Nat]
            \cup [type : {"accept", "sign"}, sigs : SUBSET Signatures]

Init ==
    /\ store = [p \in Nodes |-> [id \in Ids |-> NoContract]]
    /\ net = [p \in Nodes |-> None]
    /\ maturity \in Maturities
    /\ now = 0
    /\ attested = [i \in Oracles |-> None]
    /\ fund = None
    /\ mempool = [p \in Nodes |-> None]
    /\ spend = None
-----------------------------------------------------------------------------
(***************************************************************************)
(* Negotiation.                                                            *)
(***************************************************************************)
\* The user's contract input. The offer is stored after it is handed to the user to send.
send_offer ==
    /\ NoTrace(Offerer)
    /\ create_contract(Offerer)
    /\ net' = [net EXCEPT ![Accepter] = [type |-> "offer", cet_locktime |-> now]]
    /\ UNCHANGED <<world, chain>>

\* OfferDlc::validate with REFUND_DELAY and twice that.
ValidDates(cet_locktime) ==
    LET closest == Min({maturity[i] : i \in Oracles})
    IN  /\ cet_locktime <= closest
        /\ closest + RefundDelay <= RefundLocktime
        /\ RefundLocktime <= closest + 2 * RefundDelay

Receives(p, type) == net[p] # None /\ net[p].type = type
Consume(p) == net' = [net EXCEPT ![p] = None]
Reply(p, type, sigs) ==
    net' = [net EXCEPT ![p] = None, ![Other(p)] = [type |-> type, sigs |-> sigs]]

\* Which of the signatures sent arrive as they should be (external).
Arriving(sent) == IF Forged THEN SUBSET sent ELSE {sent}

on_offer_message ==
    /\ Receives(Accepter, "offer")
    /\ Consume(Accepter)
    /\ IF ValidDates(net[Accepter].cet_locktime) /\ NoTrace(Accepter)
       THEN create_contract(Accepter) ELSE UNCHANGED store
    /\ UNCHANGED <<world, chain>>

\* accept_contract and accept_contract_internal: the accepter signs the CETs and the refund.
accept_contract == {"cets", "refund"}

accept_contract_offer ==
    /\ In(Accepter, {"Offered"})
    /\ update_contract(Accepter, "Accepted", None, {})
    /\ \E sigs \in Arriving(accept_contract) : Reply(Accepter, "accept", sigs)
    /\ UNCHANGED <<world, chain>>

\* Mutant: the refund signature is not looked at.
verify_accepted_cets(sigs) == "cets" \in sigs

\* verify_tx_input_sig of the refund, then verify_and_get_adaptor_info.
verify_accepted_and_sign_contract(sigs) == "refund" \in sigs /\ "cets" \in sigs

\* own_signatures and offer_refund_signature of the same function.
own_signatures == {"cets", "refund"}

\* Then accept_fail_on_error, or the answer.
on_accept_message ==
    /\ Receives(Offerer, "accept") /\ In(Offerer, {"Offered"})
    /\ IF verify_accepted_and_sign_contract(net[Offerer].sigs)
       THEN /\ update_contract(Offerer, "Signed", None, net[Offerer].sigs)
            /\ \E sigs \in Arriving(own_signatures) : Reply(Offerer, "sign", sigs)
       ELSE update_contract(Offerer, "FailedAccept", None, {}) /\ Consume(Offerer)
    /\ UNCHANGED <<world, chain>>

\* verify_tx_input_sig of the refund, then verify_adaptor_info. The signatures of the
\* fund transaction's inputs are placeholders.
verify_signed_contract(sigs) == "refund" \in sigs /\ "cets" \in sigs

\* Then sign_fail_on_error or Signed. Sending the fund transaction is commented out.
on_sign_message ==
    /\ Receives(Accepter, "sign") /\ In(Accepter, {"Accepted"})
    /\ Consume(Accepter)
    /\ IF verify_signed_contract(net[Accepter].sigs)
       THEN update_contract(Accepter, "Signed", None, net[Accepter].sigs)
       ELSE update_contract(Accepter, "FailedSign", None, {})
    /\ UNCHANGED <<world, chain>>
-----------------------------------------------------------------------------
(***************************************************************************)
(* Bitcoin and the oracles (external).                                     *)
(***************************************************************************)
\* get_transaction_confirmations of a transaction that spends the fund output.
Confirmations(tx) == IF spend # None /\ spend.tx = tx THEN spend.confs ELSE 0

\* sign_multi_sig_input puts the signature of the node that sends the transaction first,
\* whatever the order of the keys in the script: the smaller one in a 2-of-2, the
\* borrower's in the collateral script.
WitnessFits(p) == p = FirstSigner

\* Bitcoin Core takes a transaction it already holds, refuses a conflict, a witness that
\* does not satisfy the script, and a refund before its lock time.
Takes(p, tx) ==
    /\ fund # None
    /\ WitnessFits(p)
    /\ spend = None
    /\ mempool[p] \in {None, tx}
    /\ tx = Refund => RefundLocktime <= now

send_transaction(p, tx) ==
    /\ Takes(p, tx)
    /\ mempool' = [mempool EXCEPT ![p] = tx]
    /\ UNCHANGED <<fund, spend>>

\* The fund transaction is complete when the accepter holds all signatures. The
\* manager does not send it: the user of the wallet, or the loan protocol, does.
FundTransaction ==
    /\ In(Accepter, {"Signed"}) /\ fund = None
    /\ fund' = 0
    /\ UNCHANGED <<store, net, world, mempool, spend>>

Relay(p) ==
    /\ mempool[p] # None /\ mempool[Other(p)] = None /\ spend = None
    /\ mempool' = [mempool EXCEPT ![Other(p)] = mempool[p]]
    /\ UNCHANGED <<store, net, world, fund, spend>>

\* A block: the fund transaction or what spends it is mined, or buried deeper.
FundBlock ==
    /\ fund # None /\ fund < NbConfirmations
    /\ fund' = fund + 1
    /\ UNCHANGED <<store, net, world, mempool, spend>>

SpendBlock ==
    /\ \/ \E p \in Nodes : /\ spend = None /\ mempool[p] # None /\ fund # 0
                           /\ spend' = [tx |-> mempool[p], confs |-> 1]
                           /\ mempool' = [q \in Nodes |-> None]
       \/ /\ spend # None /\ spend.confs < NbConfirmations
          /\ spend' = [spend EXCEPT !.confs = @ + 1]
          /\ UNCHANGED mempool
    /\ UNCHANGED <<store, net, world, fund>>

Tick ==
    /\ now < MaxTime
    /\ now' = now + 1
    /\ UNCHANGED <<store, net, maturity, attested, chain>>

Attest(i) ==
    /\ attested[i] = None /\ maturity[i] <= now
    /\ \E v \in Outcomes \cup Uncovered : attested' = [attested EXCEPT ![i] = v]
    /\ UNCHANGED <<store, net, maturity, now, chain>>
-----------------------------------------------------------------------------
(***************************************************************************)
(* Closing.                                                                *)
(***************************************************************************)
check_signed_contract(p) ==
    /\ In(p, {"Signed"})
    /\ fund # None /\ fund >= NbConfirmations
    /\ Advance(p, "Confirmed", None)
    /\ UNCHANGED <<net, world, chain>>

Matured == {i \in Oracles : maturity[i] <= now}

\* The index enumerate gives an oracle: its place among the ones that matured.
IndexAmong(i, S) == Cardinality({j \in S : j <= i})

\* get_closable_contract_info: the attestations, when the oracles in reached answer.
\* The empty set is None.
get_closable_contract_info(reached) ==
    LET answers == {i \in Matured \cap reached : attested[i] # None}
    IN  IF Cardinality(Matured) >= Threshold /\ Cardinality(answers) >= Threshold
        THEN answers ELSE {}

\* The threshold members of a group with the lowest indexes.
FirstOf(group) == {i \in group : IndexAmong(i, group) <= Threshold}

\* Mutant: the largest group of attestations is enough, whatever its size.
get_signed_cet_plurality(answers, index) ==
    {[tx |-> v, valid |-> TRUE] :
        v \in {u \in Outcomes : \E i \in answers : attested[i] = u}}

\* get_signed_cet: a majority of the attestations selects the CET (a tie is broken by
\* a hash map), the indexes select the signature to decrypt. It is the right one when
\* the indexes are those of the announcements. Empty is Err.
get_signed_cet(answers, index) ==
    LET Group(v) == {i \in answers : attested[i] = v}
        largest  == {v \in {attested[i] : i \in answers} :
                        \A u \in {attested[i] : i \in answers} :
                            Cardinality(Group(u)) <= Cardinality(Group(v))}
    IN  {[tx |-> v, valid |-> \A i \in FirstOf(Group(v)) : index[i] = i] :
            v \in {u \in largest \cap Outcomes : Cardinality(Group(u)) >= Threshold}}

\* Mutant: the CET's confirmations are not looked at.
close_contract_unseen(p, cet) ==
    /\ cet.valid
    /\ send_transaction(p, cet.tx)
    /\ Advance(p, "PreClosed", cet.tx)

\* close_contract and the update of its callers.
close_contract(p, cet) ==
    \/ /\ Confirmations(cet.tx) < 1
       /\ cet.valid
       /\ send_transaction(p, cet.tx)
       /\ Advance(p, "PreClosed", cet.tx)
    \/ /\ Confirmations(cet.tx) \in 1 .. (NbConfirmations - 1)
       /\ Advance(p, "PreClosed", cet.tx)
       /\ UNCHANGED chain
    \/ /\ Confirmations(cet.tx) >= NbConfirmations
       /\ Advance(p, "Closed", cet.tx)
       /\ UNCHANGED chain

check_refund(p) ==
    /\ RefundLocktime <= now
    /\ \/ Confirmations(Refund) = 0 /\ send_transaction(p, Refund)
       \/ Confirmations(Refund) > 0 /\ UNCHANGED chain
    /\ Advance(p, "Refunded", None)

\* Enough attestations end the check, in an error too: the refund is looked at only
\* when there are not enough. The oracles in reached answer.
check_confirmed_contract(p, reached) ==
    /\ In(p, {"Confirmed"})
    /\ LET answers == get_closable_contract_info(reached)
           index == [i \in Matured |-> IndexAmong(i, Matured)]
       IN  \/ answers # {} /\ \E cet \in get_signed_cet(answers, index) : close_contract(p, cet)
           \/ answers = {} /\ check_refund(p)
    /\ UNCHANGED <<net, world>>

\* The user hands over attestations with the indexes of their announcements.
close_confirmed_contract(p) ==
    /\ In(p, {"Confirmed"})
    /\ \E answers \in SUBSET {i \in Oracles : attested[i] # None} :
        /\ Cardinality(answers) >= Threshold
        /\ \E cet \in get_signed_cet(answers, [i \in Oracles |-> i]) : close_contract(p, cet)
    /\ UNCHANGED <<net, world>>

\* The process ends after send_transaction and before the store is updated.
CrashAfterSend(p) ==
    /\ Crashes /\ In(p, {"Confirmed"})
    /\ \E tx \in Txs :
        /\ tx = Refund \/ Cardinality({i \in Oracles : attested[i] = tx}) >= Threshold
        /\ send_transaction(p, tx)
    /\ UNCHANGED <<store, net, world>>

\* Mutant: one confirmation is enough.
check_preclosed_contract_early(p) ==
    /\ In(p, {"PreClosed"})
    /\ Confirmations(get_contract(p).cet) >= 1
    /\ Advance(p, "Closed", get_contract(p).cet)
    /\ UNCHANGED <<net, world, chain>>

check_preclosed_contract(p) ==
    /\ In(p, {"PreClosed"})
    /\ Confirmations(get_contract(p).cet) >= NbConfirmations
    /\ Advance(p, "Closed", get_contract(p).cet)
    /\ UNCHANGED <<net, world, chain>>

\* Mutant: the refund is not told apart from the CETs.
on_counterparty_close_blind(p) ==
    /\ In(p, {"Confirmed", "PreClosed"})
    /\ \E tx \in Txs :
        /\ (spend # None /\ spend.tx = tx) \/ mempool[p] = tx
        /\ IF Confirmations(tx) < NbConfirmations THEN Advance(p, "PreClosed", tx)
                                                 ELSE Advance(p, "Closed", tx)
    /\ UNCHANGED <<net, world, chain>>

\* The user saw a transaction that spends the fund output, in a block or unconfirmed.
on_counterparty_close(p) ==
    /\ In(p, {"Confirmed", "PreClosed"})
    /\ \E tx \in Txs :
        /\ (spend # None /\ spend.tx = tx) \/ mempool[p] = tx
        /\ CASE tx = Refund -> Advance(p, "Refunded", None)
             [] tx # Refund /\ Confirmations(tx) < NbConfirmations ->
                  Advance(p, "PreClosed", tx)
             [] OTHER -> Advance(p, "Closed", tx)
    /\ UNCHANGED <<net, world, chain>>
-----------------------------------------------------------------------------
Negotiate == send_offer \/ on_offer_message \/ accept_contract_offer
             \/ on_accept_message \/ on_sign_message
Environment == FundTransaction \/ FundBlock \/ SpendBlock \/ Tick
               \/ \E p \in Nodes : Relay(p)
               \/ \E i \in Oracles : Attest(i)
\* periodic_check calls the three checks one after the other; an error of one does
\* not keep the next from running.
periodic_check(p) == check_signed_contract(p) \/ check_preclosed_contract(p)
                     \/ \E reached \in SUBSET Oracles : check_confirmed_contract(p, reached)
User(p) == close_confirmed_contract(p) \/ on_counterparty_close(p) \/ CrashAfterSend(p)

Next == Negotiate \/ Environment \/ \E p \in Nodes : periodic_check(p) \/ User(p)

Spec == Init /\ [][Next]_vars

\* Blocks are found and time goes on; each node calls periodic_check again and again, and
\* not always while an oracle is out of reach.
Fairness ==
    /\ WF_vars(Tick) /\ WF_vars(FundBlock) /\ WF_vars(SpendBlock)
    /\ \A p \in Nodes : /\ WF_vars(check_signed_contract(p))
                        /\ WF_vars(check_confirmed_contract(p, Oracles))
                        /\ WF_vars(check_preclosed_contract(p))

FairSpec == Spec /\ Fairness

\* Only the offerer goes on for sure.
AloneSpec ==
    /\ Spec
    /\ WF_vars(Tick) /\ WF_vars(FundBlock) /\ WF_vars(SpendBlock)
    /\ WF_vars(check_signed_contract(Offerer))
    /\ WF_vars(check_confirmed_contract(Offerer, Oracles))
    /\ WF_vars(check_preclosed_contract(Offerer))
-----------------------------------------------------------------------------
\* The type of the stores, the messages, the chain and the oracles.
TypeOK ==
    /\ store \in [Nodes -> [Ids -> [state : ContractStates, cet : Outcomes \cup {None},
                                   sigs : SUBSET Signatures]]]
    /\ net \in [Nodes -> Messages \cup {None}]
    /\ maturity \in Maturities /\ now \in 0 .. MaxTime
    /\ attested \in [Oracles -> Outcomes \cup Uncovered \cup {None}]
    /\ fund \in 0 .. NbConfirmations \cup {None}
    /\ mempool \in [Nodes -> Txs \cup {None}]
    /\ spend \in [tx : Txs, confs : 1 .. NbConfirmations] \cup {None}

\* Nobody's coins are locked before both nodes hold what they need to get them out again:
\* once the fund transaction is on its way both have stored the other's signatures of the
\* refund and of every CET.
FundedTogether == fund # None => \A p \in Nodes : get_contract(p).sigs = Signatures

\* A contract changes its id when it is accepted: a node never has it under both, where a
\* second acceptance of the offer would still find it.
OneRecordPerContract ==
    \A p \in Nodes : Cardinality({id \in Ids : store[p][id] # NoContract}) <= 1

\* A CET gets into a mempool or a block only when threshold oracles attested its outcome, and
\* a refund only when its lock time has passed.
SpendIsEarned ==
    \A tx \in {mempool[p] : p \in Nodes} \cup (IF spend = None THEN {} ELSE {spend.tx}) :
        CASE tx = Refund -> RefundLocktime <= now
          [] tx \in Outcomes -> Cardinality({i \in Oracles : attested[i] = tx}) >= Threshold
          [] OTHER -> TRUE

\* The detailed contract implements ContractOutcome: the chain decides when a spending
\* transaction has NB_CONFIRMATIONS, a node's record ends when its contract is Closed or
\* Refunded.
O == INSTANCE ContractOutcome WITH
        Cets <- Outcomes,
        outcome <- IF spend # None /\ spend.confs >= NbConfirmations THEN spend.tx ELSE None,
        due <- RefundLocktime <= now,
        record <- [p \in Nodes |-> CASE In(p, {"Closed"}) -> get_contract(p).cet
                                     [] In(p, {"Refunded"}) -> Refund
                                     [] OTHER -> None]

ImplementsOutcome == O!OutcomeSpec

\* What was mined is not what the node waits for or would send: another CET than its
\* PreClosed contract names, or, while it is Confirmed, another transaction than the CET
\* that the oracles' attestations select, whose sending then fails at each check.  A mined
\* CET that the attestations select, or a mined refund before they do, is no lost race.
LostRace(p) ==
    /\ spend # None
    /\ \/ In(p, {"PreClosed"}) /\ spend.tx # get_contract(p).cet
       \/ LET answers == get_closable_contract_info(Oracles)
          IN  /\ In(p, {"Confirmed"}) /\ answers # {}
              /\ \A cet \in get_signed_cet(answers, [i \in Oracles |-> i]) : cet.tx # spend.tx

\* Threshold oracles attested, and no outcome has threshold attestations.
Disagreement ==
    /\ Cardinality({i \in Oracles : attested[i] # None}) >= Threshold
    /\ \A v \in Outcomes : Cardinality({i \in Oracles : attested[i] = v}) < Threshold

\* A confirmed contract does not stay so for ever: the node ends it as closed or refunded,
\* also after a crash between sending a transaction and storing it, unless a transaction that
\* conflicts with its own was mined (which close_contract leaves open), or the oracles
\* disagree (which keeps check_confirmed_contract from the refund).
ConfirmedEnds ==
    \A p \in Nodes : In(p, {"Confirmed"})
                       ~> (In(p, {"Closed", "Refunded"}) \/ LostRace(p) \/ Disagreement)

\* What the comment on sign_multi_sig_input says (the signatures are in the order of the
\* keys) is for: the offerer can close or refund without the other node.
OffererEndsAlone ==
    In(Offerer, {"Confirmed"}) ~> (~In(Offerer, {"Confirmed"}) \/ spend # None \/ Disagreement)

=============================================================================
