----------------------------- MODULE DlcChannel -----------------------------
(***************************************************************************)
(* A DLC channel between two nodes: setting it up, settling its contract,  *)
(* renewing it, closing it together or alone, and watching the chain for   *)
(* what the other party publishes.                                         *)
(*                                                                         *)
(* The two nodes run the same Manager.  Every update k of the channel has  *)
(* one transaction that spends the fund output (a buffer transaction for   *)
(* an established contract, a settle transaction for a settled channel)    *)
(* and one per-update secret per party; a party revokes update k by        *)
(* revealing its secret k.  update_idx counts down from 2^48 - 1 in the    *)
(* code and up from 0 here.  A per-update point is named by its update.    *)
(*                                                                         *)
(* A handler or API call that returns Err leaves the stored channel as it  *)
(* was: for a call that is no step, for a message it is Ignore.  A failed  *)
(* .expect() ends the process: the channel's status names the .expect().   *)
(*                                                                         *)
(* The Bitcoin chain is external: the first transaction sent that spends   *)
(* the fund output is mined, a conflicting one is refused.  The fund       *)
(* transaction is sent without the signatures of its inputs, and its       *)
(* amounts fail an assertion (see Funding): whether the chain takes it is  *)
(* left open, so that the channel can be seen at work.                     *)
(***************************************************************************)
EXTENDS Integers, Sequences, FiniteSets

CONSTANTS
    Parties, Offerer,  \* the two nodes, and the one that offered the channel
    None,              \* Option::None
    Environments       \* what users and network may do: one of these holds for a behaviour

Pending == {"SettledOffered", "SettledReceived", "SettledAccepted", "SettledConfirmed",
            "RenewOffered", "RenewAccepted", "RenewConfirmed", "CollaborativeCloseOffered"}
Stable == {"Established", "Settled"}
StateTypes == Stable \cup Pending \cup {"RenewFinalized", "Closing"}

ASSUME PartiesAssumption == /\ Offerer \in Parties
                            /\ \E other \in Parties : Parties = {Offerer, other} /\ other # Offerer
\* Who proposes to settle or renew, whether only once the first contract is Confirmed at both nodes,
\* from which states a user offers to close together, who force closes, whether a user accepts
\* its own node's offer, whether messages are read by read_dlc_message or handed over in process,
\* whether they may be lost, whether PEER_TIMEOUT may expire before an answer is handled, whether
\* a node may restart, and end inside a handler, whether the signatures of the setup may fail to
\* verify and its fund transaction be refused, and a bound on the updates.
ASSUME EnvironmentsAssumption ==
    Environments \subseteq [proposers : SUBSET Parties, patient : BOOLEAN, closeFrom : SUBSET StateTypes,
                            closers : SUBSET Parties, acceptsOwn : BOOLEAN, overWire : BOOLEAN,
                            lossy : BOOLEAN, unresponsive : BOOLEAN, restarts : BOOLEAN,
                            crashes : BOOLEAN, forged : BOOLEAN, refused : BOOLEAN, maxUpdates : Nat]

VARIABLES
    channel,   \* store: each node's SignedChannel, and what became of it
    confirmed, \* store: the nodes whose first contract is Confirmed, no longer Signed
    watch,     \* each node's ChainMonitor: watched_tx and watched_txo
    saved,     \* store: the ChainMonitor that each node persisted last
    net,       \* messages on their way to a node, in order
    funded,    \* Bitcoin: whether it has the fund transaction
    spend,     \* Bitcoin: the transaction that spends the fund output, and its sender
    output,    \* Bitcoin: what spends the output of that transaction
    env        \* the environment of this behaviour

vars == <<channel, confirmed, watch, saved, net, funded, spend, output, env>>

Other(p) == CHOOSE q \in Parties : q # p

\* A transaction that spends the fund output: the update it belongs to and the
\* party that plays the offer role in it.  A closing transaction belongs to no update.
Txs == [type : {"buffer", "settle"}, idx : Nat, offer : Parties]
           \cup [type : {"close"}, idx : {0}, offer : Parties]
BufferTx(k, p) == [type |-> "buffer", idx |-> k, offer |-> p]
SettleTx(k, p) == [type |-> "settle", idx |-> k, offer |-> p]
CloseTx(p) == [type |-> "close", idx |-> 0, offer |-> p]

\* SignedChannelState: `flag` is is_offer, or is_initiator when Closing.  An offer to
\* close has no such field: there it tells whose signature offer_signature is.
State(type, tx, flag) == [type |-> type, tx |-> tx, flag |-> flag, contract |-> None]
States == [type : StateTypes, tx : Txs \cup {None}, flag : BOOLEAN, contract : Nat \cup {None}]

\* An Option that is None is not Some of anything.
ASSUME NoneAssumption == /\ None \notin Parties /\ None \notin Nat /\ None \notin Txs /\ None \notin States
                        /\ None \notin [tx : Txs, by : Parties]

\* SignedChannel.  `revealed` is history: the own secrets that were sent.
Channels == [status : {"Signed"}, state : States, roll_back : States \cup {None},
             update_idx : Nat, own_point : Nat, counter_point : Nat,
             secrets : SUBSET Nat, revealed : SUBSET Nat]
\* The other variants of Channel: before there is a SignedChannel, and after it.
Setup == {"None", "Offered", "Accepted", "FailedAccept", "FailedSign", "Cancelled"}
Gone == {"Closed", "CounterClosed", "CollaborativelyClosed", "ClosedPunished",
         "NoRollback", "NoContractId", "NoSecret"}

\* The watch of a transaction, or of the output of a buffer transaction (Cet).
Watches == [tx : Txs, type : {"BufferTx", "SettleTx", "CollaborativeClose", "Cet", "Revoked"},
            idx : Nat, is_offer : BOOLEAN]

\* A message and the update whose point or secret it carries.
MessageTypes == {"OfferChannel", "AcceptChannel", "SignChannel", "SettleOffer", "SettleAccept", "SettleConfirm", "SettleFinalize",
                 "RenewOffer", "RenewAccept", "RenewConfirm", "RenewFinalize", "RenewRevoke",
                 "CollaborativeCloseOffer", "Reject"}
Messages == [type : MessageTypes, idx : Nat]

\* read_dlc_message has no case for RenewRevoke.
Readable == IF env.overWire THEN MessageTypes \ {"RenewRevoke"} ELSE MessageTypes
-----------------------------------------------------------------------------
Open(p) == channel[p].status = "Signed"
In(p, types) == Open(p) /\ channel[p].state.type \in types
RolledBackIn(p, types) == channel[p].roll_back # None /\ channel[p].roll_back.type \in types

\* Contracts are named by the update that established them, and the
\* contract under establishment by the next one.
get_contract_id(c) ==
    CASE c.state.type \in {"Established", "RenewFinalized"} -> c.state.tx.idx
      [] c.state.type \in {"RenewOffered", "RenewAccepted", "RenewConfirmed"} -> c.update_idx + 1
      [] c.state.type = "Closing" -> c.state.contract
      [] OTHER -> None

\* The contract of update k in state Confirmed.  The first one is stored as Signed, that
\* of a renewal as Confirmed.
ContractConfirmed(p, k) == k = 0 => p \in confirmed
\* It ends the contract of the state to return to, and is an Err unless that is Confirmed.
get_collaboratively_closed_contract(p) ==
    RolledBackIn(p, {"Established"}) => ContractConfirmed(p, channel[p].roll_back.tx.idx)

\* Replaces the entry of the same transaction; watching a buffer transaction
\* also watches its output.
add_tx(w, tx, type, idx, is_offer) ==
    {e \in w : e.tx # tx \/ e.type = "Cet"}
        \cup {[tx |-> tx, type |-> type, idx |-> idx, is_offer |-> is_offer]}
        \cup (IF type = "BufferTx" THEN {[tx |-> tx, type |-> "Cet", idx |-> 0, is_offer |-> FALSE]} ELSE {})
AddRevoked(w, tx, idx, is_offer) == add_tx(w, tx, "Revoked", idx, is_offer)
\* Mutant: the transaction stays watched.
keep_tx(w, tx) == w
remove_tx(w, tx) == {e \in w : e.tx # tx \/ e.type = "Cet"}

Send(p, type, idx) == net' = [net EXCEPT ![Other(p)] = Append(@, [type |-> type, idx |-> idx])]
Reply(p, type, idx) == net' = [net EXCEPT ![p] = Tail(@),
                                          ![Other(p)] = Append(@, [type |-> type, idx |-> idx])]
Consume(p) == net' = [net EXCEPT ![p] = Tail(@)]

\* A conflicting transaction is refused, a known one is not.
send_transaction(p, tx) ==
    /\ funded
    /\ \/ spend = None /\ spend' = [tx |-> tx, by |-> p]
       \/ spend # None /\ spend.tx = tx /\ UNCHANGED spend

\* upsert_channel
Store(p, c) == channel' = [channel EXCEPT ![p] = c]
Become(p, status) == channel' = [channel EXCEPT ![p] = [status |-> status]]
\* The monitor in memory, and persist_chain_monitor.
WatchFrom(p, w) == watch' = [watch EXCEPT ![p] = w]
Persist(p) == saved' = [saved EXCEPT ![p] = watch'[p]]
cleanup_channel(p) == WatchFrom(p, {})

\* The step into a proposal keeps the state to return to.
Propose(c, state) == [c EXCEPT !.state = state, !.roll_back = c.state]
\* roll_back_state.take()
RollBack(c) == [c EXCEPT !.state = c.roll_back, !.roll_back = None]
\* Mutant: the count goes the wrong way.
AdvanceBackwards(c, state) ==
    [c EXCEPT !.state = state, !.secrets = @ \cup {c.update_idx}, !.update_idx = @ - 1,
              !.own_point = c.update_idx + 1, !.counter_point = c.update_idx + 1]
\* Update update_idx is superseded: the counter party's secret is stored.
Advance(c, state) ==
    [c EXCEPT !.state = state, !.secrets = @ \cup {c.update_idx}, !.update_idx = @ + 1,
              !.own_point = c.update_idx + 1, !.counter_point = c.update_idx + 1]
Reveal(c) == [c EXCEPT !.revealed = @ \cup {c.update_idx}]
NextIdx(p) == channel[p].update_idx + 1
-----------------------------------------------------------------------------
\* channel_updater: what becomes of the channel.
SignedChannel(is_offer) ==
    [status |-> "Signed", state |-> State("Established", BufferTx(0, Offerer), is_offer),
     roll_back |-> None, update_idx |-> 0, own_point |-> 0, counter_point |-> 0,
     secrets |-> {}, revealed |-> {}]
verify_and_sign_accepted_channel == SignedChannel(TRUE)
verify_signed_channel == SignedChannel(FALSE)

settle_channel_offer(c) == Propose(c, State("SettledOffered", None, TRUE))
updater_on_settle_offer(c) == Propose(c, State("SettledReceived", None, FALSE))
settle_channel_accept(c, tx) == [c EXCEPT !.state = State("SettledAccepted", tx, FALSE)]
settle_channel_confirm(c, tx) == Reveal([c EXCEPT !.state = State("SettledConfirmed", tx, TRUE)])
settle_channel_on_finalize(c) == [Advance(c, State("Settled", c.state.tx, FALSE)) EXCEPT !.roll_back = None]
settle_channel_finalize(c) == settle_channel_on_finalize(Reveal(c))

updater_renew_offer(c) == Propose(c, State("RenewOffered", None, TRUE))
updater_on_renew_offer(c) == Propose(c, State("RenewOffered", None, FALSE))
\* Whether the contract is the node's own offer is kept in the flag.
accept_channel_renewal(c, tx) == [c EXCEPT !.state = State("RenewAccepted", tx, c.state.flag)]
\* Mutant: the secret goes out with the confirmation.
verify_renew_accept_and_reveal(c, tx) == Reveal([c EXCEPT !.state = State("RenewConfirmed", tx, TRUE)])
verify_renew_accept_and_confirm(c, tx) == [c EXCEPT !.state = State("RenewConfirmed", tx, TRUE)]
verify_renew_confirm_and_finalize(c) ==
    Reveal([c EXCEPT !.state = State("RenewFinalized", c.state.tx, FALSE),
                     !.own_point = c.update_idx + 1, !.counter_point = c.update_idx + 1])
renew_channel_on_finalize(c) ==
    [Advance(Reveal(c), State("Established", c.state.tx, TRUE)) EXCEPT !.roll_back = None]
\* Mutant: the update is not counted.
renew_channel_uncounted(c) ==
    [c EXCEPT !.state = State("Established", c.state.tx, TRUE), !.secrets = @ \cup {c.update_idx}]
\* roll_back_state is left as it was.
renew_channel_on_revoke(c) == Advance(c, State("Established", c.state.tx, TRUE))

updater_offer_collaborative_close(c, p) == Propose(c, State("CollaborativeCloseOffered", CloseTx(p), TRUE))
updater_on_collaborative_close_offer(c, p) == Propose(c, State("CollaborativeCloseOffered", CloseTx(p), FALSE))
initiate_unilateral_close(c) ==
    [c EXCEPT !.state = [type |-> "Closing", tx |-> c.state.tx, flag |-> TRUE, contract |-> get_contract_id(c)]]
-----------------------------------------------------------------------------
\* The calls a user makes.  A patient one proposes an update once both contracts are Confirmed.
MayPropose(p) ==
    p \in env.proposers /\ (env.patient => confirmed = Parties) /\ channel[p].update_idx < env.maxUpdates

\* A message of the setup that passes its validation and verification carries 0.
Validity == IF env.forged THEN {0, 1} ELSE {0}

offer_channel(p) ==
    /\ p = Offerer /\ channel[p].status = "None"
    /\ Become(p, "Offered")
    /\ \E valid \in Validity : Send(p, "OfferChannel", valid)
    /\ UNCHANGED <<watch, saved, funded, spend, output>>

accept_channel(p) ==
    /\ p # Offerer /\ channel[p].status = "Offered"
    /\ Become(p, "Accepted")
    /\ \E valid \in Validity : Send(p, "AcceptChannel", valid)
    /\ UNCHANGED <<watch, saved, funded, spend, output>>

reject_channel(p) ==
    /\ p # Offerer /\ channel[p].status = "Offered"
    /\ Become(p, "Cancelled")
    /\ Send(p, "Reject", 0)
    /\ UNCHANGED <<watch, saved, funded, spend, output>>

settle_offer(p) ==
    /\ In(p, {"Established"}) /\ MayPropose(p)
    /\ Store(p, settle_channel_offer(channel[p]))
    /\ Send(p, "SettleOffer", NextIdx(p))
    /\ UNCHANGED <<watch, saved, funded, spend, output>>

accept_settle_offer(p) ==
    /\ In(p, {"SettledReceived"})
    /\ LET tx == SettleTx(NextIdx(p), Other(p)) IN
       /\ Store(p, settle_channel_accept(channel[p], tx))
       /\ WatchFrom(p, add_tx(watch[p], tx, "SettleTx", 0, FALSE))
    /\ Send(p, "SettleAccept", NextIdx(p))
    /\ UNCHANGED <<saved, funded, spend, output>>

reject_settle_offer(p) ==
    /\ In(p, {"SettledReceived"})
    /\ Store(p, RollBack(channel[p]))
    /\ Send(p, "Reject", 0)
    /\ UNCHANGED <<watch, saved, funded, spend, output>>

renew_offer(p) ==
    /\ In(p, Stable) /\ MayPropose(p)
    /\ Store(p, updater_renew_offer(channel[p]))
    /\ Send(p, "RenewOffer", NextIdx(p))
    /\ UNCHANGED <<watch, saved, funded, spend, output>>

\* The call does not ask who made the offer: a node can accept its own.
accept_renew_offer(p) ==
    /\ In(p, {"RenewOffered"}) /\ (channel[p].state.flag => env.acceptsOwn)
    /\ Store(p, accept_channel_renewal(channel[p], BufferTx(NextIdx(p), Other(p))))
    /\ Send(p, "RenewAccept", NextIdx(p))
    /\ UNCHANGED <<watch, saved, funded, spend, output>>

reject_renew_offer(p) ==
    /\ In(p, {"RenewOffered"}) /\ ~channel[p].state.flag
    /\ Store(p, RollBack(channel[p]))
    /\ Send(p, "Reject", 0)
    /\ UNCHANGED <<watch, saved, funded, spend, output>>

offer_collaborative_close(p) ==
    /\ In(p, env.closeFrom)
    /\ Store(p, updater_offer_collaborative_close(channel[p], p))
    /\ WatchFrom(p, add_tx(watch[p], CloseTx(p), "CollaborativeClose", 0, FALSE)) /\ Persist(p)
    /\ Send(p, "CollaborativeCloseOffer", 0)
    /\ UNCHANGED <<funded, spend, output>>

\* Only with the other party's signature is the transaction valid.
AcceptsClose(p) ==
    /\ In(p, {"CollaborativeCloseOffered"}) /\ ~channel[p].state.flag
    /\ get_collaboratively_closed_contract(p)
    /\ spend = None
    /\ spend' = [tx |-> channel[p].state.tx, by |-> p]
accept_collaborative_close(p) ==
    /\ AcceptsClose(p)
    /\ Become(p, "CollaborativelyClosed")
    /\ UNCHANGED <<watch, saved, net, funded, output>>
-----------------------------------------------------------------------------
\* The handlers.  Awaits(p, m): the channel is in a state for m, and what m carries verifies.
Awaits(p, m) ==
    LET c == channel[p] IN
    m.type \in Readable /\
    CASE m.type = "OfferChannel" -> c.status = "None" /\ m.idx = 0
      [] m.type = "AcceptChannel" -> c.status = "Offered"
      [] m.type = "SignChannel" -> c.status = "Accepted"
      [] m.type = "SettleOffer" -> In(p, {"SettledOffered", "Established"})
      [] m.type = "SettleAccept" -> In(p, {"SettledOffered"}) /\ m.idx = NextIdx(p)
      [] m.type = "SettleConfirm" -> /\ In(p, {"SettledAccepted"}) /\ RolledBackIn(p, {"Established"})
                                     /\ m.idx = c.counter_point
      [] m.type = "SettleFinalize" -> /\ In(p, {"SettledConfirmed"}) /\ RolledBackIn(p, {"Established"})
                                      /\ m.idx = c.counter_point
      [] m.type = "RenewOffer" -> In(p, Stable) \/ (In(p, {"RenewOffered"}) /\ c.state.flag)
      [] m.type = "RenewAccept" -> In(p, {"RenewOffered"}) /\ m.idx = NextIdx(p)
      [] m.type = "RenewConfirm" -> /\ In(p, {"RenewAccepted"}) /\ RolledBackIn(p, Stable)
                                    /\ ~c.state.flag
      [] m.type = "RenewFinalize" -> /\ In(p, {"RenewConfirmed"}) /\ RolledBackIn(p, Stable)
                                     /\ m.idx = c.counter_point
      [] m.type = "RenewRevoke" -> In(p, {"RenewFinalized"}) /\ m.idx = c.update_idx
      [] m.type = "CollaborativeCloseOffer" -> Open(p) /\ c.roll_back = None
      [] m.type = "Reject" -> c.status = "Offered" \/ In(p, {"SettledOffered"}) \/ (In(p, {"RenewOffered"}) /\ c.state.flag)

Superseding == {"SettleConfirm", "SettleFinalize", "RenewConfirm", "RenewFinalize"}
\* What m needs to be handled without an Err.
Expects(p, m) ==
    Awaits(p, m) /\ (m.type \in Superseding => get_collaboratively_closed_contract(p))

Receive(p, type) == net[p] # <<>> /\ Head(net[p]).type = type /\ Expects(p, Head(net[p]))

on_offer_channel(p) ==
    /\ Receive(p, "OfferChannel")
    /\ Become(p, "Offered")
    /\ Consume(p)
    /\ UNCHANGED <<watch, saved, funded, spend, output>>

WatchFirstBuffer(p) == WatchFrom(p, add_tx(watch[p], BufferTx(0, Offerer), "BufferTx", 0, FALSE))

\* Mutant: the answer leaves and the channel stays offered.
on_accept_channel_unstored(p) ==
    /\ Receive(p, "AcceptChannel")
    /\ Reply(p, "SignChannel", 0)
    /\ WatchFirstBuffer(p) /\ Persist(p)
    /\ UNCHANGED <<channel, funded, spend, output>>

on_accept_channel(p) ==
    /\ Receive(p, "AcceptChannel")
    /\ \/ /\ Head(net[p]).idx = 0
          /\ Store(p, verify_and_sign_accepted_channel)
          /\ WatchFirstBuffer(p) /\ Persist(p)
          /\ \E valid \in Validity : Reply(p, "SignChannel", valid)
       \/ /\ Head(net[p]).idx # 0
          /\ Become(p, "FailedAccept")
          /\ Consume(p)
          /\ UNCHANGED <<watch, saved>>
    /\ UNCHANGED <<funded, spend, output>>

\* When the fund transaction is refused the handler ends, with the watch added.
on_sign_channel(p) ==
    /\ Receive(p, "SignChannel")
    /\ \/ /\ Head(net[p]).idx = 0
          /\ WatchFirstBuffer(p)
          /\ \/ funded' = TRUE /\ Store(p, verify_signed_channel) /\ Persist(p)
             \/ env.refused /\ UNCHANGED <<funded, channel, saved>>
       \/ /\ Head(net[p]).idx # 0
          /\ Become(p, "FailedSign")
          /\ UNCHANGED <<funded, watch, saved>>
    /\ Consume(p)
    /\ UNCHANGED <<spend, output>>

\* Two settle offers that cross reject each other.
on_settle_offer(p) ==
    /\ Receive(p, "SettleOffer")
    /\ \/ /\ In(p, {"SettledOffered"})
          /\ Reply(p, "Reject", 0)
          /\ UNCHANGED channel
       \/ /\ In(p, {"Established"})
          /\ Store(p, updater_on_settle_offer(channel[p]))
          /\ Consume(p)
    /\ UNCHANGED <<watch, saved, funded, spend, output>>

on_settle_accept(p) ==
    /\ Receive(p, "SettleAccept")
    /\ LET tx == SettleTx(NextIdx(p), p) IN
       /\ Store(p, settle_channel_confirm(channel[p], tx))
       /\ WatchFrom(p, add_tx(watch[p], tx, "SettleTx", 0, FALSE))
    /\ Reply(p, "SettleConfirm", channel[p].update_idx)
    /\ UNCHANGED <<saved, funded, spend, output>>

\* Mutant: the index of the next update is stored.
RevokeNextUpdate(p) ==
    AddRevoked(watch[p], channel[p].roll_back.tx, NextIdx(p), channel[p].roll_back.flag)
\* The buffer transaction of the settled contract is a revoked one from now on.
RevokeEstablished(p) ==
    AddRevoked(watch[p], channel[p].roll_back.tx, channel[p].update_idx, channel[p].roll_back.flag)

\* A settlement whose contract is not Confirmed: the Err comes after the watch has changed.
UnconfirmedSettlement(p) ==
    /\ net[p] # <<>> /\ Head(net[p]).type \in {"SettleConfirm", "SettleFinalize"}
    /\ Awaits(p, Head(net[p])) /\ ~get_collaboratively_closed_contract(p)
fail_settlement(p) ==
    /\ UnconfirmedSettlement(p)
    /\ WatchFrom(p, RevokeEstablished(p))
    /\ Consume(p)
    /\ UNCHANGED <<channel, saved, funded, spend, output>>

\* A message that cannot be read, another Err, or a Reject that finds the channel in a stable state.
Ignore(p) ==
    /\ net[p] # <<>> /\ ~Expects(p, Head(net[p])) /\ ~UnconfirmedSettlement(p)
    /\ Consume(p)
    /\ UNCHANGED <<channel, watch, saved, funded, spend, output>>

on_settle_confirm(p) ==
    /\ Receive(p, "SettleConfirm")
    /\ Store(p, settle_channel_finalize(channel[p]))
    /\ WatchFrom(p, RevokeEstablished(p)) /\ Persist(p)
    /\ Reply(p, "SettleFinalize", channel[p].update_idx)
    /\ UNCHANGED <<funded, spend, output>>

on_settle_finalize(p) ==
    /\ Receive(p, "SettleFinalize")
    /\ Store(p, settle_channel_on_finalize(channel[p]))
    /\ WatchFrom(p, RevokeEstablished(p)) /\ Persist(p)
    /\ Consume(p)
    /\ UNCHANGED <<funded, spend, output>>

\* Two renew offers that cross reject each other.
on_renew_offer(p) ==
    /\ Receive(p, "RenewOffer")
    /\ \/ /\ In(p, {"RenewOffered"})
          /\ Reply(p, "Reject", 0)
          /\ UNCHANGED channel
       \/ /\ In(p, Stable)
          /\ Store(p, updater_on_renew_offer(channel[p]))
          /\ Consume(p)
    /\ UNCHANGED <<watch, saved, funded, spend, output>>

on_renew_accept(p) ==
    /\ Receive(p, "RenewAccept")
    /\ Store(p, verify_renew_accept_and_confirm(channel[p], BufferTx(NextIdx(p), p)))
    /\ Reply(p, "RenewConfirm", NextIdx(p))
    /\ UNCHANGED <<watch, saved, funded, spend, output>>

\* The previous transaction becomes a revoked one and the new one is watched.
Supersede(p) ==
    LET c == channel[p] IN
    AddRevoked(add_tx(watch[p], c.state.tx, "BufferTx", 0, FALSE), c.roll_back.tx, c.update_idx, FALSE)

on_renew_confirm(p) ==
    /\ Receive(p, "RenewConfirm")
    /\ Store(p, verify_renew_confirm_and_finalize(channel[p]))
    /\ WatchFrom(p, Supersede(p)) /\ Persist(p)
    /\ Reply(p, "RenewFinalize", channel[p].update_idx)
    /\ UNCHANGED <<funded, spend, output>>

\* Mutant: nothing is sent back.
finish_renewal_silently(p) ==
    /\ Receive(p, "RenewFinalize")
    /\ Store(p, renew_channel_on_finalize(channel[p]))
    /\ WatchFrom(p, Supersede(p)) /\ Persist(p)
    /\ Consume(p)
    /\ UNCHANGED <<funded, spend, output>>

on_renew_finalize(p) ==
    /\ Receive(p, "RenewFinalize")
    /\ Store(p, renew_channel_on_finalize(channel[p]))
    /\ WatchFrom(p, Supersede(p)) /\ Persist(p)
    /\ Reply(p, "RenewRevoke", channel[p].update_idx)
    /\ UNCHANGED <<funded, spend, output>>

on_renew_revoke(p) ==
    /\ Receive(p, "RenewRevoke")
    /\ Store(p, renew_channel_on_revoke(channel[p]))
    /\ Consume(p)
    /\ UNCHANGED <<watch, saved, funded, spend, output>>

on_collaborative_close_offer(p) ==
    /\ Receive(p, "CollaborativeCloseOffer")
    /\ Store(p, updater_on_collaborative_close_offer(channel[p], Other(p)))
    /\ Consume(p)
    /\ UNCHANGED <<watch, saved, funded, spend, output>>

on_reject(p) ==
    /\ Receive(p, "Reject")
    /\ \/ channel[p].status = "Offered" /\ Become(p, "Cancelled")
       \/ Open(p) /\ Store(p, RollBack(channel[p]))
    /\ Consume(p)
    /\ UNCHANGED <<watch, saved, funded, spend, output>>
-----------------------------------------------------------------------------
\* Closing alone.  A pending state is rolled back once; the state found then must be
\* one that can be closed.
ToClose(p) == IF channel[p].state.type \in Pending /\ channel[p].roll_back # None
              THEN RollBack(channel[p]) ELSE channel[p]
Closable == {"Established", "RenewFinalized", "Settled"}
force_close_channel_internal(p) ==
    LET c == ToClose(p)
        tx == c.state.tx
    IN  \/ /\ c.state.type \in Pending
           /\ Become(p, "NoRollback")
           /\ UNCHANGED <<watch, saved, spend>>
        \/ /\ c.state.type \in {"Established", "RenewFinalized"}
           /\ send_transaction(p, tx)
           /\ Store(p, initiate_unilateral_close(c))
           /\ WatchFrom(p, remove_tx(watch[p], tx)) /\ Persist(p)
        \/ /\ c.state.type = "Settled"
           /\ send_transaction(p, tx)
           /\ Become(p, "Closed")
           /\ cleanup_channel(p)
           /\ UNCHANGED saved

force_close_channel(p) ==
    /\ p \in env.closers /\ Open(p)
    /\ force_close_channel_internal(p)
    /\ UNCHANGED <<net, funded, output>>

\* The states whose timeout the periodic check looks at.
Timed == {"RenewOffered", "RenewAccepted", "RenewConfirmed",
          "SettledOffered", "SettledAccepted", "SettledConfirmed"}
check_for_timed_out_channels(p) ==
    /\ env.unresponsive /\ In(p, Timed)
    /\ force_close_channel_internal(p)
    /\ UNCHANGED <<net, funded, output>>

\* Only the CETs of the contract it was made for spend a buffer transaction.
try_finalize_closing_established_channel(p) ==
    /\ In(p, {"Closing"}) /\ spend # None /\ spend.tx = channel[p].state.tx
    /\ channel[p].state.contract = spend.tx.idx /\ ContractConfirmed(p, spend.tx.idx)
    /\ output \in {None, "cet"}
    /\ output' = "cet"
    /\ Become(p, IF channel[p].state.flag THEN "Closed" ELSE "CounterClosed")
    /\ cleanup_channel(p)
    /\ UNCHANGED <<saved, net, funded, spend>>

\* The fund transaction has NB_CONFIRMATIONS.
check_signed_contracts(p) ==
    /\ funded /\ Open(p) /\ p \notin confirmed
    /\ confirmed' = confirmed \cup {p}
    /\ UNCHANGED <<channel, watch, saved, net, funded, spend, output>>

\* process_watched_txs, one confirmed transaction at a time.
Confirmed(p, type) == {e \in watch[p] : Open(p) /\ spend # None /\ spend.tx = e.tx /\ e.type = type}

SeeBufferTx(p) ==
    /\ Confirmed(p, "BufferTx") # {}
    /\ LET id == get_contract_id(channel[p]) IN
       IF id = None
       THEN Become(p, "NoContractId")
       ELSE Store(p, Propose(channel[p], [type |-> "Closing", tx |-> spend.tx, flag |-> FALSE, contract |-> id]))
    /\ UNCHANGED <<watch, saved, net, funded, spend, output>>

\* The punishing transaction spends the output with the scripts of its two roles:
\* with the roles exchanged it is invalid and refused.  The publisher's secret is recovered from
\* the signature that was encrypted for it, which a transaction of one's own does not have.
SeeRevoked(p) ==
    \E e \in Confirmed(p, "Revoked") :
        /\ \/ /\ e.idx \notin channel[p].secrets
              /\ Become(p, "NoSecret")
              /\ UNCHANGED <<watch, saved, output>>
           \/ /\ e.idx \in channel[p].secrets
              /\ spend.by # p /\ e.is_offer = (e.tx.offer = p) /\ output = None
              /\ output' = "punish"
              /\ Become(p, "ClosedPunished")
              /\ cleanup_channel(p) /\ Persist(p)
        /\ UNCHANGED <<net, funded, spend>>

SeeCollaborativeClose(p) ==
    /\ Confirmed(p, "CollaborativeClose") # {}
    /\ RolledBackIn(p, {"Established"}) => In(p, {"CollaborativeCloseOffered"})
    /\ get_collaboratively_closed_contract(p)
    /\ Become(p, "CollaborativelyClosed")
    /\ cleanup_channel(p) /\ Persist(p)
    /\ UNCHANGED <<net, funded, spend, output>>

SeeSettleTx(p) ==
    /\ Confirmed(p, "SettleTx") # {}
    /\ Become(p, "CounterClosed")
    /\ cleanup_channel(p) /\ Persist(p)
    /\ UNCHANGED <<net, funded, spend, output>>

\* A watched output was spent, by a CET or by a punishing transaction.
SeeCet(p) ==
    /\ Confirmed(p, "Cet") # {} /\ output # None
    /\ Become(p, IF In(p, {"Closing"}) /\ ~channel[p].state.flag THEN "CounterClosed" ELSE "Closed")
    /\ cleanup_channel(p) /\ Persist(p)
    /\ UNCHANGED <<net, funded, spend, output>>

\* The last step of every periodic check.
check_for_watched_tx(p) ==
    /\ channel[p].status \notin Gone /\ saved[p] # watch[p]
    /\ saved' = [saved EXCEPT ![p] = watch[p]]
    /\ UNCHANGED <<channel, watch, net, funded, spend, output>>

\* The process starts again with what is stored: what was on its way to the node is lost.
Reload(p) ==
    /\ watch' = [watch EXCEPT ![p] = saved[p]]
    /\ net' = [net EXCEPT ![p] = <<>>]

\* It ends between two handlers.
Restart(p) ==
    /\ env.restarts /\ channel[p].status \notin Gone
    /\ Reload(p)
    /\ UNCHANGED <<channel, saved, funded, spend, output>>

ClosesAlone(p) == Open(p) /\ (p \in env.closers \/ (env.unresponsive /\ In(p, Timed)))

\* It ends inside a handler or call that has sent a transaction and not stored the channel:
\* the fund transaction, the one a forced close publishes, or a closing transaction.
CrashAfterSend(p) ==
    /\ env.crashes
    /\ \/ /\ Receive(p, "SignChannel") /\ Head(net[p]).idx = 0
          /\ funded' = TRUE
          /\ UNCHANGED spend
       \/ /\ ClosesAlone(p) /\ ToClose(p).state.type \in Closable
          /\ send_transaction(p, ToClose(p).state.tx)
          /\ UNCHANGED funded
       \/ /\ AcceptsClose(p)
          /\ UNCHANGED funded
    /\ Reload(p)
    /\ UNCHANGED <<channel, saved, output>>

\* It ends inside a handler that has stored the channel and not the monitor: the answer is not
\* sent.
StoredFirst(p) ==
    LET c == channel[p] IN
    CASE Receive(p, "AcceptChannel") -> verify_and_sign_accepted_channel
      [] Receive(p, "SignChannel") -> verify_signed_channel
      [] Receive(p, "SettleConfirm") -> settle_channel_finalize(c)
      [] Receive(p, "SettleFinalize") -> settle_channel_on_finalize(c)
      [] Receive(p, "RenewConfirm") -> verify_renew_confirm_and_finalize(c)
      [] Receive(p, "RenewFinalize") -> renew_channel_on_finalize(c)
CrashAfterStore(p) ==
    /\ env.crashes
    /\ \/ \E type \in {"AcceptChannel", "SignChannel"} : Receive(p, type) /\ Head(net[p]).idx = 0
       \/ \E type \in Superseding : Receive(p, type)
    /\ Store(p, [StoredFirst(p) EXCEPT !.revealed = IF Open(p) THEN channel[p].revealed ELSE {}])
    /\ funded' = (funded \/ Receive(p, "SignChannel"))
    /\ Reload(p)
    /\ UNCHANGED <<saved, spend, output>>

\* It ends likewise inside a call: an offer to close together, or a forced close whose
\* transaction was sent.
CrashInCall(p) ==
    /\ env.crashes
    /\ \/ /\ In(p, env.closeFrom)
          /\ Store(p, updater_offer_collaborative_close(channel[p], p))
          /\ UNCHANGED spend
       \/ /\ ClosesAlone(p) /\ ToClose(p).state.type \in {"Established", "RenewFinalized"}
          /\ send_transaction(p, ToClose(p).state.tx)
          /\ Store(p, initiate_unilateral_close(ToClose(p)))
    /\ Reload(p)
    /\ UNCHANGED <<saved, funded, output>>

\* The connection drops a message: nothing sends it again.
Lose(p) ==
    /\ env.lossy /\ net[p] # <<>>
    /\ Consume(p)
    /\ UNCHANGED <<channel, watch, saved, funded, spend, output>>
-----------------------------------------------------------------------------
Init ==
    /\ channel = [p \in Parties |-> [status |-> "None"]]
    /\ confirmed = {}
    /\ watch = [p \in Parties |-> {}]
    /\ saved = watch
    /\ net = [p \in Parties |-> <<>>]
    /\ funded = FALSE
    /\ spend = None
    /\ output = None
    /\ env \in Environments

Calls(p) == \/ offer_channel(p) \/ settle_offer(p) \/ renew_offer(p) \/ offer_collaborative_close(p) \/ force_close_channel(p)
Answers(p) == \/ accept_channel(p) \/ reject_channel(p)
              \/ accept_settle_offer(p) \/ reject_settle_offer(p)
              \/ accept_renew_offer(p) \/ reject_renew_offer(p)
              \/ accept_collaborative_close(p)
on_dlc_message(p) ==
    \/ on_offer_channel(p) \/ on_accept_channel(p) \/ on_sign_channel(p)
    \/ on_settle_offer(p) \/ on_settle_accept(p) \/ on_settle_confirm(p) \/ on_settle_finalize(p)
    \/ on_renew_offer(p) \/ on_renew_accept(p) \/ on_renew_confirm(p) \/ on_renew_finalize(p) \/ on_renew_revoke(p)
    \/ on_collaborative_close_offer(p) \/ on_reject(p) \/ fail_settlement(p) \/ Ignore(p)
process_watched_txs(p) ==
    SeeBufferTx(p) \/ SeeRevoked(p) \/ SeeCollaborativeClose(p) \/ SeeSettleTx(p) \/ SeeCet(p)
channel_checks(p) ==
    \/ try_finalize_closing_established_channel(p) \/ check_for_timed_out_channels(p)
    \/ process_watched_txs(p) \/ check_for_watched_tx(p)

Next ==
    /\ \E p \in Parties :
        \/ /\ \/ Calls(p) \/ Answers(p) \/ on_dlc_message(p) \/ channel_checks(p)
              \/ Restart(p) \/ CrashAfterSend(p) \/ CrashAfterStore(p) \/ CrashInCall(p) \/ Lose(p)
           /\ UNCHANGED confirmed
        \/ check_signed_contracts(p)
    /\ UNCHANGED env

Spec == Init /\ [][Next]_vars

\* The type of the two stores, the monitors, the messages and the chain.
TypeOK ==
    /\ channel \in [Parties -> Channels \cup [status : Gone \cup Setup]]
    /\ confirmed \subseteq Parties
    /\ watch \in [Parties -> SUBSET Watches]
    /\ saved \in [Parties -> SUBSET Watches]
    /\ net \in [Parties -> Seq(Messages)]
    /\ spend \in [tx : Txs, by : Parties] \cup {None}
    /\ funded \in BOOLEAN
    /\ output \in {None, "cet", "punish"}
    /\ env \in Environments
-----------------------------------------------------------------------------
\* The transactions a node holds the other party's signature for.
Signed == {"Established", "Settled", "SettledConfirmed", "RenewFinalized"}
HeldTxs(p) == {s.tx : s \in {t \in {channel[p].state, channel[p].roll_back} \ {None} : t.type \in Signed}}

(***************************************************************************)
(* Revoking an update is safe only with a replacement in hand: whatever    *)
(* secrets a node has sent in SettleConfirm, SettleFinalize, RenewFinalize *)
(* or RenewRevoke, it holds a transaction signed by the other party whose  *)
(* update it has not revoked, until it starts to close or replaces its     *)
(* roll-back state by offering to close from a pending state.              *)
(***************************************************************************)
CanCloseUnrevoked ==
    \A p \in Parties :
        Open(p) /\ ~In(p, {"Closing"}) /\ ~RolledBackIn(p, Pending \cup {"Closing"})
            => \E tx \in HeldTxs(p) : tx.idx \notin channel[p].revealed

(***************************************************************************)
(* The accepting node sends the fund transaction, in on_sign_channel: no   *)
(* coins are locked before the offering node has stored a signed channel,  *)
(* from which it can close alone, whatever was lost or answered twice.     *)
(***************************************************************************)
FundedWhenBothSigned == funded => channel[Offerer].status \notin Setup

(***************************************************************************)
(* A node that has moved on to a new stable state stored the other party's *)
(* secret of every earlier update, and its chain monitor watches the       *)
(* transaction of every earlier update as a revoked one, unless the node   *)
(* ended between storing the channel and the monitor.                      *)
(***************************************************************************)
OldUpdatesAreWatched ==
    \A p \in Parties : In(p, Stable) =>
        \A k \in 0..(channel[p].update_idx - 1) :
            /\ k \in channel[p].secrets
            /\ \/ \E e \in watch[p] : e.type = "Revoked" /\ e.idx = k /\ e.tx.idx = k
               \/ env.crashes

(***************************************************************************)
(* When both nodes are in a stable state they are in the same one: same    *)
(* update, same transaction.  No order of crossing offers, rejects, lost   *)
(* messages and rollbacks leaves one settled and the other established.    *)
(***************************************************************************)
StableTogether ==
    (\A p \in Parties : In(p, Stable)) =>
        \A p, q \in Parties : /\ channel[p].update_idx = channel[q].update_idx
                              /\ channel[p].state.type = channel[q].state.type
                              /\ channel[p].state.tx = channel[q].state.tx

(***************************************************************************)
(* How a node records the end of the channel agrees with what is on the    *)
(* chain: collaborative only by a closing transaction, CounterClosed and   *)
(* ClosedPunished only by a transaction the other party published.  A node *)
(* that ends between publishing and storing finds its own transaction and  *)
(* takes it for the other's: CounterClosed is only right without that.     *)
(***************************************************************************)
ClosedAsPublished ==
    \A p \in Parties :
        /\ channel[p].status = "CollaborativelyClosed" => spend # None /\ spend.tx.type = "close"
        /\ channel[p].status = "ClosedPunished" => spend # None /\ spend.by # p
        /\ channel[p].status = "CounterClosed" => spend # None /\ (spend.by # p \/ env.crashes)

\* Both nodes handle messages and their users the offers they receive.
LiveSpec == Spec /\ \A p \in Parties : /\ WF_vars(on_dlc_message(p) /\ UNCHANGED <<confirmed, env>>)
                                       /\ WF_vars(Answers(p) /\ UNCHANGED <<confirmed, env>>)

\* Nothing is lost, nobody closes, users answer and propose no update before both contracts are
\* Confirmed, messages are handed over in process.
Quiet == ~env.lossy /\ ~env.restarts /\ ~env.crashes /\ ~env.unresponsive /\ ~env.overWire /\ ~env.acceptsOwn
         /\ ~env.forged /\ ~env.refused /\ env.patient
         /\ env.closers = {} /\ env.closeFrom = {} /\ Cardinality(env.proposers) = 1

AtRest(p) == In(p, Stable) \/ channel[p].status \in {"None", "Cancelled"}

(***************************************************************************)
(* In a quiet environment, a channel that is offered and an update that    *)
(* one node proposes end with both nodes at rest again: every handler of a *)
(* setup, settlement or renewal sends the message the other side's state   *)
(* is waiting for.                                                         *)
(***************************************************************************)
UpdatesComplete ==
    Quiet /\ (\E p \in Parties : ~AtRest(p)) ~> (\A p \in Parties : AtRest(p))

(***************************************************************************)
(* What the comment on the punishment in process_watched_txs says: it      *)
(* answers a cheating transaction, so a node that only ever runs this code *)
(* is never punished.                                                      *)
(***************************************************************************)
NobodyIsPunished == \A p \in Parties : channel[p].status # "ClosedPunished"
=============================================================================
