---------------------------- MODULE LoanProtocol ----------------------------
(***************************************************************************)
(* The loan flow of the README: a lender node offers a loan, the borrower  *)
(* node locks BTC in a hash-locked escrow, the lender lends stablecoins    *)
(* under the same hash on the EVM chain, the borrower claims them (which   *)
(* reveals the preimage), and the lender moves the escrow into the         *)
(* collateral transaction that funds the DLC.                              *)
(*                                                                         *)
(* Both nodes run the CLI loop over the same Manager: every input line     *)
(* first handles the received messages, then the command.  What a handler  *)
(* writes to the sled store survives a crash; the message queues and the   *)
(* position inside a handler (pc) do not.  The CLI calls .expect on every  *)
(* handler and command, so an Err of the Manager ends the process: Panic.  *)
(* Handlers that touch the store or a chain more than once are split at    *)
(* each such effect, so that a crash can fall in between.                  *)
(*                                                                         *)
(* The Bitcoin chain is external: a transaction that was broadcast is      *)
(* eventually mined and gains confirmations.  The escrow transaction and   *)
(* the collateral transaction that spends it are named by the preimage of  *)
(* the hash lock in the escrow script.                                     *)
(***************************************************************************)
EXTENDS StableLending, Sequences

CONSTANTS
    Offers,            \* temporary ids of the loan offers the lender makes
    Lender, Borrower,  \* the two nodes, and their EVM accounts
    NoOffer, NoPreimage,
    TotalCollateral,   \* offered_contract.total_collateral, in satoshis
    LenderBalance,     \* tokens of each account when the flow starts
    NB_CONFIRMATIONS,  \* 6 in the code
    Environments       \* what may go wrong: a behaviour starts with one of them

Nodes == {Lender, Borrower}

ASSUME NodesAssumption == Lender # Borrower /\ Accounts = Nodes
ASSUME NoOfferAssumption == NoOffer \notin Offers /\ NoPreimage \notin Preimages
ASSUME NonZeroPreimages == 0 \notin Preimages
ASSUME TotalCollateralAssumption == TotalCollateral \in Nat \ {0}
ASSUME LenderBalanceAssumption == LenderBalance \in Nat
ASSUME ConfirmationsAssumption == NB_CONFIRMATIONS \in Nat \ {0}

\* offers: those the lender makes; sigs: whether a counterparty's signatures may
\* fail; lossy: a message may be dropped between two running nodes; patient: the
\* borrower waits for the escrow before listcontracts; kills: how many more
\* processes may be killed from outside.  offers and kills are bounds for TLC.
Environment ==
    [offers : SUBSET Offers, sigs : SUBSET BOOLEAN, lossy : BOOLEAN,
     patient : BOOLEAN, kills : Nat]

ASSUME EnvironmentsAssumption == Environments \subseteq Environment

VARIABLES
    up,                \* is the node's process running
    pc,                \* where the node is inside a command or handler
    todo,              \* loan offers the running periodic check still has to visit
    inbox,             \* messages received and not yet handled
    contract,          \* store: state of each node's copy of the contract
    escrowTxid,        \* store, borrower: set_escrow_txid
    loanPreimage,      \* store, borrower: set_loan_preimage
    fundTx,            \* store, lender: the collateral transaction of the signed contract
    escrowFor,         \* Bitcoin: the offer whose escrow was broadcast under a hash
    depth,             \* Bitcoin: confirmations of escrow and collateral transactions
    collateralTxs,     \* Bitcoin: escrows whose collateral transaction was broadcast
    env                \* the environment of this behaviour

nodeVars == <<up, pc, todo, inbox>>
storeVars == <<contract, escrowTxid, loanPreimage, fundTx>>
btcVars == <<escrowFor, depth, collateralTxs>>
vars == <<stableVars, nodeVars, storeVars, btcVars, env>>

ContractStates ==
    {"None", "OfferedLoan", "OfferedLoanEscrowConfirmed", "Accepted", "Signed",
     "Confirmed", "FailedAccept", "FailedSign"}

Messages ==
    [type : {"OfferLoan", "InitiateAcceptLoan", "AcceptLoan", "Sign"},
     offer : Offers, escrow : Preimages \cup {NoPreimage},
     hash : Preimages \cup {NoPreimage}, valid : BOOLEAN]

Msg(type, offer, escrow, hash, valid) ==
    [type |-> type, offer |-> offer, escrow |-> escrow, hash |-> hash, valid |-> valid]

\* Positions between two effects of one command or handler.
Positions ==
    {"idle", "escrowSent", "txidStored", "preimageStored", "check", "claimed",
     "acceptStored", "collateralSent", "signStored"}

Places ==
    [at : Positions, offer : Offers \cup {NoOffer}, escrow : Preimages \cup {NoPreimage},
     hash : Preimages \cup {NoPreimage}, valid : BOOLEAN]

Idle ==
    [at |-> "idle", offer |-> NoOffer, escrow |-> NoPreimage, hash |-> NoPreimage, valid |-> TRUE]

At(position, offer, escrow, hash, valid) ==
    [at |-> position, offer |-> offer, escrow |-> escrow, hash |-> hash, valid |-> valid]

TxKinds == {"escrow", "collateral"}

\* The type of the nodes, their stores and queues, and the two chains.
TypeOK ==
    /\ StableTypeOK
    /\ up \in [Nodes -> BOOLEAN]
    /\ pc \in [Nodes -> Places]
    /\ todo \subseteq Offers
    /\ inbox \in [Nodes -> Seq(Messages)]
    /\ contract \in [Nodes -> [Offers -> ContractStates]]
    /\ escrowTxid \in [Offers -> Preimages \cup {NoPreimage}]
    /\ loanPreimage \in [Offers -> Preimages \cup {NoPreimage}]
    /\ fundTx \in [Offers -> Preimages \cup {NoPreimage}]
    /\ escrowFor \in [Preimages -> Offers \cup {NoOffer}]
    /\ depth \in [TxKinds -> [Preimages -> 0..NB_CONFIRMATIONS]]
    /\ collateralTxs \subseteq Preimages
    /\ env \in Environment

Init ==
    /\ StableInit(LenderBalance)
    /\ up = [n \in Nodes |-> TRUE]
    /\ pc = [n \in Nodes |-> Idle]
    /\ todo = {}
    /\ inbox = [n \in Nodes |-> <<>>]
    /\ contract = [n \in Nodes |-> [o \in Offers |-> "None"]]
    /\ escrowTxid = [o \in Offers |-> NoPreimage]
    /\ loanPreimage = [o \in Offers |-> NoPreimage]
    /\ fundTx = [o \in Offers |-> NoPreimage]
    /\ escrowFor = [p \in Preimages |-> NoOffer]
    /\ depth = [k \in TxKinds |-> [p \in Preimages |-> 0]]
    /\ collateralTxs = {}
    /\ env \in Environments

----------------------------------------------------------------------------
(* Running, failing and sending.                                           *)

Ready(n) == up[n] /\ pc[n] = Idle

\* The box after a message to n: a message to a node that is down is lost.
Sent(box, n, m) ==
    {IF up[n] THEN [box EXCEPT ![n] = Append(@, m)] ELSE box}
        \cup (IF env.lossy THEN {box} ELSE {})

\* The box after n took its first message out of it.
Taken(n) == [inbox EXCEPT ![n] = Tail(@)]

\* An Err reaches the .expect of the CLI, or an unwrap fails: the process ends
\* with the queued messages; only the store and the chains remain.
Panic(n) ==
    /\ up' = [up EXCEPT ![n] = FALSE]
    /\ pc' = [pc EXCEPT ![n] = Idle]
    /\ inbox' = [inbox EXCEPT ![n] = <<>>]
    /\ todo' = IF n = Borrower THEN {} ELSE todo

Goto(n, position) == pc' = [pc EXCEPT ![n] = position]

SetContract(n, o, state) == contract' = [contract EXCEPT ![n][o] = state]

Receives(n, type) ==
    /\ Ready(n)
    /\ inbox[n] # <<>>
    /\ Head(inbox[n]).type = type

----------------------------------------------------------------------------
(* Offer.                                                                  *)

\* offerloan: validates, stores the lender's preimage and the contract, sends.
send_offer_loan(o) ==
    /\ o \in env.offers
    /\ Ready(Lender)
    /\ contract[Lender][o] = "None"
    /\ SetContract(Lender, o, "OfferedLoan")
    /\ inbox' \in Sent(inbox, Borrower, Msg("OfferLoan", o, NoPreimage, NoPreimage, TRUE))
    /\ UNCHANGED <<stableVars, up, pc, todo, escrowTxid, loanPreimage, fundTx, btcVars, env>>

on_offer_loan_message ==
    LET o == Head(inbox[Borrower]).offer
    IN  /\ Receives(Borrower, "OfferLoan")
        /\ \/ /\ contract[Borrower][o] = "None"
              /\ SetContract(Borrower, o, "OfferedLoan")
              /\ inbox' = Taken(Borrower)
              /\ UNCHANGED <<up, pc, todo>>
           \/ /\ contract[Borrower][o] # "None"
              /\ Panic(Borrower)
              /\ UNCHANGED contract
        /\ UNCHANGED <<stableVars, escrowTxid, loanPreimage, fundTx, btcVars, env>>

----------------------------------------------------------------------------
(* acceptloanoffer: initiate_accept_loan_contract_offer.  The contract      *)
(* stays OfferedLoan, so the command can be given again.                    *)

\* Mutant: the escrow transaction is signed but never broadcast.
forget_escrow_broadcast(o, p) ==
    /\ Ready(Borrower)
    /\ contract[Borrower][o] = "OfferedLoan"
    /\ escrowFor[p] = NoOffer
    /\ Goto(Borrower, At("escrowSent", o, p, p, TRUE))
    /\ UNCHANGED <<stableVars, up, todo, inbox, storeVars, btcVars, env>>

\* send_escrow_transaction with a fresh random preimage.
send_escrow_transaction(o, p) ==
    /\ Ready(Borrower)
    /\ contract[Borrower][o] = "OfferedLoan"
    /\ escrowFor[p] = NoOffer
    /\ escrowFor' = [escrowFor EXCEPT ![p] = o]
    /\ Goto(Borrower, At("escrowSent", o, p, p, TRUE))
    /\ UNCHANGED <<stableVars, up, todo, inbox, storeVars, depth, collateralTxs, env>>

set_escrow_txid ==
    LET at == pc[Borrower]
    IN  /\ at.at = "escrowSent"
        /\ escrowTxid' = [escrowTxid EXCEPT ![at.offer] = at.escrow]
        /\ Goto(Borrower, [at EXCEPT !.at = "txidStored"])
        /\ UNCHANGED <<stableVars, up, todo, inbox, contract, loanPreimage, fundTx,
                       btcVars, env>>

set_loan_preimage ==
    LET at == pc[Borrower]
    IN  /\ at.at = "txidStored"
        /\ loanPreimage' = [loanPreimage EXCEPT ![at.offer] = at.hash]
        /\ Goto(Borrower, [at EXCEPT !.at = "preimageStored"])
        /\ UNCHANGED <<stableVars, up, todo, inbox, contract, escrowTxid, fundTx,
                       btcVars, env>>

send_initiate_accept ==
    LET at == pc[Borrower]
    IN  /\ at.at = "preimageStored"
        /\ inbox' \in Sent(inbox, Lender,
                           Msg("InitiateAcceptLoan", at.offer, at.escrow, at.hash, TRUE))
        /\ Goto(Borrower, Idle)
        /\ UNCHANGED <<stableVars, up, todo, storeVars, btcVars, env>>

\* The call lendStable(hash, TotalCollateral) would revert.
LendReverts(hash) ==
    \/ stableLoans[hash].collateralAmount # 0
    \/ ~ValidPrices
    \/ ~CanPay(Lender, getStableLoanAmount(TotalCollateral))

\* The lender lends at once: the escrow itself is not looked up.
on_initiate_accept_loan_message ==
    LET m == Head(inbox[Lender])
    IN  /\ Receives(Lender, "InitiateAcceptLoan")
        /\ \/ /\ contract[Lender][m.offer] = "OfferedLoan"
              /\ lendStable(Lender, m.hash, TotalCollateral)
              /\ inbox' = Taken(Lender)
              /\ UNCHANGED <<up, pc, todo>>
           \/ /\ contract[Lender][m.offer] # "OfferedLoan" \/ LendReverts(m.hash)
              /\ Panic(Lender)
              /\ UNCHANGED stableVars
        /\ UNCHANGED <<storeVars, btcVars, env>>

----------------------------------------------------------------------------
(* listcontracts: periodic_check.                                           *)

\* Offers the borrower's check visits: OfferedLoan with a stored escrow txid.
EscrowedOffers ==
    {o \in Offers : contract[Borrower][o] = "OfferedLoan" /\ escrowTxid[o] # NoPreimage}

EscrowDepth(o) == depth["escrow"][escrowTxid[o]]

list_contracts(n) ==
    /\ Ready(n)
    /\ (env.patient /\ n = Borrower) =>
          \A o \in EscrowedOffers : EscrowDepth(o) >= NB_CONFIRMATIONS
    /\ Goto(n, At("check", NoOffer, NoPreimage, NoPreimage, TRUE))
    /\ todo' = IF n = Borrower THEN EscrowedOffers ELSE todo
    /\ UNCHANGED <<stableVars, up, inbox, storeVars, btcVars, env>>

LendRecorded(p) == stableLoans[p].collateralAmount > 0

\* One turn of check_offered_loan_contracts_for_escrow up to the claim.
check_offered_loan(o) ==
    LET p == loanPreimage[o]
    IN  /\ pc[Borrower].at = "check"
        /\ o \in todo
        /\ \/ /\ p # NoPreimage
              /\ claimStable(Borrower, p)
              /\ Goto(Borrower, At("claimed", o, escrowTxid[o], p, TRUE))
              /\ UNCHANGED <<up, todo, inbox>>
           \/ /\ p # NoPreimage
              /\ ~LendRecorded(p)
              /\ todo' = todo \ {o}
              /\ UNCHANGED <<stableVars, up, pc, inbox>>
           \/ /\ p # NoPreimage =>
                    LendRecorded(p) /\ ~CanPay(This, stableLoans[p].stableLoanAmount)
              /\ Panic(Borrower)
              /\ UNCHANGED stableVars
        /\ UNCHANGED <<storeVars, btcVars, env>>

\* Mutant: one confirmation less is enough.
confirm_escrow_early ==
    LET o == pc[Borrower].offer
    IN  /\ pc[Borrower].at = "claimed"
        /\ contract' = IF EscrowDepth(o) >= NB_CONFIRMATIONS - 1
                       THEN [contract EXCEPT ![Borrower][o] = "OfferedLoanEscrowConfirmed"]
                       ELSE contract
        /\ todo' = todo \ {o}
        /\ Goto(Borrower, At("check", NoOffer, NoPreimage, NoPreimage, TRUE))
        /\ UNCHANGED <<stableVars, up, inbox, escrowTxid, loanPreimage, fundTx, btcVars, env>>

\* The rest of the turn: the state moves on once the escrow is deep enough.
confirm_escrow ==
    LET o == pc[Borrower].offer
    IN  /\ pc[Borrower].at = "claimed"
        /\ contract' = IF EscrowDepth(o) >= NB_CONFIRMATIONS
                       THEN [contract EXCEPT ![Borrower][o] = "OfferedLoanEscrowConfirmed"]
                       ELSE contract
        /\ todo' = todo \ {o}
        /\ Goto(Borrower, At("check", NoOffer, NoPreimage, NoPreimage, TRUE))
        /\ UNCHANGED <<stableVars, up, inbox, escrowTxid, loanPreimage, fundTx, btcVars, env>>

\* The transaction whose depth check_signed_contract reads at node n.
FundDepth(n, o) ==
    LET p == IF n = Lender THEN fundTx[o] ELSE escrowTxid[o]
    IN  IF p = NoPreimage THEN 0 ELSE depth["collateral"][p]

\* Mutant: the comparison with NB_CONFIRMATIONS is strict.
check_signed_contracts_strict(n) ==
    /\ pc[n].at = "check"
    /\ n = Borrower => todo = {}
    /\ contract' = [contract EXCEPT ![n] =
           [o \in Offers |->
               IF contract[n][o] = "Signed" /\ FundDepth(n, o) > NB_CONFIRMATIONS
               THEN "Confirmed" ELSE contract[n][o]]]
    /\ Goto(n, Idle)
    /\ UNCHANGED <<stableVars, up, todo, inbox, escrowTxid, loanPreimage, fundTx,
                   btcVars, env>>

\* check_signed_contracts, the last part of the check for a loan.
check_signed_contracts(n) ==
    /\ pc[n].at = "check"
    /\ n = Borrower => todo = {}
    /\ contract' = [contract EXCEPT ![n] =
           [o \in Offers |->
               IF contract[n][o] = "Signed" /\ FundDepth(n, o) >= NB_CONFIRMATIONS
               THEN "Confirmed" ELSE contract[n][o]]]
    /\ Goto(n, Idle)
    /\ UNCHANGED <<stableVars, up, todo, inbox, escrowTxid, loanPreimage, fundTx,
                   btcVars, env>>

----------------------------------------------------------------------------
(* finishacceptloanoffer and the signatures.                                *)

\* What accept_loan_contract builds from the stored txid and preimage: the spend
\* of that escrow under that hash, with CET and refund signatures.
accept_loan_contract(o, valid) ==
    At("acceptStored", o, escrowTxid[o], loanPreimage[o], valid)

\* Mutant: the temporary contract is put back instead of being replaced.
accept_keeps_offer(o, valid) ==
    /\ Ready(Borrower)
    /\ contract[Borrower][o] = "OfferedLoanEscrowConfirmed"
    /\ SetContract(Borrower, o, "OfferedLoan")
    /\ Goto(Borrower, accept_loan_contract(o, valid))
    /\ UNCHANGED <<stableVars, up, todo, inbox, escrowTxid, loanPreimage, fundTx,
                   btcVars, env>>

accept_loan_contract_offer(o, valid) ==
    /\ Ready(Borrower)
    /\ contract[Borrower][o] = "OfferedLoanEscrowConfirmed"
    /\ escrowTxid[o] # NoPreimage /\ loanPreimage[o] # NoPreimage
    /\ SetContract(Borrower, o, "Accepted")
    /\ Goto(Borrower, accept_loan_contract(o, valid))
    /\ UNCHANGED <<stableVars, up, todo, inbox, escrowTxid, loanPreimage, fundTx,
                   btcVars, env>>

send_accept_loan ==
    LET at == pc[Borrower]
    IN  /\ at.at = "acceptStored"
        /\ inbox' \in Sent(inbox, Lender,
                           Msg("AcceptLoan", at.offer, at.escrow, at.hash, at.valid))
        /\ Goto(Borrower, Idle)
        /\ UNCHANGED <<stableVars, up, todo, storeVars, btcVars, env>>

\* The witness the lender completes with the preimage read from the EVM chain
\* satisfies the script of the escrow that the transaction spends.
SpendIsValid(m) ==
    /\ m.escrow = m.hash
    /\ stableLoans[m.hash].borrowerPreimage = m.hash
    /\ escrowFor[m.escrow] # NoOffer
    /\ m.escrow \notin collateralTxs

\* The collateral transaction is broadcast before the signatures are verified.
on_accept_loan_message ==
    LET m == Head(inbox[Lender])
    IN  /\ Receives(Lender, "AcceptLoan")
        /\ \/ /\ contract[Lender][m.offer] = "OfferedLoan"
              /\ SpendIsValid(m)
              /\ collateralTxs' = collateralTxs \cup {m.escrow}
              /\ inbox' = Taken(Lender)
              /\ Goto(Lender, At("collateralSent", m.offer, m.escrow, m.hash, m.valid))
              /\ UNCHANGED <<up, todo>>
           \/ /\ contract[Lender][m.offer] # "OfferedLoan" \/ ~SpendIsValid(m)
              /\ Panic(Lender)
              /\ UNCHANGED collateralTxs
        /\ UNCHANGED <<stableVars, storeVars, escrowFor, depth, env>>

\* Mutant: the reply is prepared without storing the signed contract.
sign_without_store ==
    /\ pc[Lender].at = "collateralSent"
    /\ Goto(Lender, [pc[Lender] EXCEPT !.at = "signStored"])
    /\ UNCHANGED <<stableVars, up, todo, inbox, storeVars, btcVars, env>>

\* verify_accepted_and_sign_loan_contract and the store update that follows.
verify_accepted_and_sign ==
    LET at == pc[Lender]
    IN  /\ at.at = "collateralSent"
        /\ \/ /\ at.valid
              /\ SetContract(Lender, at.offer, "Signed")
              /\ fundTx' = [fundTx EXCEPT ![at.offer] = at.escrow]
              /\ Goto(Lender, [at EXCEPT !.at = "signStored"])
              /\ UNCHANGED <<up, todo, inbox>>
           \/ /\ ~at.valid
              /\ SetContract(Lender, at.offer, "FailedAccept")
              /\ Panic(Lender)
              /\ UNCHANGED fundTx
        /\ UNCHANGED <<stableVars, escrowTxid, loanPreimage, btcVars, env>>

send_sign(valid) ==
    LET at == pc[Lender]
    IN  /\ at.at = "signStored"
        /\ inbox' \in Sent(inbox, Borrower, Msg("Sign", at.offer, at.escrow, at.hash, valid))
        /\ Goto(Lender, Idle)
        /\ UNCHANGED <<stableVars, up, todo, storeVars, btcVars, env>>

on_sign_message ==
    LET m == Head(inbox[Borrower])
    IN  /\ Receives(Borrower, "Sign")
        /\ \/ /\ contract[Borrower][m.offer] = "Accepted" /\ m.valid
              /\ SetContract(Borrower, m.offer, "Signed")
              /\ inbox' = Taken(Borrower)
              /\ UNCHANGED <<up, pc, todo>>
           \/ /\ contract[Borrower][m.offer] = "Accepted" /\ ~m.valid
              /\ SetContract(Borrower, m.offer, "FailedSign")
              /\ Panic(Borrower)
           \/ /\ contract[Borrower][m.offer] # "Accepted"
              /\ Panic(Borrower)
              /\ UNCHANGED contract
        /\ UNCHANGED <<stableVars, escrowTxid, loanPreimage, fundTx, btcVars, env>>

----------------------------------------------------------------------------
(* The environment: blocks, killed processes, restarts.                     *)

\* The depths d after a block that includes some transactions.
Deeper(d, included) ==
    [p \in Preimages |->
        IF p \in included THEN 1
        ELSE IF d[p] \in 1 .. NB_CONFIRMATIONS - 1 THEN d[p] + 1 ELSE d[p]]

\* A block deepens mined transactions and includes some of the waiting ones.
MineBlock ==
    LET waiting == {p \in Preimages : escrowFor[p] # NoOffer /\ depth["escrow"][p] = 0}
        spends == {p \in collateralTxs : depth["collateral"][p] = 0}
    IN  \E e \in SUBSET waiting, c \in SUBSET spends :
          /\ \A p \in c : depth["escrow"][p] > 0 \/ p \in e
          /\ depth' = [k \in TxKinds |->
                         IF k = "escrow" THEN Deeper(depth[k], e) ELSE Deeper(depth[k], c)]
          /\ UNCHANGED <<stableVars, nodeVars, storeVars, escrowFor, collateralTxs, env>>

Kill(n) ==
    /\ up[n]
    /\ env.kills > 0
    /\ env' = [env EXCEPT !.kills = @ - 1]
    /\ Panic(n)
    /\ UNCHANGED <<stableVars, storeVars, btcVars>>

Restart(n) ==
    /\ ~up[n]
    /\ up' = [up EXCEPT ![n] = TRUE]
    /\ UNCHANGED <<stableVars, pc, todo, inbox, storeVars, btcVars, env>>

LenderStep ==
    \/ \E o \in Offers : send_offer_loan(o)
    \/ on_initiate_accept_loan_message
    \/ on_accept_loan_message
    \/ verify_accepted_and_sign
    \/ \E valid \in env.sigs : send_sign(valid)

BorrowerStep ==
    \/ on_offer_loan_message
    \/ \E o \in Offers, p \in Preimages : send_escrow_transaction(o, p)
    \/ set_escrow_txid
    \/ set_loan_preimage
    \/ send_initiate_accept
    \/ \E o \in Offers : check_offered_loan(o)
    \/ confirm_escrow
    \/ \E o \in Offers, valid \in env.sigs : accept_loan_contract_offer(o, valid)
    \/ send_accept_loan
    \/ on_sign_message

CheckStep(n) == list_contracts(n) \/ check_signed_contracts(n)

Next ==
    \/ LenderStep
    \/ BorrowerStep
    \/ \E n \in Nodes : CheckStep(n) \/ Kill(n) \/ Restart(n)
    \/ MineBlock

Spec == Init /\ [][Next]_vars

\* A block that deepens one given transaction.
Deepens(k, p) == MineBlock /\ depth'[k][p] > depth[k][p]

\* No loss, good signatures, a borrower who waits for the escrow, no crash.
Calm == ~env.lossy /\ env.sigs = {TRUE} /\ env.patient /\ env.kills = 0

(* Fairness, of a calm environment only.  Blocks keep coming and include    *)
(* what was broadcast.  A running handler goes on (weak fairness of the     *)
(* steps between two effects).  The users keep typing: each line handles    *)
(* every received message before its command, so a handler that can run     *)
(* again and again does run, and the commands the README lists are          *)
(* eventually given (strong fairness, since a periodic check in between     *)
(* disables them for a while).                                              *)
LiveSpec ==
    /\ Spec
    /\ \A k \in TxKinds, p \in Preimages : WF_vars(Calm /\ Deepens(k, p))
    /\ WF_vars(Calm /\ set_escrow_txid) /\ WF_vars(Calm /\ set_loan_preimage)
    /\ WF_vars(Calm /\ send_initiate_accept) /\ WF_vars(Calm /\ confirm_escrow)
    /\ WF_vars(Calm /\ send_accept_loan) /\ WF_vars(Calm /\ verify_accepted_and_sign)
    /\ WF_vars(Calm /\ send_sign(TRUE))
    /\ WF_vars(Calm /\ \E o \in Offers : check_offered_loan(o))
    /\ \A n \in Nodes : /\ WF_vars(Calm /\ check_signed_contracts(n))
                        /\ WF_vars(Calm /\ list_contracts(n))
                        /\ WF_vars(Calm /\ Restart(n))
    /\ SF_vars(Calm /\ (on_offer_loan_message \/ on_sign_message))
    /\ SF_vars(Calm /\ (on_initiate_accept_loan_message \/ on_accept_loan_message))
    /\ SF_vars(Calm /\ \E o \in Offers, p \in Preimages :
                  escrowTxid[o] = NoPreimage /\ send_escrow_transaction(o, p))
    /\ SF_vars(Calm /\ \E o \in Offers : accept_loan_contract_offer(o, TRUE))

----------------------------------------------------------------------------
(* Properties.                                                             *)

(* The lender's side of the swap: stablecoins are paid out under a hash     *)
(* only if an escrow locked by that hash was broadcast on Bitcoin, however  *)
(* often the acceptance is repeated and wherever a node crashes             *)
(* (manager.rs 443 before 739-789 before 898-909).                          *)
PayoutNeedsEscrow == \A p \in Preimages : claims[p] > 0 => escrowFor[p] # NoOffer

(* The borrower's side: the escrow is moved into the collateral             *)
(* transaction only after the stablecoins lent under its hash were paid     *)
(* out, since only the claim reveals the preimage (on_accept_loan_message). *)
CollateralNeedsPayout == \A p \in collateralTxs : claims[p] > 0

(* Both stores agree on a signed loan: when the borrower's contract is      *)
(* Signed or Confirmed, so is the lender's, and both are funded by the same *)
(* collateral transaction, which was broadcast.                             *)
SignedTogether ==
    \A o \in Offers :
        contract[Borrower][o] \in {"Signed", "Confirmed"} =>
            /\ contract[Lender][o] \in {"Signed", "Confirmed"}
            /\ fundTx[o] = escrowTxid[o]
            /\ fundTx[o] \in collateralTxs

(* An offer never consumes two escrows: at most one collateral transaction  *)
(* exists for an offer, even when the acceptance was repeated under a new   *)
(* preimage or the lender crashed between broadcasting and storing it.      *)
OneCollateralPerOffer ==
    \A p, q \in collateralTxs : escrowFor[p] = escrowFor[q] => p = q

(* Past the escrow check the borrower has been paid: the preimage it stored *)
(* was claimed and the escrow it stored is NB_CONFIRMATIONS deep, so the    *)
(* .expect of accept_loan_contract_offer (manager.rs:485-486) cannot fail.  *)
ConfirmedEscrowIsPaid ==
    \A o \in Offers :
        contract[Borrower][o] \in {"OfferedLoanEscrowConfirmed", "Accepted", "Signed"} =>
            /\ escrowTxid[o] # NoPreimage /\ loanPreimage[o] # NoPreimage
            /\ claims[loanPreimage[o]] > 0
            /\ EscrowDepth(o) = NB_CONFIRMATIONS

(* Without crashes or losses, and when the borrower waits for the escrow    *)
(* before listcontracts as the CLI asks, every offered loan ends Confirmed  *)
(* on both sides, also when the acceptance is repeated.                     *)
LoanIsConfirmed ==
    \A o \in Offers :
        Calm /\ contract[Lender][o] = "OfferedLoan" ~>
            contract[Lender][o] = "Confirmed" /\ contract[Borrower][o] = "Confirmed"

(* What the unwrap of manager.rs:871 says: an offer whose escrow txid is    *)
(* stored, when a periodic check can run, has its preimage stored too.      *)
EscrowHasPreimage ==
    \A o \in EscrowedOffers : pc[Borrower].at \in {"idle", "check"} => loanPreimage[o] # NoPreimage

=============================================================================
