------------------------ MODULE LoanProtocolProofs ------------------------
(***************************************************************************)
(* Theorems about LoanProtocol for every set of offers and preimages, any  *)
(* number of killed processes and any loss of messages: type correctness,  *)
(* the two sides of the swap (no payout without an escrow, no move of the  *)
(* escrow without a payout), and the agreement of the two stores (signed   *)
(* together, one collateral transaction per offer, paid when confirmed).   *)
(* The first three rest on SwapInv, about the chains and the messages to   *)
(* the lender; the others on LoanInv as well, about the stores.            *)
(***************************************************************************)
EXTENDS LoanProtocol, SumLemmas

----------------------------------------------------------------------------
(* The amounts the contract moves.                                         *)

\* At valid prices a stable loan amount is a natural number.
LEMMA StableLoanAmountIsNat ==
    ASSUME StableTypeOK, ValidPrices, NEW amount \in Nat
    PROVE  getStableLoanAmount(amount) \in Nat
<1>1. btcPrice \in Nat \ {0} /\ collateralPrice \in Nat \ {0}
  BY PricesAssumption DEF StableTypeOK, ValidPrices
<1>2. amount * collateralPrice * 100 \in Nat
  BY <1>1, ProductIsNat
<1>3. btcPrice * COLLATERAL_RATIO \in Nat \ {0}
  BY <1>1, ProductIsPositive DEF COLLATERAL_RATIO
<1> QED
  BY <1>2, <1>3, Division DEF getStableLoanAmount

\* A covered transfer between two holders leaves every balance a natural number
\* and takes exactly the amount from the payer.
LEMMA TransferKeepsBalances ==
    ASSUME NEW H, NEW bal \in [H -> Nat], NEW from \in H, NEW to \in H, from # to,
           NEW amount \in Nat, bal[from] >= amount
    PROVE  /\ Transfer(bal, from, to, amount) \in [H -> Nat]
           /\ Transfer(bal, from, to, amount)[from] = bal[from] - amount
BY DEF Transfer

----------------------------------------------------------------------------
(* The contract half keeps its types.                                      *)

\* The stable half keeps its types: lendStable.
LEMMA LendStableType ==
    ASSUME StableTypeOK, NEW a \in Accounts, NEW h \in Preimages, NEW amount \in Nat,
           lendStable(a, h, amount)
    PROVE  StableTypeOK'
<1> DEFINE lent == getStableLoanAmount(amount)
<1>1. lent \in Nat
  BY StableLoanAmountIsNat DEF lendStable
<1>2. balances' \in [Accounts \cup {This} -> Nat]
  <2>1. balances \in [Accounts \cup {This} -> Nat] /\ a # This
    BY AccountsAssumption DEF StableTypeOK
  <2>2. balances[a] >= lent /\ balances' = Transfer(balances, a, This, lent)
    BY DEF lendStable, CanPay
  <2> QED
    BY <1>1, <2>1, <2>2, TransferKeepsBalances
<1>3. stableLoans' \in [Preimages -> StableLoan]
  <2> HIDE DEF lent
  <2>1. stableLoans' = [stableLoans EXCEPT ![h] =
            [collateralAmount |-> amount, stableLoanAmount |-> lent,
             borrowerPreimage |-> stableLoans[h].borrowerPreimage]]
    BY DEF lendStable, lent
  <2>2. stableLoans \in [Preimages -> StableLoan]
    BY DEF StableTypeOK
  <2> QED
    BY <1>1, <2>1, <2>2 DEF StableLoan
<1> QED
  BY <1>2, <1>3 DEF lendStable, StableTypeOK, feedVars

\* The stable half keeps its types: claimStable.
LEMMA ClaimStableType ==
    ASSUME StableTypeOK, NEW a \in Accounts, NEW p \in Preimages, claimStable(a, p)
    PROVE  StableTypeOK'
<1>1. p \in Nat /\ stableLoans[p] \in StableLoan /\ a # This
  BY PreimagesAssumption, AccountsAssumption DEF StableTypeOK
<1>2. balances' \in [Accounts \cup {This} -> Nat]
  <2> DEFINE paid == stableLoans[p].stableLoanAmount
  <2>1. paid \in Nat /\ balances \in [Accounts \cup {This} -> Nat]
    BY <1>1 DEF StableTypeOK, StableLoan
  <2>2. balances[This] >= paid /\ balances' = Transfer(balances, This, a, paid)
    BY DEF claimStable, CanPay
  <2> QED
    BY <1>1, <2>1, <2>2, TransferKeepsBalances
<1>3. stableLoans' \in [Preimages -> StableLoan]
  BY <1>1 DEF claimStable, StableTypeOK, StableLoan
<1>4. claims' \in [Preimages -> Nat]
  BY DEF claimStable, StableTypeOK
<1> QED
  BY <1>2, <1>3, <1>4 DEF claimStable, StableTypeOK, feedVars

----------------------------------------------------------------------------
(* Types of the building blocks.                                           *)

\* A position is well typed when its parts are.
LEMMA AtType ==
    ASSUME NEW position \in Positions, NEW o \in Offers \cup {NoOffer},
           NEW e \in Preimages \cup {NoPreimage}, NEW h \in Preimages \cup {NoPreimage},
           NEW v \in BOOLEAN
    PROVE  At(position, o, e, h, v) \in Places
BY Zenon DEF At, Places

\* Idle is a position.
LEMMA IdleType == Idle \in Places
BY Zenon DEF Idle, Places, Positions

\* Moving on inside a handler keeps its arguments.
LEMMA MoveType ==
    ASSUME NEW at \in Places, NEW position \in Positions
    PROVE  [at EXCEPT !.at = position] \in Places
BY Zenon DEF Places

\* A message is well typed when its parts are.
LEMMA MsgType ==
    ASSUME NEW type \in {"OfferLoan", "InitiateAcceptLoan", "AcceptLoan", "Sign"},
           NEW o \in Offers, NEW e \in Preimages \cup {NoPreimage},
           NEW h \in Preimages \cup {NoPreimage}, NEW v \in BOOLEAN
    PROVE  Msg(type, o, e, h, v) \in Messages
BY Zenon DEF Msg, Messages

\* Sending keeps the queues well typed, delivered or lost.
LEMMA SentType ==
    ASSUME TypeOK, NEW n \in Nodes, NEW m \in Messages, inbox' \in Sent(inbox, n, m)
    PROVE  inbox' \in [Nodes -> Seq(Messages)]
<1>1. inbox \in [Nodes -> Seq(Messages)]
  BY DEF TypeOK
<1>2. inbox' = [inbox EXCEPT ![n] = Append(inbox[n], m)] \/ inbox' = inbox
  BY DEF Sent
<1>3. Append(inbox[n], m) \in Seq(Messages)
  BY <1>1
<1> QED
  BY <1>1, <1>2, <1>3

\* A queue that is not empty starts with a message, and stays a queue without it.
LEMMA TakenType ==
    ASSUME TypeOK, NEW n \in Nodes, inbox[n] # <<>>
    PROVE  Head(inbox[n]) \in Messages /\ Taken(n) \in [Nodes -> Seq(Messages)]
<1>1. inbox \in [Nodes -> Seq(Messages)] /\ inbox[n] \in Seq(Messages)
  BY DEF TypeOK
<1>2. Head(inbox[n]) \in Messages /\ Tail(inbox[n]) \in Seq(Messages)
  BY <1>1
<1> QED
  BY <1>1, <1>2 DEF Taken

\* The parts of a message.
LEMMA MessageFields ==
    ASSUME NEW m \in Messages
    PROVE  /\ m.offer \in Offers /\ m.escrow \in Preimages \cup {NoPreimage}
           /\ m.hash \in Preimages \cup {NoPreimage} /\ m.valid \in BOOLEAN
BY Zenon DEF Messages

\* The parts of a position.
LEMMA PlaceFields ==
    ASSUME NEW at \in Places
    PROVE  /\ at.at \in Positions
           /\ at.offer \in Offers \cup {NoOffer} /\ at.escrow \in Preimages \cup {NoPreimage}
           /\ at.hash \in Preimages \cup {NoPreimage} /\ at.valid \in BOOLEAN
BY Zenon DEF Places

\* A panic keeps the types of what it touches.
LEMMA PanicType ==
    ASSUME TypeOK, NEW n \in Nodes, Panic(n)
    PROVE  /\ up' \in [Nodes -> BOOLEAN] /\ pc' \in [Nodes -> Places]
           /\ inbox' \in [Nodes -> Seq(Messages)] /\ todo' \subseteq Offers
<1>1. up' \in [Nodes -> BOOLEAN]
  BY DEF TypeOK, Panic
<1>2. pc' \in [Nodes -> Places]
  BY IdleType DEF TypeOK, Panic
<1>3. inbox' \in [Nodes -> Seq(Messages)]
  <2>1. <<>> \in Seq(Messages)
    OBVIOUS
  <2> QED
    BY <2>1 DEF TypeOK, Panic
<1>4. todo' \subseteq Offers
  BY DEF TypeOK, Panic
<1> QED
  BY <1>1, <1>2, <1>3, <1>4

\* Moving a node's position keeps its type.
LEMMA GotoType ==
    ASSUME TypeOK, NEW n \in Nodes, NEW at \in Places, Goto(n, at)
    PROVE  pc' \in [Nodes -> Places]
BY DEF TypeOK, Goto

\* Updating the state of one contract keeps the type of the stores.
LEMMA SetContractType ==
    ASSUME TypeOK, NEW n \in Nodes, NEW o \in Offers, NEW s \in ContractStates,
           SetContract(n, o, s)
    PROVE  contract' \in [Nodes -> [Offers -> ContractStates]]
<1>1. contract[n] \in [Offers -> ContractStates]
  BY DEF TypeOK
<1>2. [contract[n] EXCEPT ![o] = s] \in [Offers -> ContractStates]
  BY <1>1
<1> QED
  BY <1>2 DEF TypeOK, SetContract

----------------------------------------------------------------------------
(* The inductive invariant.                                                *)

\* A handler between two effects works on an offer.
ActiveOffer == \A n \in Nodes : pc[n].at \notin {"idle", "check"} => pc[n].offer \in Offers

\* While the borrower initiates the acceptance, the escrow is already broadcast.
Initiating ==
    pc[Borrower].at \in {"escrowSent", "txidStored", "preimageStored"} =>
        pc[Borrower].hash \in Preimages /\ escrowFor[pc[Borrower].hash] # NoOffer

\* The acceptance is built from a stored preimage.
Accepting == pc[Borrower].at = "acceptStored" => pc[Borrower].hash \in Preimages

\* What a message to the lender says about its hash.
HonestMessage(m) ==
    /\ m.type = "InitiateAcceptLoan" => m.hash \in Preimages /\ escrowFor[m.hash] # NoOffer
    /\ m.type = "AcceptLoan" => m.hash \in Preimages

Queued == \A i \in 1 .. Len(inbox[Lender]) : HonestMessage(inbox[Lender][i])

\* Lending follows the escrow, a payout follows lending, the preimage is revealed by
\* the payout only.
LentUnderEscrow == \A p \in Preimages : LendRecorded(p) => escrowFor[p] # NoOffer
PaidWasLent == \A p \in Preimages : claims[p] > 0 => LendRecorded(p)
RevealedWasPaid == \A p \in Preimages : stableLoans[p].borrowerPreimage = p => claims[p] > 0

LocalInv == ActiveOffer /\ Initiating /\ Accepting
LedgerInv == LentUnderEscrow /\ PaidWasLent /\ RevealedWasPaid /\ CollateralNeedsPayout

SwapInv == TypeOK /\ LocalInv /\ Queued /\ LedgerInv

\* TypeOK by what the actions change together.
NodeType ==
    /\ up \in [Nodes -> BOOLEAN] /\ pc \in [Nodes -> Places] /\ todo \subseteq Offers
    /\ inbox \in [Nodes -> Seq(Messages)]

StoreType ==
    /\ contract \in [Nodes -> [Offers -> ContractStates]]
    /\ escrowTxid \in [Offers -> Preimages \cup {NoPreimage}]
    /\ loanPreimage \in [Offers -> Preimages \cup {NoPreimage}]
    /\ fundTx \in [Offers -> Preimages \cup {NoPreimage}]

BtcType ==
    /\ escrowFor \in [Preimages -> Offers \cup {NoOffer}]
    /\ depth \in [TxKinds -> [Preimages -> 0..NB_CONFIRMATIONS]]
    /\ collateralTxs \subseteq Preimages

\* TypeOK is the conjunction of its parts.
LEMMA TypeParts ==
    TypeOK <=> StableTypeOK /\ NodeType /\ StoreType /\ BtcType /\ env \in Environment
BY DEF TypeOK, NodeType, StoreType, BtcType

\* The same after a step.
LEMMA TypePartsNext ==
    StableTypeOK' /\ NodeType' /\ StoreType' /\ BtcType' /\ env' \in Environment => TypeOK'
BY DEF TypeOK, NodeType, StoreType, BtcType

\* Parts that a step leaves alone keep their types.
LEMMA UnchangedTypes ==
    ASSUME TypeOK
    PROVE  /\ UNCHANGED stableVars => StableTypeOK'
           /\ UNCHANGED storeVars => StoreType'
           /\ UNCHANGED btcVars => BtcType'
           /\ UNCHANGED env => env' \in Environment
           /\ UNCHANGED nodeVars => NodeType'
BY DEF TypeOK, StableTypeOK, NodeType, StoreType, BtcType, stableVars, storeVars, btcVars, nodeVars

\* The ledger facts only speak of the EVM chain and of two sets of transactions.
LEMMA UnchangedLedger ==
    LedgerInv /\ UNCHANGED <<stableVars, escrowFor, collateralTxs>> => LedgerInv'
BY DEF LedgerInv, LentUnderEscrow, PaidWasLent, RevealedWasPaid, CollateralNeedsPayout,
       LendRecorded, stableVars

\* The queue facts only speak of the lender's queue and of the broadcast escrows.
LEMMA UnchangedQueue ==
    Queued /\ UNCHANGED <<inbox, escrowFor>> => Queued'
BY DEF Queued, HonestMessage

\* The local facts only speak of the positions and of the broadcast escrows.
LEMMA UnchangedLocal ==
    LocalInv /\ UNCHANGED <<pc, escrowFor>> => LocalInv'
BY DEF LocalInv, ActiveOffer, Initiating, Accepting

\* A message the lender can rely on keeps the queue honest, delivered or lost; so does
\* any message to the borrower.
LEMMA SentQueue ==
    ASSUME TypeOK, Queued, NEW n \in Nodes, NEW m \in Messages, UNCHANGED escrowFor,
           n = Lender => HonestMessage(m),
           inbox' \in Sent(inbox, n, m)
    PROVE  Queued'
<1>1. inbox \in [Nodes -> Seq(Messages)] /\ Lender \in Nodes /\ inbox[Lender] \in Seq(Messages)
  BY DEF TypeOK, Nodes
<1>2. inbox' = [inbox EXCEPT ![n] = Append(inbox[n], m)] \/ inbox' = inbox
  BY DEF Sent
<1>3. CASE inbox'[Lender] = inbox[Lender]
  BY <1>3 DEF Queued, HonestMessage
<1>4. CASE n = Lender /\ inbox'[Lender] = Append(inbox[Lender], m)
  <2>1. \A i \in 1 .. Len(inbox'[Lender]) :
            inbox'[Lender][i] = m \/ (i \in 1 .. Len(inbox[Lender]) /\ inbox'[Lender][i] = inbox[Lender][i])
    BY <1>1, <1>4
  <2> QED
    BY <1>4, <2>1 DEF Queued, HonestMessage
<1> QED
  BY <1>1, <1>2, <1>3, <1>4

\* Taking a message out keeps the queue honest.
LEMMA TakenQueue ==
    ASSUME TypeOK, Queued, NEW n \in Nodes, inbox[n] # <<>>, UNCHANGED escrowFor,
           inbox' = Taken(n)
    PROVE  Queued'
<1>1. inbox \in [Nodes -> Seq(Messages)] /\ Lender \in Nodes /\ inbox[Lender] \in Seq(Messages)
  BY DEF TypeOK, Nodes
<1>2. CASE n # Lender
  <2>1. inbox'[Lender] = inbox[Lender]
    BY <1>1, <1>2 DEF Taken
  <2> QED
    BY <2>1 DEF Queued, HonestMessage
<1>3. CASE n = Lender
  <2>1. inbox'[Lender] = Tail(inbox[Lender])
    BY <1>1, <1>3 DEF Taken
  <2>2. \A i \in 1 .. Len(inbox'[Lender]) :
            i + 1 \in 1 .. Len(inbox[Lender]) /\ inbox'[Lender][i] = inbox[Lender][i + 1]
    BY <1>1, <1>3, <2>1
  <2> QED
    BY <2>2 DEF Queued, HonestMessage
<1> QED
  BY <1>2, <1>3

\* A panic only removes positions and messages.
LEMMA PanicInv ==
    ASSUME SwapInv, NEW n \in Nodes, Panic(n), UNCHANGED escrowFor
    PROVE  NodeType' /\ LocalInv' /\ Queued'
<1>1. NodeType'
  BY PanicType DEF SwapInv, NodeType
<1>2. \A k \in Nodes : pc'[k] = Idle \/ pc'[k] = pc[k]
  BY DEF Panic, SwapInv, TypeOK
<1>3. LocalInv'
  <2>1. Borrower \in Nodes /\ Idle.at = "idle"
    BY DEF Nodes, Idle
  <2> QED
    BY <1>2, <2>1 DEF LocalInv, ActiveOffer, Initiating, Accepting, SwapInv
<1>4. inbox'[Lender] = <<>> \/ inbox'[Lender] = inbox[Lender]
  BY DEF Panic, SwapInv, TypeOK, Nodes
<1>5. Queued'
  <2>1. CASE inbox'[Lender] = <<>>
    BY <2>1 DEF Queued
  <2>2. CASE inbox'[Lender] = inbox[Lender]
    BY <2>2 DEF Queued, HonestMessage, SwapInv
  <2> QED
    BY <1>4, <2>1, <2>2
<1> QED
  BY <1>1, <1>3, <1>5

\* A node moves to a position that satisfies the local facts.
LEMMA GotoInv ==
    ASSUME SwapInv, NEW n \in Nodes, NEW at \in Places, Goto(n, at),
           at.at \notin {"idle", "check"} => at.offer \in Offers,
           at.at \in {"escrowSent", "txidStored", "preimageStored"} =>
               at.hash \in Preimages /\ escrowFor'[at.hash] # NoOffer,
           at.at = "acceptStored" => at.hash \in Preimages,
           \A p \in Preimages : escrowFor[p] # NoOffer => escrowFor'[p] # NoOffer
    PROVE  pc' \in [Nodes -> Places] /\ LocalInv'
<1>1. pc' \in [Nodes -> Places]
  BY GotoType DEF SwapInv
<1>2. pc'[n] = at /\ \A k \in Nodes \ {n} : pc'[k] = pc[k]
  BY DEF Goto, SwapInv, TypeOK
<1>3. Borrower \in Nodes
  BY DEF Nodes
<1> QED
  BY <1>1, <1>2, <1>3 DEF LocalInv, ActiveOffer, Initiating, Accepting, SwapInv

----------------------------------------------------------------------------
(* One lemma per action.                                                   *)

\* The lender's offer.
LEMMA SendOfferLoan ==
    ASSUME SwapInv, NEW o \in Offers, send_offer_loan(o) PROVE SwapInv'
<1> DEFINE m == Msg("OfferLoan", o, NoPreimage, NoPreimage, TRUE)
<1>1. m \in Messages /\ Lender \in Nodes /\ Borrower \in Nodes /\ Lender # Borrower /\ TypeOK
  BY MsgType, NodesAssumption DEF Nodes, SwapInv
<1>2. inbox' \in Sent(inbox, Borrower, m) /\ UNCHANGED escrowFor
  BY DEF send_offer_loan, btcVars
<1> HIDE DEF m
<1>3. NodeType'
  <2>1. inbox' \in [Nodes -> Seq(Messages)]
    BY <1>1, <1>2, SentType
  <2> QED
    BY <2>1, <1>1 DEF send_offer_loan, TypeOK, NodeType
<1>4. StoreType'
  BY <1>1, SetContractType DEF send_offer_loan, TypeOK, StoreType, ContractStates
<1>5. StableTypeOK' /\ BtcType' /\ env' \in Environment
  BY <1>1, UnchangedTypes DEF send_offer_loan
<1>6. Queued'
  BY <1>1, <1>2, SentQueue DEF SwapInv
<1>7. LocalInv' /\ LedgerInv'
  BY UnchangedLocal, UnchangedLedger DEF send_offer_loan, SwapInv, btcVars
<1> QED
  BY <1>3, <1>4, <1>5, <1>6, <1>7, TypePartsNext DEF SwapInv

\* The borrower receives the offer, or panics on a repeated one.
LEMMA OnOfferLoan ==
    ASSUME SwapInv, on_offer_loan_message PROVE SwapInv'
<1> DEFINE o == Head(inbox[Borrower]).offer
<1>1. Lender \in Nodes /\ Borrower \in Nodes /\ TypeOK /\ inbox[Borrower] # <<>>
  BY DEF Nodes, SwapInv, on_offer_loan_message, Receives
<1>2. o \in Offers
  BY <1>1, TakenType, MessageFields
<1>3. StableTypeOK' /\ BtcType' /\ env' \in Environment /\ UNCHANGED escrowFor
  BY <1>1, UnchangedTypes DEF on_offer_loan_message, btcVars
<1>4. LedgerInv'
  BY UnchangedLedger DEF on_offer_loan_message, SwapInv, btcVars
<1>5. CASE /\ SetContract(Borrower, o, "OfferedLoan")
           /\ inbox' = Taken(Borrower)
           /\ UNCHANGED <<up, pc, todo>>
  <2>1. StoreType'
    BY <1>1, <1>2, <1>5, SetContractType
       DEF on_offer_loan_message, TypeOK, StoreType, ContractStates
  <2>2. NodeType'
    BY <1>1, <1>5, TakenType DEF TypeOK, NodeType
  <2>3. LocalInv' /\ Queued'
    BY <1>1, <1>3, <1>5, UnchangedLocal, TakenQueue DEF SwapInv
  <2> QED
    BY <1>3, <1>4, <2>1, <2>2, <2>3, TypePartsNext DEF SwapInv
<1>6. CASE Panic(Borrower) /\ UNCHANGED contract
  <2>1. StoreType'
    BY <1>1, <1>6, UnchangedTypes DEF on_offer_loan_message, storeVars
  <2>2. NodeType' /\ LocalInv' /\ Queued'
    BY <1>1, <1>3, <1>6, PanicInv
  <2> QED
    BY <1>3, <1>4, <2>1, <2>2, TypePartsNext DEF SwapInv
<1> QED
  BY <1>5, <1>6 DEF on_offer_loan_message

\* The escrow is broadcast: more hashes have an escrow, none loses it.
LEMMA SendEscrow ==
    ASSUME SwapInv, NEW o \in Offers, NEW p \in Preimages, send_escrow_transaction(o, p)
    PROVE  SwapInv'
<1> DEFINE at == At("escrowSent", o, p, p, TRUE)
<1>1. Borrower \in Nodes /\ TypeOK /\ Lender \in Nodes
  BY DEF Nodes, SwapInv
<1>2. escrowFor \in [Preimages -> Offers \cup {NoOffer}] /\ escrowFor' = [escrowFor EXCEPT ![p] = o]
  BY <1>1 DEF TypeOK, send_escrow_transaction
<1>3. escrowFor'[p] # NoOffer /\ \A q \in Preimages : escrowFor[q] # NoOffer => escrowFor'[q] # NoOffer
  BY <1>2, NoOfferAssumption
<1>4. at \in Places /\ at.at = "escrowSent" /\ at.offer = o /\ at.hash = p
  BY AtType DEF Positions, At
<1>5. pc' \in [Nodes -> Places] /\ LocalInv'
  <2> HIDE DEF at
  <2>1. Goto(Borrower, at)
    BY DEF send_escrow_transaction, at
  <2> QED
    BY <1>1, <1>3, <1>4, <2>1, GotoInv
<1>6. NodeType'
  BY <1>1, <1>5 DEF NodeType, TypeOK, send_escrow_transaction
<1>7. BtcType'
  BY <1>1, <1>2 DEF BtcType, TypeOK, send_escrow_transaction
<1>8. StableTypeOK' /\ StoreType' /\ env' \in Environment
  BY <1>1, UnchangedTypes DEF send_escrow_transaction
<1>9. Queued'
  <2>1. inbox' = inbox
    BY DEF send_escrow_transaction
  <2> QED
    BY <1>3, <2>1 DEF Queued, HonestMessage, SwapInv
<1>10. LedgerInv'
  <2>1. UNCHANGED <<stableVars, collateralTxs>>
    BY DEF send_escrow_transaction
  <2> QED
    BY <1>3, <2>1 DEF LedgerInv, LentUnderEscrow, PaidWasLent, RevealedWasPaid,
       CollateralNeedsPayout, LendRecorded, stableVars, SwapInv
<1> QED
  BY <1>5, <1>6, <1>7, <1>8, <1>9, <1>10, TypePartsNext DEF SwapInv

\* A step that touches neither chain keeps what is said about them.
LEMMA QuietStep ==
    ASSUME SwapInv, UNCHANGED <<stableVars, btcVars, env>>
    PROVE  /\ StableTypeOK' /\ BtcType' /\ env' \in Environment /\ LedgerInv'
           /\ UNCHANGED escrowFor
BY UnchangedTypes, UnchangedLedger DEF SwapInv, btcVars

\* The two writes to the store that follow the broadcast move on one position each.
LEMMA StoreWrites ==
    ASSUME SwapInv, set_escrow_txid \/ set_loan_preimage PROVE SwapInv'
<1> DEFINE at == pc[Borrower]
           next == IF at.at = "escrowSent" THEN "txidStored" ELSE "preimageStored"
           to == [at EXCEPT !.at = next]
<1>1. Borrower \in Nodes /\ TypeOK /\ at \in Places
  BY DEF Nodes, SwapInv, TypeOK
<1>2. at.at \in {"escrowSent", "txidStored"} /\ Goto(Borrower, to)
  BY DEF set_escrow_txid, set_loan_preimage
<1>3. /\ StableTypeOK' /\ BtcType' /\ env' \in Environment /\ LedgerInv'
      /\ UNCHANGED escrowFor /\ UNCHANGED <<up, todo, inbox, contract, fundTx>>
  <2>1. UNCHANGED <<stableVars, btcVars, env>> /\ UNCHANGED <<up, todo, inbox, contract, fundTx>>
    BY DEF set_escrow_txid, set_loan_preimage
  <2> QED
    BY <2>1, QuietStep
<1>4. next \in {"txidStored", "preimageStored"} /\ next \in Positions
  BY DEF Positions
<1>5. to \in Places /\ to.at = next /\ to.offer = at.offer /\ to.hash = at.hash
  <2> HIDE DEF next
  <2>1. to \in Places
    BY <1>1, <1>4, MoveType
  <2> QED
    BY <1>1, <2>1, Zenon DEF Places
<1>6. /\ at.offer \in Offers /\ at.hash \in Preimages /\ escrowFor[at.hash] # NoOffer
      /\ at.escrow \in Preimages \cup {NoPreimage}
  BY <1>1, <1>2, PlaceFields DEF SwapInv, LocalInv, ActiveOffer, Initiating
<1>7. pc' \in [Nodes -> Places] /\ LocalInv'
  <2> HIDE DEF to, next, at
  <2> QED
    BY <1>1, <1>2, <1>3, <1>4, <1>5, <1>6, GotoInv
<1>8. NodeType'
  BY <1>1, <1>3, <1>7 DEF NodeType, TypeOK
<1>9. StoreType'
  BY <1>1, <1>3, <1>6 DEF StoreType, TypeOK, set_escrow_txid, set_loan_preimage
<1>10. Queued'
  BY <1>3, UnchangedQueue DEF SwapInv
<1> QED
  BY <1>3, <1>7, <1>8, <1>9, <1>10, TypePartsNext DEF SwapInv

\* Going back to the loop after a message was sent.
LEMMA BackToIdle ==
    ASSUME SwapInv, NEW n \in Nodes, Goto(n, Idle), UNCHANGED escrowFor
    PROVE  pc' \in [Nodes -> Places] /\ LocalInv'
<1>1. Idle \in Places /\ Idle.at = "idle"
  BY IdleType DEF Idle
<1> HIDE DEF Idle
<1> QED
  BY <1>1, GotoInv

\* The borrower's messages to the lender carry hashes it can stand for.
LEMMA SendsToLender ==
    ASSUME SwapInv, send_initiate_accept \/ send_accept_loan PROVE SwapInv'
<1> DEFINE at == pc[Borrower]
           type == IF at.at = "preimageStored" THEN "InitiateAcceptLoan" ELSE "AcceptLoan"
           valid == IF at.at = "preimageStored" THEN TRUE ELSE at.valid
           m == Msg(type, at.offer, at.escrow, at.hash, valid)
<1>1. Lender \in Nodes /\ Borrower \in Nodes /\ TypeOK /\ at \in Places
  BY DEF Nodes, SwapInv, TypeOK
<1>2. at.at \in {"preimageStored", "acceptStored"}
  BY DEF send_initiate_accept, send_accept_loan
<1>3. inbox' \in Sent(inbox, Lender, m)
  BY DEF send_initiate_accept, send_accept_loan
<1>4. /\ Goto(Borrower, Idle) /\ UNCHANGED <<up, todo>> /\ UNCHANGED storeVars
      /\ UNCHANGED <<stableVars, btcVars, env>>
  BY DEF send_initiate_accept, send_accept_loan
<1>5. at.offer \in Offers /\ at.hash \in Preimages
  BY <1>1, <1>2 DEF SwapInv, LocalInv, ActiveOffer, Initiating, Accepting
<1>6. at.at = "preimageStored" => escrowFor[at.hash] # NoOffer
  BY DEF SwapInv, LocalInv, Initiating
<1>7. m \in Messages /\ HonestMessage(m)
  <2>1. at.escrow \in Preimages \cup {NoPreimage} /\ at.valid \in BOOLEAN
    BY <1>1, PlaceFields
  <2>2. valid \in BOOLEAN /\ type \in {"InitiateAcceptLoan", "AcceptLoan"}
    BY <2>1
  <2>3. m.type = type /\ m.hash = at.hash
    BY DEF Msg
  <2>4. m \in Messages
    <3> HIDE DEF type, valid, at
    <3> QED
      BY <1>5, <2>1, <2>2, MsgType
  <2> QED
    BY <1>2, <1>5, <1>6, <2>3, <2>4 DEF HonestMessage
<1> HIDE DEF m
<1>8. /\ StableTypeOK' /\ BtcType' /\ env' \in Environment /\ LedgerInv' /\ StoreType'
      /\ UNCHANGED escrowFor
  BY <1>1, <1>4, QuietStep, UnchangedTypes
<1>9. pc' \in [Nodes -> Places] /\ LocalInv'
  BY <1>1, <1>4, <1>8, BackToIdle
<1>10. inbox' \in [Nodes -> Seq(Messages)] /\ Queued'
  BY <1>1, <1>3, <1>7, <1>8, SentType, SentQueue DEF SwapInv
<1>11. NodeType'
  BY <1>1, <1>4, <1>9, <1>10 DEF NodeType, TypeOK
<1> QED
  BY <1>8, <1>9, <1>10, <1>11, TypePartsNext DEF SwapInv

\* lendStable under an escrowed hash keeps the ledger facts.
LEMMA LendLedger ==
    ASSUME SwapInv, NEW h \in Preimages, escrowFor[h] # NoOffer,
           lendStable(Lender, h, TotalCollateral), UNCHANGED <<escrowFor, collateralTxs>>
    PROVE  StableTypeOK' /\ LedgerInv'
<1>1. Lender \in Accounts /\ TotalCollateral \in Nat /\ StableTypeOK
  BY NodesAssumption, TotalCollateralAssumption DEF Nodes, SwapInv, TypeOK
<1>2. StableTypeOK'
  BY <1>1, LendStableType
<1>3. claims' = claims
  BY DEF lendStable
<1>4. \A p \in Preimages : /\ stableLoans'[p].borrowerPreimage = stableLoans[p].borrowerPreimage
                           /\ p # h => stableLoans'[p] = stableLoans[p]
                           /\ stableLoans'[h].collateralAmount = TotalCollateral
  <2> DEFINE lent == getStableLoanAmount(TotalCollateral)
  <2>1. stableLoans' = [stableLoans EXCEPT ![h] =
            [collateralAmount |-> TotalCollateral, stableLoanAmount |-> lent,
             borrowerPreimage |-> stableLoans[h].borrowerPreimage]]
    BY DEF lendStable
  <2> HIDE DEF lent
  <2> QED
    BY <1>1, <2>1 DEF StableTypeOK, StableLoan
<1>5. LedgerInv
  BY DEF SwapInv
<1>6. LentUnderEscrow' /\ RevealedWasPaid' /\ CollateralNeedsPayout'
  BY <1>3, <1>4, <1>5 DEF LedgerInv, LentUnderEscrow, RevealedWasPaid, CollateralNeedsPayout,
     LendRecorded
<1>7. PaidWasLent'
  BY <1>3, <1>4, <1>5, TotalCollateralAssumption DEF LedgerInv, PaidWasLent, LendRecorded
<1> QED
  BY <1>2, <1>6, <1>7 DEF LedgerInv

\* claimStable keeps the ledger facts: it needs a recorded loan, pays, then reveals.
LEMMA ClaimLedger ==
    ASSUME SwapInv, NEW h \in Preimages, claimStable(Borrower, h),
           UNCHANGED <<escrowFor, collateralTxs>>
    PROVE  StableTypeOK' /\ LedgerInv'
<1>1. Borrower \in Accounts /\ StableTypeOK
  BY NodesAssumption DEF Nodes, SwapInv, TypeOK
<1>2. StableTypeOK'
  BY <1>1, ClaimStableType
<1>3. /\ \A p \in Preimages : claims'[p] >= claims[p] /\ (p # h => claims'[p] = claims[p])
      /\ claims'[h] > 0
      /\ stableLoans[h].collateralAmount > 0
  BY <1>1 DEF claimStable, StableTypeOK
<1>4. \A p \in Preimages :
          /\ stableLoans'[p].collateralAmount = stableLoans[p].collateralAmount
          /\ p # h => stableLoans'[p] = stableLoans[p]
  BY <1>1, Zenon DEF claimStable, StableTypeOK, StableLoan
<1>5. LedgerInv /\ collateralTxs \subseteq Preimages /\ \A p \in Preimages : claims[p] \in Nat /\ claims'[p] \in Nat
  BY <1>2 DEF SwapInv, TypeOK, StableTypeOK
<1>6. LentUnderEscrow' /\ PaidWasLent'
  BY <1>3, <1>4, <1>5 DEF LedgerInv, LentUnderEscrow, PaidWasLent, LendRecorded
<1>7. RevealedWasPaid' /\ CollateralNeedsPayout'
  BY <1>3, <1>4, <1>5 DEF LedgerInv, RevealedWasPaid, CollateralNeedsPayout
<1> QED
  BY <1>2, <1>6, <1>7 DEF LedgerInv

\* The lender lends under the hash of an honest message, or panics.
LEMMA OnInitiateAccept ==
    ASSUME SwapInv, on_initiate_accept_loan_message PROVE SwapInv'
<1> DEFINE m == Head(inbox[Lender])
<1>1. Lender \in Nodes /\ Borrower \in Nodes /\ TypeOK /\ inbox[Lender] # <<>>
      /\ m.type = "InitiateAcceptLoan"
  BY DEF Nodes, SwapInv, on_initiate_accept_loan_message, Receives
<1>2. m.hash \in Preimages /\ escrowFor[m.hash] # NoOffer
  <2>1. inbox[Lender] \in Seq(Messages)
    BY <1>1 DEF TypeOK
  <2>2. 1 \in 1 .. Len(inbox[Lender]) /\ m = inbox[Lender][1]
    BY <1>1, <2>1
  <2> QED
    BY <1>1, <2>2 DEF SwapInv, Queued, HonestMessage
<1>3. /\ StoreType' /\ BtcType' /\ env' \in Environment /\ UNCHANGED <<escrowFor, collateralTxs>>
  BY <1>1, UnchangedTypes DEF on_initiate_accept_loan_message, btcVars
<1>4. CASE /\ lendStable(Lender, m.hash, TotalCollateral)
           /\ inbox' = Taken(Lender)
           /\ UNCHANGED <<up, pc, todo>>
  <2>1. StableTypeOK' /\ LedgerInv'
    BY <1>2, <1>3, <1>4, LendLedger
  <2>2. NodeType'
    BY <1>1, <1>4, TakenType DEF TypeOK, NodeType
  <2>3. LocalInv' /\ Queued'
    BY <1>1, <1>3, <1>4, UnchangedLocal, TakenQueue DEF SwapInv
  <2> QED
    BY <1>3, <2>1, <2>2, <2>3, TypePartsNext DEF SwapInv
<1>5. CASE Panic(Lender) /\ UNCHANGED stableVars
  <2>1. NodeType' /\ LocalInv' /\ Queued'
    BY <1>1, <1>3, <1>5, PanicInv
  <2>2. StableTypeOK' /\ LedgerInv'
    BY <1>1, <1>3, <1>5, UnchangedTypes, UnchangedLedger DEF SwapInv
  <2> QED
    BY <1>3, <2>1, <2>2, TypePartsNext DEF SwapInv
<1> QED
  BY <1>4, <1>5 DEF on_initiate_accept_loan_message

\* The position of a running periodic check.
LEMMA CheckPlace ==
    LET at == At("check", NoOffer, NoPreimage, NoPreimage, TRUE)
    IN  at \in Places /\ at.at = "check"
BY AtType DEF Positions, At

\* listcontracts starts a periodic check.
LEMMA ListContracts ==
    ASSUME SwapInv, NEW n \in Nodes, list_contracts(n) PROVE SwapInv'
<1> DEFINE at == At("check", NoOffer, NoPreimage, NoPreimage, TRUE)
<1>1. TypeOK /\ at \in Places /\ at.at = "check" /\ Goto(n, at)
  BY CheckPlace DEF SwapInv, list_contracts
<1> HIDE DEF at
<1>2. /\ StableTypeOK' /\ BtcType' /\ env' \in Environment /\ LedgerInv' /\ StoreType'
      /\ UNCHANGED escrowFor
  BY <1>1, QuietStep, UnchangedTypes DEF list_contracts
<1>3. pc' \in [Nodes -> Places] /\ LocalInv'
  BY <1>1, <1>2, GotoInv
<1>4. NodeType'
  BY <1>1, <1>3 DEF NodeType, TypeOK, list_contracts, EscrowedOffers
<1>5. Queued'
  BY <1>2, UnchangedQueue DEF list_contracts, SwapInv
<1> QED
  BY <1>2, <1>3, <1>4, <1>5, TypePartsNext DEF SwapInv

\* One turn of the check claims, skips or panics.
LEMMA CheckOfferedLoan ==
    ASSUME SwapInv, NEW o \in Offers, check_offered_loan(o) PROVE SwapInv'
<1> DEFINE p == loanPreimage[o]
           at == At("claimed", o, escrowTxid[o], p, TRUE)
<1>1. TypeOK /\ Borrower \in Nodes
  BY DEF SwapInv, Nodes
<1>2. /\ StoreType' /\ BtcType' /\ env' \in Environment /\ UNCHANGED <<escrowFor, collateralTxs>>
  BY <1>1, UnchangedTypes DEF check_offered_loan, btcVars
<1>3. CASE /\ p # NoPreimage
           /\ claimStable(Borrower, p)
           /\ Goto(Borrower, at)
           /\ UNCHANGED <<up, todo, inbox>>
  <2>1. p \in Preimages /\ escrowTxid[o] \in Preimages \cup {NoPreimage}
    BY <1>1, <1>3 DEF TypeOK
  <2>2. StableTypeOK' /\ LedgerInv'
    BY <1>2, <1>3, <2>1, ClaimLedger
  <2>3. at \in Places /\ at.at = "claimed" /\ at.offer = o
    BY <2>1, AtType DEF Positions, At
  <2>4. pc' \in [Nodes -> Places] /\ LocalInv'
    <3> HIDE DEF at
    <3> QED
      BY <1>1, <1>2, <1>3, <2>3, GotoInv
  <2>5. NodeType'
    BY <1>1, <1>3, <2>4 DEF NodeType, TypeOK
  <2>6. Queued'
    BY <1>2, <1>3, UnchangedQueue DEF SwapInv
  <2> QED
    BY <1>2, <2>2, <2>4, <2>5, <2>6, TypePartsNext DEF SwapInv
<1>4. CASE todo' = todo \ {o} /\ UNCHANGED <<stableVars, up, pc, inbox>>
  <2>1. NodeType'
    BY <1>1, <1>4 DEF NodeType, TypeOK
  <2>2. StableTypeOK' /\ LedgerInv' /\ LocalInv' /\ Queued'
    BY <1>1, <1>2, <1>4, UnchangedTypes, UnchangedLedger, UnchangedLocal, UnchangedQueue
       DEF SwapInv
  <2> QED
    BY <1>2, <2>1, <2>2, TypePartsNext DEF SwapInv
<1>5. CASE Panic(Borrower) /\ UNCHANGED stableVars
  <2>1. NodeType' /\ LocalInv' /\ Queued'
    BY <1>1, <1>2, <1>5, PanicInv
  <2>2. StableTypeOK' /\ LedgerInv'
    BY <1>1, <1>2, <1>5, UnchangedTypes, UnchangedLedger DEF SwapInv
  <2> QED
    BY <1>2, <2>1, <2>2, TypePartsNext DEF SwapInv
<1> QED
  BY <1>3, <1>4, <1>5 DEF check_offered_loan

\* The rest of the turn, and the end of the check, only touch the stored states.
LEMMA CheckWrites ==
    ASSUME SwapInv, confirm_escrow \/ \E n \in Nodes : check_signed_contracts(n)
    PROVE  SwapInv'
<1>1. TypeOK /\ Borrower \in Nodes
  BY DEF SwapInv, Nodes
<1>2. /\ UNCHANGED <<stableVars, btcVars, env>>
      /\ UNCHANGED <<up, inbox, escrowTxid, loanPreimage, fundTx>>
  BY DEF confirm_escrow, check_signed_contracts
<1>3. StableTypeOK' /\ BtcType' /\ env' \in Environment /\ LedgerInv' /\ UNCHANGED escrowFor
  BY <1>2, QuietStep
<1>4. contract' \in [Nodes -> [Offers -> ContractStates]]
  <2>1. CASE confirm_escrow
    <3> DEFINE o == pc[Borrower].offer
               confirmed == [contract[Borrower] EXCEPT ![o] = "OfferedLoanEscrowConfirmed"]
    <3>1. contract[Borrower] \in [Offers -> ContractStates]
      BY <1>1 DEF TypeOK
    <3>2. confirmed \in [Offers -> ContractStates]
      BY <3>1 DEF ContractStates
    <3>3. contract' = contract \/ contract' = [contract EXCEPT ![Borrower] = confirmed]
      BY <2>1 DEF confirm_escrow
    <3> QED
      BY <1>1, <3>2, <3>3 DEF TypeOK
  <2>2. ASSUME NEW n \in Nodes, check_signed_contracts(n)
        PROVE  contract' \in [Nodes -> [Offers -> ContractStates]]
    <3> DEFINE checked == [o \in Offers |->
                   IF contract[n][o] = "Signed" /\ FundDepth(n, o) >= NB_CONFIRMATIONS
                   THEN "Confirmed" ELSE contract[n][o]]
    <3>1. checked \in [Offers -> ContractStates]
      BY <1>1 DEF TypeOK, ContractStates
    <3>2. contract' = [contract EXCEPT ![n] = checked]
      BY <2>2 DEF check_signed_contracts
    <3> HIDE DEF checked
    <3> QED
      BY <1>1, <3>1, <3>2 DEF TypeOK
  <2> QED
    BY <2>1, <2>2
<1>5. pc' \in [Nodes -> Places] /\ LocalInv' /\ todo' \subseteq Offers
  <2>1. CASE confirm_escrow
    <3> DEFINE at == At("check", NoOffer, NoPreimage, NoPreimage, TRUE)
    <3>1. at \in Places /\ at.at = "check" /\ Goto(Borrower, at)
      BY <2>1, CheckPlace DEF confirm_escrow
    <3>2. todo' \subseteq Offers
      BY <1>1, <2>1 DEF confirm_escrow, TypeOK
    <3> HIDE DEF at
    <3> QED
      BY <1>1, <1>3, <3>1, <3>2, GotoInv
  <2>2. ASSUME NEW n \in Nodes, check_signed_contracts(n)
        PROVE  pc' \in [Nodes -> Places] /\ LocalInv' /\ todo' \subseteq Offers
    BY <1>1, <1>3, <2>2, BackToIdle DEF check_signed_contracts, TypeOK
  <2> QED
    BY <2>1, <2>2
<1>6. NodeType' /\ StoreType'
  BY <1>1, <1>2, <1>4, <1>5 DEF NodeType, StoreType, TypeOK
<1>7. Queued'
  BY <1>2, <1>3, UnchangedQueue DEF SwapInv
<1> QED
  BY <1>3, <1>5, <1>6, <1>7, TypePartsNext DEF SwapInv

\* finishacceptloanoffer builds the acceptance from the stored preimage.
LEMMA AcceptLoanContractOffer ==
    ASSUME SwapInv, NEW o \in Offers, NEW valid \in BOOLEAN, accept_loan_contract_offer(o, valid)
    PROVE  SwapInv'
<1> DEFINE at == accept_loan_contract(o, valid)
<1>1. TypeOK /\ Borrower \in Nodes
  BY DEF SwapInv, Nodes
<1>2. /\ StableTypeOK' /\ BtcType' /\ env' \in Environment /\ LedgerInv' /\ UNCHANGED escrowFor
      /\ UNCHANGED <<up, todo, inbox, escrowTxid, loanPreimage, fundTx>>
  <2>1. /\ UNCHANGED <<stableVars, btcVars, env>>
        /\ UNCHANGED <<up, todo, inbox, escrowTxid, loanPreimage, fundTx>>
    BY DEF accept_loan_contract_offer
  <2> QED
    BY <2>1, QuietStep
<1>3. loanPreimage[o] \in Preimages /\ escrowTxid[o] \in Preimages \cup {NoPreimage}
  BY <1>1 DEF TypeOK, accept_loan_contract_offer
<1>4. /\ at \in Places /\ at.at = "acceptStored" /\ at.offer = o /\ at.hash = loanPreimage[o]
      /\ Goto(Borrower, at)
  BY <1>3, AtType DEF accept_loan_contract, Positions, At, accept_loan_contract_offer
<1>5. pc' \in [Nodes -> Places] /\ LocalInv'
  <2> HIDE DEF at
  <2> QED
    BY <1>1, <1>2, <1>3, <1>4, GotoInv
<1>6. contract' \in [Nodes -> [Offers -> ContractStates]]
  BY <1>1, SetContractType DEF accept_loan_contract_offer, ContractStates
<1>7. NodeType' /\ StoreType'
  BY <1>1, <1>2, <1>5, <1>6 DEF NodeType, StoreType, TypeOK
<1>8. Queued'
  BY <1>2, UnchangedQueue DEF SwapInv
<1> QED
  BY <1>2, <1>5, <1>7, <1>8, TypePartsNext DEF SwapInv

\* The lender moves the escrow: the preimage it completes the witness with was read
\* from the EVM chain, where only a payout writes it.
LEMMA OnAcceptLoan ==
    ASSUME SwapInv, on_accept_loan_message PROVE SwapInv'
<1> DEFINE m == Head(inbox[Lender])
           at == At("collateralSent", m.offer, m.escrow, m.hash, m.valid)
<1>1. Lender \in Nodes /\ TypeOK /\ inbox[Lender] # <<>> /\ m.type = "AcceptLoan"
  BY DEF Nodes, SwapInv, on_accept_loan_message, Receives
<1>2. m.hash \in Preimages
  <2>1. inbox[Lender] \in Seq(Messages)
    BY <1>1 DEF TypeOK
  <2>2. 1 \in 1 .. Len(inbox[Lender]) /\ m = inbox[Lender][1]
    BY <1>1, <2>1
  <2> QED
    BY <1>1, <2>2 DEF SwapInv, Queued, HonestMessage
<1>3. StableTypeOK' /\ StoreType' /\ env' \in Environment /\ UNCHANGED <<stableVars, escrowFor, depth>>
  BY <1>1, UnchangedTypes DEF on_accept_loan_message
<1>4. CASE /\ SpendIsValid(m)
           /\ collateralTxs' = collateralTxs \cup {m.escrow}
           /\ inbox' = Taken(Lender)
           /\ Goto(Lender, at)
           /\ UNCHANGED <<up, todo>>
  <2>1. m.escrow = m.hash /\ stableLoans[m.hash].borrowerPreimage = m.hash
    BY <1>4 DEF SpendIsValid
  <2>2. claims[m.escrow] > 0
    BY <1>2, <2>1 DEF SwapInv, LedgerInv, RevealedWasPaid
  <2>3. LedgerInv' /\ BtcType'
    <3>1. CollateralNeedsPayout'
      BY <1>3, <1>4, <2>2 DEF SwapInv, LedgerInv, CollateralNeedsPayout, stableVars
    <3>2. LentUnderEscrow' /\ PaidWasLent' /\ RevealedWasPaid'
      BY <1>3 DEF SwapInv, LedgerInv, LentUnderEscrow, PaidWasLent, RevealedWasPaid,
         LendRecorded, stableVars
    <3>3. BtcType'
      BY <1>1, <1>2, <1>3, <1>4, <2>1 DEF BtcType, TypeOK
    <3> QED
      BY <3>1, <3>2, <3>3 DEF LedgerInv
  <2>4. at \in Places /\ at.at = "collateralSent" /\ at.offer \in Offers
    <3>1. /\ m.offer \in Offers /\ m.escrow \in Preimages \cup {NoPreimage}
          /\ m.hash \in Preimages \cup {NoPreimage} /\ m.valid \in BOOLEAN
      BY <1>1, TakenType, MessageFields
    <3>2. "collateralSent" \in Positions /\ at.at = "collateralSent" /\ at.offer = m.offer
      BY DEF Positions, At
    <3> HIDE DEF m
    <3> QED
      BY <3>1, <3>2, AtType
  <2>5. pc' \in [Nodes -> Places] /\ LocalInv'
    <3> HIDE DEF at
    <3> QED
      BY <1>1, <1>3, <1>4, <2>4, GotoInv
  <2>6. NodeType'
    BY <1>1, <1>4, <2>5, TakenType DEF TypeOK, NodeType
  <2>7. Queued'
    BY <1>1, <1>3, <1>4, TakenQueue DEF SwapInv
  <2> QED
    BY <1>3, <2>3, <2>5, <2>6, <2>7, TypePartsNext DEF SwapInv
<1>5. CASE Panic(Lender) /\ UNCHANGED collateralTxs
  <2>1. NodeType' /\ LocalInv' /\ Queued'
    BY <1>1, <1>3, <1>5, PanicInv
  <2>2. BtcType' /\ LedgerInv'
    BY <1>1, <1>3, <1>5, UnchangedTypes, UnchangedLedger DEF SwapInv, btcVars
  <2> QED
    BY <1>3, <2>1, <2>2, TypePartsNext DEF SwapInv
<1> QED
  BY <1>4, <1>5 DEF on_accept_loan_message

\* The lender verifies and stores the signed contract, or stores the failure.
LEMMA VerifyAcceptedAndSign ==
    ASSUME SwapInv, verify_accepted_and_sign PROVE SwapInv'
<1> DEFINE at == pc[Lender]
           to == [at EXCEPT !.at = "signStored"]
<1>1. Lender \in Nodes /\ TypeOK /\ at \in Places /\ at.at = "collateralSent"
  BY DEF Nodes, SwapInv, TypeOK, verify_accepted_and_sign
<1>2. at.offer \in Offers /\ at.escrow \in Preimages \cup {NoPreimage}
  BY <1>1, PlaceFields DEF SwapInv, LocalInv, ActiveOffer
<1>3. /\ StableTypeOK' /\ BtcType' /\ env' \in Environment /\ LedgerInv' /\ UNCHANGED escrowFor
      /\ UNCHANGED <<escrowTxid, loanPreimage>>
  <2>1. UNCHANGED <<stableVars, btcVars, env>> /\ UNCHANGED <<escrowTxid, loanPreimage>>
    BY DEF verify_accepted_and_sign
  <2> QED
    BY <2>1, QuietStep
<1>4. CASE /\ SetContract(Lender, at.offer, "Signed")
           /\ fundTx' = [fundTx EXCEPT ![at.offer] = at.escrow]
           /\ Goto(Lender, to)
           /\ UNCHANGED <<up, todo, inbox>>
  <2>1. to \in Places /\ to.at = "signStored" /\ to.offer = at.offer
    <3>1. "signStored" \in Positions
      BY DEF Positions
    <3>2. to \in Places
      BY <1>1, <3>1, MoveType
    <3> QED
      BY <1>1, <3>2, Zenon DEF Places
  <2>2. pc' \in [Nodes -> Places] /\ LocalInv'
    <3> HIDE DEF to
    <3> QED
      BY <1>1, <1>2, <1>3, <1>4, <2>1, GotoInv
  <2>3. StoreType'
    BY <1>1, <1>2, <1>3, <1>4, SetContractType DEF StoreType, TypeOK, ContractStates
  <2>4. NodeType' /\ Queued'
    BY <1>1, <1>3, <1>4, <2>2, UnchangedQueue DEF NodeType, TypeOK, SwapInv
  <2> QED
    BY <1>3, <2>2, <2>3, <2>4, TypePartsNext DEF SwapInv
<1>5. CASE SetContract(Lender, at.offer, "FailedAccept") /\ Panic(Lender) /\ UNCHANGED fundTx
  <2>1. StoreType'
    BY <1>1, <1>2, <1>3, <1>5, SetContractType DEF StoreType, TypeOK, ContractStates
  <2>2. NodeType' /\ LocalInv' /\ Queued'
    BY <1>1, <1>3, <1>5, PanicInv
  <2> QED
    BY <1>3, <2>1, <2>2, TypePartsNext DEF SwapInv
<1> QED
  BY <1>4, <1>5 DEF verify_accepted_and_sign

\* The lender answers with its signatures.
LEMMA SendSign ==
    ASSUME SwapInv, NEW valid \in BOOLEAN, send_sign(valid) PROVE SwapInv'
<1> DEFINE at == pc[Lender]
           m == Msg("Sign", at.offer, at.escrow, at.hash, valid)
<1>1. /\ Lender \in Nodes /\ Borrower \in Nodes /\ Lender # Borrower /\ TypeOK
      /\ at \in Places /\ at.at = "signStored"
  BY NodesAssumption DEF Nodes, SwapInv, TypeOK, send_sign
<1>2. /\ at.offer \in Offers /\ at.escrow \in Preimages \cup {NoPreimage}
      /\ at.hash \in Preimages \cup {NoPreimage}
  BY <1>1, PlaceFields DEF SwapInv, LocalInv, ActiveOffer
<1>3. /\ inbox' \in Sent(inbox, Borrower, m) /\ Goto(Lender, Idle)
      /\ UNCHANGED <<up, todo>> /\ UNCHANGED storeVars
      /\ UNCHANGED <<stableVars, btcVars, env>>
  BY DEF send_sign
<1>4. m \in Messages
  <2> HIDE DEF at
  <2> QED
    BY <1>2, MsgType
<1> HIDE DEF m
<1>5. /\ StableTypeOK' /\ BtcType' /\ env' \in Environment /\ LedgerInv' /\ StoreType'
      /\ UNCHANGED escrowFor
  BY <1>1, <1>3, QuietStep, UnchangedTypes
<1>6. pc' \in [Nodes -> Places] /\ LocalInv'
  BY <1>1, <1>3, <1>5, BackToIdle
<1>7. inbox' \in [Nodes -> Seq(Messages)] /\ Queued'
  BY <1>1, <1>3, <1>4, <1>5, SentType, SentQueue DEF SwapInv
<1>8. NodeType'
  BY <1>1, <1>3, <1>6, <1>7 DEF NodeType, TypeOK
<1> QED
  BY <1>5, <1>6, <1>7, <1>8, TypePartsNext DEF SwapInv

\* The borrower stores the signed contract, stores the failure, or panics.
LEMMA OnSign ==
    ASSUME SwapInv, on_sign_message PROVE SwapInv'
<1> DEFINE o == Head(inbox[Borrower]).offer
<1>1. Borrower \in Nodes /\ TypeOK /\ inbox[Borrower] # <<>>
  BY DEF Nodes, SwapInv, on_sign_message, Receives
<1>2. o \in Offers
  BY <1>1, TakenType, MessageFields
<1>3. /\ StableTypeOK' /\ BtcType' /\ env' \in Environment /\ LedgerInv' /\ UNCHANGED escrowFor
      /\ UNCHANGED <<escrowTxid, loanPreimage, fundTx>>
  <2>1. UNCHANGED <<stableVars, btcVars, env>> /\ UNCHANGED <<escrowTxid, loanPreimage, fundTx>>
    BY DEF on_sign_message
  <2> QED
    BY <2>1, QuietStep
<1>4. StoreType'
  <2>1. \/ SetContract(Borrower, o, "Signed")
        \/ SetContract(Borrower, o, "FailedSign")
        \/ UNCHANGED contract
    BY DEF on_sign_message
  <2>2. contract' \in [Nodes -> [Offers -> ContractStates]]
    <3>1. "Signed" \in ContractStates /\ "FailedSign" \in ContractStates
      BY DEF ContractStates
    <3> HIDE DEF o
    <3> QED
      BY <1>1, <1>2, <2>1, <3>1, SetContractType DEF TypeOK
  <2> QED
    BY <1>1, <1>3, <2>2 DEF StoreType, TypeOK
<1>5. CASE inbox' = Taken(Borrower) /\ UNCHANGED <<up, pc, todo>>
  <2>1. NodeType'
    BY <1>1, <1>5, TakenType DEF TypeOK, NodeType
  <2>2. LocalInv' /\ Queued'
    BY <1>1, <1>3, <1>5, UnchangedLocal, TakenQueue DEF SwapInv
  <2> QED
    BY <1>3, <1>4, <2>1, <2>2, TypePartsNext DEF SwapInv
<1>6. CASE Panic(Borrower)
  <2>1. NodeType' /\ LocalInv' /\ Queued'
    BY <1>1, <1>3, <1>6, PanicInv
  <2> QED
    BY <1>3, <1>4, <2>1, TypePartsNext DEF SwapInv
<1> QED
  BY <1>5, <1>6 DEF on_sign_message

\* A block only adds confirmations.
LEMMA MineBlockInv ==
    ASSUME SwapInv, MineBlock PROVE SwapInv'
<1>1. TypeOK
  BY DEF SwapInv
<1>2. /\ UNCHANGED stableVars /\ UNCHANGED nodeVars /\ UNCHANGED storeVars
      /\ UNCHANGED <<escrowFor, collateralTxs>> /\ UNCHANGED env
  BY DEF MineBlock
<1>3. depth' \in [TxKinds -> [Preimages -> 0..NB_CONFIRMATIONS]]
  <2>1. ASSUME NEW d \in [Preimages -> 0..NB_CONFIRMATIONS], NEW S
        PROVE  Deeper(d, S) \in [Preimages -> 0..NB_CONFIRMATIONS]
    BY <2>1, ConfirmationsAssumption DEF Deeper
  <2>2. PICK e, c : depth' = [k \in TxKinds |->
                         IF k = "escrow" THEN Deeper(depth[k], e) ELSE Deeper(depth[k], c)]
    BY DEF MineBlock
  <2>3. \A k \in TxKinds : depth[k] \in [Preimages -> 0..NB_CONFIRMATIONS]
    BY <1>1 DEF TypeOK
  <2> QED
    BY <2>1, <2>2, <2>3
<1>4. BtcType'
  BY <1>1, <1>2, <1>3 DEF BtcType, TypeOK
<1>5. StableTypeOK' /\ NodeType' /\ StoreType' /\ env' \in Environment
  BY <1>1, <1>2, UnchangedTypes
<1>6. LocalInv' /\ Queued' /\ LedgerInv'
  BY <1>2, UnchangedLocal, UnchangedQueue, UnchangedLedger DEF SwapInv, nodeVars
<1> QED
  BY <1>4, <1>5, <1>6, TypePartsNext DEF SwapInv

\* A process is killed or started again.
LEMMA KillRestart ==
    ASSUME SwapInv, NEW n \in Nodes, Kill(n) \/ Restart(n) PROVE SwapInv'
<1>1. TypeOK
  BY DEF SwapInv
<1>2. UNCHANGED stableVars /\ UNCHANGED storeVars /\ UNCHANGED btcVars
  BY DEF Kill, Restart
<1>3. StableTypeOK' /\ StoreType' /\ BtcType' /\ LedgerInv' /\ UNCHANGED escrowFor
  BY <1>1, <1>2, UnchangedTypes, UnchangedLedger DEF SwapInv, btcVars
<1>4. env' \in Environment
  <2>1. env \in Environment
    BY <1>1 DEF TypeOK
  <2>2. CASE Kill(n)
    <3>1. env.kills - 1 \in Nat /\ env' = [env EXCEPT !.kills = env.kills - 1]
      BY <2>1, <2>2 DEF Kill, Environment
    <3> QED
      BY <2>1, <3>1 DEF Environment
  <2> QED
    BY <2>1, <2>2 DEF Restart
<1>5. NodeType' /\ LocalInv' /\ Queued'
  <2>1. CASE Kill(n)
    BY <1>3, <2>1, PanicInv DEF Kill
  <2>2. CASE Restart(n)
    BY <1>1, <1>3, <2>2, UnchangedLocal, UnchangedQueue DEF Restart, NodeType, TypeOK, SwapInv
  <2> QED
    BY <2>1, <2>2
<1> QED
  BY <1>3, <1>4, <1>5, TypePartsNext DEF SwapInv

----------------------------------------------------------------------------
(* The theorems.                                                           *)

\* A signature verifies or does not, in every environment.
LEMMA SigsAreBoolean == SwapInv => env.sigs \subseteq BOOLEAN
BY DEF SwapInv, TypeOK, Environment

\* The initial state satisfies the invariant.
LEMMA InitInv == Init => SwapInv
<1> SUFFICES ASSUME Init PROVE SwapInv
  OBVIOUS
<1>1. StableTypeOK
  BY LenderBalanceAssumption DEF Init, StableInit, StableTypeOK, NoStableLoan, StableLoan
<1>2. NodeType
  <2>1. <<>> \in Seq(Messages)
    OBVIOUS
  <2> QED
    BY <2>1, IdleType DEF Init, NodeType
<1>3. StoreType /\ env \in Environment
  BY EnvironmentsAssumption DEF Init, StoreType, ContractStates
<1>4. BtcType
  BY ConfirmationsAssumption DEF Init, BtcType
<1>5. LocalInv
  <2>1. \A n \in Nodes : pc[n].at = "idle"
    BY DEF Init, Idle
  <2> QED
    BY <2>1 DEF LocalInv, ActiveOffer, Initiating, Accepting, Nodes
<1>6. Queued
  BY DEF Init, Queued, Nodes
<1>7. LedgerInv
  <2>1. \A p \in Preimages : /\ stableLoans[p].collateralAmount = 0
                             /\ stableLoans[p].borrowerPreimage = 0
                             /\ claims[p] = 0
    BY DEF Init, StableInit, NoStableLoan
  <2>2. collateralTxs = {}
    BY DEF Init
  <2> QED
    BY <2>1, <2>2, NonZeroPreimages DEF LedgerInv, LentUnderEscrow, PaidWasLent,
       RevealedWasPaid, CollateralNeedsPayout, LendRecorded
<1> QED
  BY <1>1, <1>2, <1>3, <1>4, <1>5, <1>6, <1>7, TypeParts DEF SwapInv

\* Every step keeps the invariant.
LEMMA NextInv == SwapInv /\ [Next]_vars => SwapInv'
<1> SUFFICES ASSUME SwapInv, [Next]_vars PROVE SwapInv'
  OBVIOUS
<1>1. CASE LenderStep
  BY <1>1, SendOfferLoan, OnInitiateAccept, OnAcceptLoan, VerifyAcceptedAndSign, SendSign,
     SigsAreBoolean DEF LenderStep
<1>2. CASE BorrowerStep
  BY <1>2, OnOfferLoan, SendEscrow, StoreWrites, SendsToLender, CheckOfferedLoan, CheckWrites,
     AcceptLoanContractOffer, OnSign, SigsAreBoolean DEF BorrowerStep
<1>3. ASSUME NEW n \in Nodes, CheckStep(n) \/ Kill(n) \/ Restart(n) PROVE SwapInv'
  BY <1>3, ListContracts, CheckWrites, KillRestart DEF CheckStep
<1>4. CASE MineBlock
  BY <1>4, MineBlockInv
<1>5. CASE UNCHANGED vars
  <2>1. TypeOK'
    BY <1>5, UnchangedTypes, TypePartsNext DEF vars, SwapInv
  <2> QED
    BY <1>5, <2>1, UnchangedLocal, UnchangedQueue, UnchangedLedger
       DEF vars, nodeVars, btcVars, SwapInv
<1> QED
  BY <1>1, <1>2, <1>3, <1>4, <1>5 DEF Next

\* The invariant holds in every reachable state.
LEMMA SwapInvariant == Spec => []SwapInv
<1> QED
  BY InitInv, NextInv, PTL DEF Spec

(* Type correctness of the two nodes, their queues, their stores and both   *)
(* chains, for every set of offers and preimages.                           *)
THEOREM TypeCorrect == Spec => []TypeOK
<1>1. SwapInv => TypeOK
  BY DEF SwapInv
<1> QED
  BY <1>1, SwapInvariant, PTL

(* The lender's guarantee: whatever crashes, messages are lost or accepts   *)
(* are repeated, a hash is only ever paid out when an escrow locked by it   *)
(* was broadcast.                                                           *)
THEOREM PayoutsNeedEscrow == Spec => []PayoutNeedsEscrow
<1>1. SwapInv => PayoutNeedsEscrow
  BY DEF SwapInv, LedgerInv, LentUnderEscrow, PaidWasLent, PayoutNeedsEscrow
<1> QED
  BY <1>1, SwapInvariant, PTL

(* The borrower's guarantee: the escrow is moved only after the hash was    *)
(* paid out, since claimStable is what reveals the preimage.                *)
THEOREM CollateralNeedsPayouts == Spec => []CollateralNeedsPayout
<1>1. SwapInv => CollateralNeedsPayout
  BY DEF SwapInv, LedgerInv
<1> QED
  BY <1>1, SwapInvariant, PTL
----------------------------------------------------------------------------
(* The two stores, and what the messages and positions say of them.        *)

\* The states of the borrower's contract from its acceptance on, and those of a signed contract.
Past == {"Accepted", "Signed", "Confirmed", "FailedSign"}
Final == {"Signed", "Confirmed"}

\* The borrower has accepted o with escrow e, and cannot take another one any more.
AcceptedWith(o, e) == contract[Borrower][o] \in Past /\ e = escrowTxid[o]
LenderSigned(o) == contract[Lender][o] \in Final

\* Where the borrower is inside a command.
BorrowerAt ==
    LET at == pc[Borrower] IN
    /\ at.at = "escrowSent" => at.escrow \in Preimages /\ escrowFor[at.escrow] = at.offer
    /\ at.at \in {"escrowSent", "txidStored"} => contract[Borrower][at.offer] = "OfferedLoan"
    /\ at.at \in {"check", "claimed"} => todo \subseteq EscrowedOffers
    /\ at.at = "claimed" =>
          /\ at.offer \in todo
          /\ loanPreimage[at.offer] \in Preimages /\ claims[loanPreimage[at.offer]] > 0
    /\ at.at = "acceptStored" => AcceptedWith(at.offer, at.escrow)

\* Where the lender is inside a handler.
LenderAt ==
    LET at == pc[Lender] IN
    /\ at.at \in {"collateralSent", "signStored"} =>
          AcceptedWith(at.offer, at.escrow) /\ at.escrow \in collateralTxs
    /\ at.at = "collateralSent" => contract[Lender][at.offer] = "OfferedLoan"
    /\ at.at = "signStored" => LenderSigned(at.offer)

\* What a message says of the offer it is about.
Says(m) ==
    /\ m.type \in {"AcceptLoan", "Sign"} => AcceptedWith(m.offer, m.escrow)
    /\ m.type = "Sign" => LenderSigned(m.offer)

Mail == \A n \in Nodes : \A i \in 1 .. Len(inbox[n]) : Says(inbox[n][i])

\* What the stores say of each other and of the escrows on Bitcoin.
StoreInv ==
    /\ \A o \in Offers : LenderSigned(o) => AcceptedWith(o, fundTx[o]) /\ fundTx[o] \in collateralTxs
    /\ \A o \in Offers : contract[Borrower][o] \in Final => LenderSigned(o)
    /\ \A o \in Offers : escrowTxid[o] # NoPreimage => escrowFor[escrowTxid[o]] = o
    /\ \A p \in collateralTxs : escrowFor[p] \in Offers /\ AcceptedWith(escrowFor[p], p)
    /\ ConfirmedEscrowIsPaid

LoanInv == BorrowerAt /\ LenderAt /\ Mail /\ StoreInv

\* What no step takes back: payouts, confirmations, escrows, collateral transactions.
ChainGrows ==
    /\ \A p \in Preimages : claims[p] > 0 => claims'[p] > 0
    /\ \A p \in Preimages :
          depth["escrow"][p] = NB_CONFIRMATIONS => depth'["escrow"][p] = NB_CONFIRMATIONS
    /\ \A p \in Preimages : escrowFor[p] # NoOffer => escrowFor'[p] = escrowFor[p]
    /\ collateralTxs \subseteq collateralTxs'

\* An acceptance and its escrow, a signed contract and its collateral transaction.
StoreGrows ==
    /\ \A o \in Offers : contract[Borrower][o] \in Past =>
          contract'[Borrower][o] \in Past /\ escrowTxid'[o] = escrowTxid[o]
    /\ \A o \in Offers : LenderSigned(o) => LenderSigned(o)' /\ fundTx'[o] = fundTx[o]

\* A block only deepens.
LEMMA BlockGrows ==
    ASSUME SwapInv, MineBlock
    PROVE  ChainGrows
<1>1. depth \in [TxKinds -> [Preimages -> 0..NB_CONFIRMATIONS]] /\ "escrow" \in TxKinds
  BY DEF SwapInv, TypeOK, TxKinds
<1>2. PICK e, c : /\ e \in SUBSET {p \in Preimages : escrowFor[p] # NoOffer /\ depth["escrow"][p] = 0}
                  /\ depth' = [k \in TxKinds |-> IF k = "escrow" THEN Deeper(depth[k], e) ELSE Deeper(depth[k], c)]
  BY DEF MineBlock
<1>3. depth'["escrow"] = Deeper(depth["escrow"], e)
  BY <1>1, <1>2
<1>4. ASSUME NEW p \in Preimages, depth["escrow"][p] = NB_CONFIRMATIONS
      PROVE  depth'["escrow"][p] = NB_CONFIRMATIONS
  <2>1. p \notin e
    BY <1>2, <1>4, ConfirmationsAssumption
  <2> QED
    BY <1>3, <1>4, <2>1, ConfirmationsAssumption DEF Deeper
<1> QED
  BY <1>4 DEF MineBlock, ChainGrows, stableVars

\* The chains keep what they have.
LEMMA ChainsGrow ==
    ASSUME SwapInv, [Next]_vars
    PROVE  ChainGrows
<1>1. ASSUME UNCHANGED <<stableVars, btcVars>> PROVE ChainGrows
  BY <1>1 DEF ChainGrows, stableVars, btcVars
<1>2. claims \in [Preimages -> Nat] /\ escrowFor \in [Preimages -> Offers \cup {NoOffer}]
  BY DEF SwapInv, TypeOK, StableTypeOK
<1>3. CASE on_initiate_accept_loan_message
  BY <1>3 DEF on_initiate_accept_loan_message, lendStable, ChainGrows, stableVars, btcVars
<1>4. CASE on_accept_loan_message
  BY <1>4 DEF on_accept_loan_message, ChainGrows, stableVars
<1>5. ASSUME NEW o \in Offers, NEW p \in Preimages, send_escrow_transaction(o, p) PROVE ChainGrows
  BY <1>2, <1>5 DEF send_escrow_transaction, ChainGrows, stableVars
<1>6. ASSUME NEW o \in Offers, check_offered_loan(o) PROVE ChainGrows
  <2>1. UNCHANGED btcVars /\ \/ UNCHANGED stableVars
                             \/ \E p : claims' = [claims EXCEPT ![p] = @ + 1]
    BY <1>6 DEF check_offered_loan, claimStable
  <2>2. \A p \in Preimages : claims[p] > 0 => claims'[p] > 0
    BY <1>2, <2>1 DEF stableVars
  <2> QED
    BY <2>1, <2>2 DEF ChainGrows, btcVars
<1>7. CASE MineBlock
  BY <1>7, BlockGrows
<1>8. CASE LenderStep
  BY <1>1, <1>3, <1>4, <1>8 DEF LenderStep, send_offer_loan, verify_accepted_and_sign, send_sign
<1>9. CASE BorrowerStep
  BY <1>1, <1>5, <1>6, <1>9 DEF BorrowerStep, on_offer_loan_message, set_escrow_txid, set_loan_preimage,
     send_initiate_accept, confirm_escrow, accept_loan_contract_offer, send_accept_loan, on_sign_message
<1>10. ASSUME NEW n \in Nodes, CheckStep(n) \/ Kill(n) \/ Restart(n) PROVE ChainGrows
  BY <1>1, <1>10 DEF CheckStep, list_contracts, check_signed_contracts, Kill, Restart
<1>11. CASE UNCHANGED vars
  BY <1>1, <1>11 DEF vars
<1> QED
  BY <1>7, <1>8, <1>9, <1>10, <1>11 DEF Next

\* The contract that SetContract changes, and the others.
LEMMA SetParts ==
    ASSUME TypeOK, NEW n \in Nodes, NEW o \in Offers, NEW state, SetContract(n, o, state)
    PROVE  /\ contract'[n][o] = state
           /\ \A x \in Offers \ {o} : contract'[n][x] = contract[n][x]
           /\ \A k \in Nodes \ {n} : contract'[k] = contract[k]
<1>1. contract \in [Nodes -> [Offers -> ContractStates]] /\ contract[n] \in [Offers -> ContractStates]
  BY DEF TypeOK
<1>2. contract' = [contract EXCEPT ![n] = [contract[n] EXCEPT ![o] = state]]
  BY DEF SetContract
<1> QED
  BY <1>1, <1>2

\* The position that Goto changes, and the other.
LEMMA GotoParts ==
    ASSUME TypeOK, NEW n \in Nodes, NEW place, Goto(n, place)
    PROVE  pc'[n] = place /\ \A k \in Nodes \ {n} : pc'[k] = pc[k]
BY DEF TypeOK, Goto

\* A panic leaves its node idle and the other one where it was.
LEMMA PanicParts ==
    ASSUME TypeOK, NEW n \in Nodes, Panic(n)
    PROVE  /\ pc'[n] = Idle /\ \A k \in Nodes \ {n} : pc'[k] = pc[k]
           /\ n = Lender => todo' = todo
BY NodesAssumption DEF TypeOK, Panic

\* What was said stays true.
LEMMA SaysGrows ==
    ASSUME StoreGrows
    PROVE  /\ \A o \in Offers : \A e : AcceptedWith(o, e) => AcceptedWith(o, e)'
           /\ \A m \in Messages : Says(m) => Says(m)'
<1>1. \A o \in Offers : \A e : AcceptedWith(o, e) => AcceptedWith(o, e)'
  BY DEF StoreGrows, AcceptedWith
<1>2. \A m \in Messages : Says(m) => Says(m)'
  <2> SUFFICES ASSUME NEW m \in Messages, Says(m) PROVE Says(m)'
    OBVIOUS
  <2>1. m.offer \in Offers
    BY MessageFields
  <2> QED
    BY <1>1, <2>1 DEF Says, StoreGrows
<1> QED
  BY <1>1, <1>2

\* The queues after a step that sends, takes or drops a message.
LEMMA MailStep ==
    ASSUME SwapInv, Mail, StoreGrows,
           \/ UNCHANGED inbox
           \/ \E n \in Nodes : inbox[n] # <<>> /\ inbox' = Taken(n)
           \/ \E n \in Nodes : Panic(n)
           \/ \E n \in Nodes, m \in Messages : inbox' \in Sent(inbox, n, m) /\ Says(m)'
    PROVE  Mail'
<1>1. inbox \in [Nodes -> Seq(Messages)]
  BY DEF SwapInv, TypeOK
<1> SUFFICES ASSUME NEW k \in Nodes, NEW i \in 1 .. Len(inbox'[k]), NEW x, x = inbox'[k][i]
             PROVE  Says(x)'
  BY DEF Mail
<1>2. inbox[k] \in Seq(Messages)
  BY <1>1
<1>3. ASSUME NEW j \in 1 .. Len(inbox[k]), x = inbox[k][j] PROVE Says(x)'
  <2>1. x \in Messages
    BY <1>2, <1>3
  <2>2. Says(x)
    BY <1>3 DEF Mail
  <2> QED
    BY <2>1, <2>2, SaysGrows
<1>4. CASE inbox'[k] = inbox[k]
  BY <1>3, <1>4
<1>5. CASE inbox[k] # <<>> /\ inbox'[k] = Tail(inbox[k])
  <2>1. i + 1 \in 1 .. Len(inbox[k]) /\ x = inbox[k][i + 1]
    BY <1>2, <1>5
  <2> QED
    BY <1>3, <2>1
<1>6. inbox'[k] # <<>>
  OBVIOUS
<1>7. CASE \E n \in Nodes : inbox[n] # <<>> /\ inbox' = Taken(n)
  BY <1>1, <1>4, <1>5, <1>7 DEF Taken
<1>8. CASE \E n \in Nodes : Panic(n)
  BY <1>1, <1>4, <1>6, <1>8 DEF Panic
<1>9. ASSUME NEW n \in Nodes, NEW m \in Messages, inbox' \in Sent(inbox, n, m), Says(m)'
      PROVE  Says(x)'
  <2>1. inbox' = [inbox EXCEPT ![n] = Append(inbox[n], m)] \/ inbox' = inbox
    BY <1>9 DEF Sent
  <2>2. inbox'[k] = Append(inbox[k], m) \/ inbox'[k] = inbox[k]
    BY <1>1, <2>1
  <2>3. CASE inbox'[k] = Append(inbox[k], m)
    <3>1. x = m \/ (i \in 1 .. Len(inbox[k]) /\ x = inbox[k][i])
      BY <1>2, <2>3
    <3> QED
      BY <1>3, <1>9, <3>1
  <2> QED
    BY <1>4, <2>2, <2>3
<1> QED
  BY <1>4, <1>7, <1>8, <1>9

\* Past the escrow check the borrower has been paid for the offer.
Paid == {"OfferedLoanEscrowConfirmed", "Accepted", "Signed"}
PaidFor(o) ==
    /\ escrowTxid[o] # NoPreimage /\ loanPreimage[o] # NoPreimage
    /\ claims[loanPreimage[o]] > 0 /\ EscrowDepth(o) = NB_CONFIRMATIONS

\* What a step has to show of the stores: where each new fact comes from.
LEMMA StoreFrom ==
    ASSUME TypeOK, TypeOK', StoreInv, ChainGrows, StoreGrows,
           \A o \in Offers : LenderSigned(o)' =>
               LenderSigned(o) \/ (AcceptedWith(o, fundTx'[o]) /\ fundTx'[o] \in collateralTxs),
           \A o \in Offers : contract'[Borrower][o] \in Final =>
               contract[Borrower][o] \in Final \/ LenderSigned(o),
           \A o \in Offers : escrowTxid'[o] = escrowTxid[o] \/ escrowFor'[escrowTxid'[o]] = o,
           \A p \in collateralTxs' :
               p \in collateralTxs \/ (escrowFor[p] \in Offers /\ AcceptedWith(escrowFor[p], p)),
           \A o \in Offers : contract'[Borrower][o] \in Paid =>
               /\ contract[Borrower][o] \in Paid \/ PaidFor(o)
               /\ escrowTxid'[o] = escrowTxid[o] /\ loanPreimage'[o] = loanPreimage[o]
    PROVE  StoreInv'
<1>1. /\ escrowTxid \in [Offers -> Preimages \cup {NoPreimage}]
      /\ loanPreimage \in [Offers -> Preimages \cup {NoPreimage}]
      /\ escrowFor \in [Preimages -> Offers \cup {NoOffer}]
      /\ collateralTxs \subseteq Preimages /\ collateralTxs' \subseteq Preimages
  BY DEF TypeOK
<1>2. \A o \in Offers : LenderSigned(o)' => AcceptedWith(o, fundTx[o])' /\ fundTx'[o] \in collateralTxs'
  BY DEF StoreGrows, ChainGrows, StoreInv, AcceptedWith
<1>3. \A o \in Offers : contract'[Borrower][o] \in Final => LenderSigned(o)'
  BY DEF StoreGrows, StoreInv
<1>4. \A o \in Offers : escrowTxid'[o] # NoPreimage => escrowFor'[escrowTxid'[o]] = o
  <2> SUFFICES ASSUME NEW o \in Offers, escrowTxid'[o] # NoPreimage, escrowTxid'[o] = escrowTxid[o]
               PROVE  escrowFor'[escrowTxid'[o]] = o
    OBVIOUS
  <2>1. escrowTxid[o] \in Preimages /\ escrowFor[escrowTxid[o]] = o
    BY <1>1 DEF StoreInv
  <2> QED
    BY <2>1, NoOfferAssumption DEF ChainGrows
<1>5. \A p \in collateralTxs' : escrowFor'[p] \in Offers /\ AcceptedWith(escrowFor[p], p)'
  <2> SUFFICES ASSUME NEW p \in collateralTxs'
               PROVE  escrowFor'[p] \in Offers /\ AcceptedWith(escrowFor[p], p)'
    OBVIOUS
  <2>1. escrowFor[p] \in Offers /\ AcceptedWith(escrowFor[p], p)
    BY DEF StoreInv
  <2>2. escrowFor'[p] = escrowFor[p]
    BY <1>1, <2>1, NoOfferAssumption DEF ChainGrows
  <2> QED
    BY <2>1, <2>2 DEF AcceptedWith, StoreGrows
<1>6. ConfirmedEscrowIsPaid'
  <2> SUFFICES ASSUME NEW o \in Offers, contract'[Borrower][o] \in Paid
               PROVE  /\ escrowTxid'[o] # NoPreimage /\ loanPreimage'[o] # NoPreimage
                      /\ claims'[loanPreimage'[o]] > 0
                      /\ depth'["escrow"][escrowTxid'[o]] = NB_CONFIRMATIONS
    BY DEF ConfirmedEscrowIsPaid, EscrowDepth, Paid
  <2>1. PaidFor(o)
    BY DEF StoreInv, ConfirmedEscrowIsPaid, PaidFor, Paid
  <2>2. escrowTxid[o] \in Preimages /\ loanPreimage[o] \in Preimages
    BY <1>1, <2>1 DEF PaidFor
  <2> QED
    BY <2>1, <2>2 DEF PaidFor, EscrowDepth, ChainGrows
<1> QED
  BY <1>2, <1>3, <1>4, <1>5, <1>6 DEF StoreInv

\* The borrower's side of a step of the lender or of a chain.
BorrowerStill ==
    /\ contract'[Borrower] = contract[Borrower] /\ pc'[Borrower] = pc[Borrower] /\ todo' = todo
    /\ escrowTxid' = escrowTxid /\ loanPreimage' = loanPreimage

\* The lender's side of a step of the borrower or of a chain.
LenderStill ==
    /\ contract'[Lender] = contract[Lender] /\ pc'[Lender] = pc[Lender]
    /\ fundTx' = fundTx /\ collateralTxs' = collateralTxs

\* Where the borrower is stays true while the lender moves.
LEMMA BorrowerWaits ==
    ASSUME SwapInv, BorrowerAt, ChainGrows, BorrowerStill
    PROVE  BorrowerAt'
<1>1. pc[Borrower] \in Places /\ Borrower \in Nodes /\ NoOffer \notin Offers
  BY NoOfferAssumption DEF SwapInv, TypeOK, Nodes
<1>2. pc[Borrower].at \notin {"idle", "check"} => pc[Borrower].offer \in Offers
  BY <1>1 DEF SwapInv, LocalInv, ActiveOffer
<1>3. EscrowedOffers' = EscrowedOffers
  BY DEF EscrowedOffers, BorrowerStill
<1>4. pc[Borrower].at = "escrowSent" => escrowFor'[pc[Borrower].escrow] = pc[Borrower].offer
  BY <1>1, <1>2 DEF BorrowerAt, ChainGrows
<1>5. pc[Borrower].at = "claimed" => claims'[loanPreimage[pc[Borrower].offer]] > 0
  BY DEF BorrowerAt, ChainGrows
<1> QED
  BY <1>3, <1>4, <1>5 DEF BorrowerAt, BorrowerStill, AcceptedWith

\* Where the lender is stays true while the borrower moves.
LEMMA LenderWaits ==
    ASSUME SwapInv, LenderAt, StoreGrows, LenderStill
    PROVE  LenderAt'
<1>1. pc[Lender].at \in {"collateralSent", "signStored"} => pc[Lender].offer \in Offers
  BY DEF SwapInv, LocalInv, ActiveOffer, Nodes
<1> QED
  BY <1>1 DEF LenderAt, LenderStill, StoreGrows, AcceptedWith, LenderSigned

\* An idle node is nowhere, a checking lender too.
LEMMA NowhereAt ==
    /\ pc'[Borrower].at \in {"idle", "preimageStored"} => BorrowerAt'
    /\ pc'[Lender].at \in {"idle", "check"} => LenderAt'
    /\ Idle.at = "idle"
BY DEF BorrowerAt, LenderAt, Idle

\* A step that changes no store and no transaction.
LEMMA StoresRest ==
    ASSUME TypeOK, TypeOK', StoreInv, ChainGrows, UNCHANGED storeVars, UNCHANGED collateralTxs
    PROVE  StoreGrows /\ StoreInv'
<1>1. StoreGrows
  BY DEF StoreGrows, LenderSigned, storeVars
<1>2. \A o \in Offers : LenderSigned(o)' => LenderSigned(o)
  BY DEF LenderSigned, storeVars
<1>3. contract' = contract /\ escrowTxid' = escrowTxid /\ loanPreimage' = loanPreimage
  BY DEF storeVars
<1> QED
  BY <1>1, <1>2, <1>3, StoreFrom

\* A contract of the borrower that is not past its acceptance changes to a state that is not final.
LEMMA BorrowerStores ==
    ASSUME TypeOK, TypeOK', StoreInv, ChainGrows, UNCHANGED <<escrowTxid, loanPreimage>>, LenderStill,
           NEW o \in Offers, NEW state, SetContract(Borrower, o, state),
           contract[Borrower][o] \in Past => state \in Past,
           state \in Final => LenderSigned(o),
           state \in Paid => contract[Borrower][o] \in Paid \/ PaidFor(o)
    PROVE  StoreGrows /\ StoreInv'
<1>1. Borrower \in Nodes /\ Lender \in Nodes \ {Borrower}
  BY NodesAssumption DEF Nodes
<1>2. contract'[Borrower][o] = state /\ \A x \in Offers \ {o} : contract'[Borrower][x] = contract[Borrower][x]
  BY <1>1, SetParts
<1>3. \A x \in Offers : LenderSigned(x)' <=> LenderSigned(x)
  BY DEF LenderSigned, LenderStill
<1>4. StoreGrows
  BY <1>2, <1>3 DEF StoreGrows, LenderStill
<1> QED
  BY <1>2, <1>3, <1>4, StoreFrom DEF LenderStill

\* The lender's offer.
LEMMA LoanOffered ==
    ASSUME SwapInv, SwapInv', LoanInv, ChainGrows, NEW o \in Offers, send_offer_loan(o)
    PROVE  LoanInv'
<1>1. TypeOK /\ TypeOK' /\ Lender \in Nodes /\ Borrower \in Nodes \ {Lender}
  BY NodesAssumption DEF SwapInv, Nodes
<1>2. /\ contract[Lender][o] = "None" /\ contract'[Lender][o] = "OfferedLoan"
      /\ \A x \in Offers \ {o} : contract'[Lender][x] = contract[Lender][x]
      /\ contract'[Borrower] = contract[Borrower]
  BY <1>1, SetParts DEF send_offer_loan
<1>3. \A x \in Offers : LenderSigned(x)' <=> LenderSigned(x)
  BY <1>2 DEF LenderSigned, Final
<1>4. BorrowerStill /\ UNCHANGED <<fundTx, collateralTxs, escrowFor>> /\ pc' = pc
  BY <1>2 DEF BorrowerStill, send_offer_loan, btcVars
<1>5. StoreGrows
  BY <1>3, <1>4 DEF StoreGrows, BorrowerStill
<1>6. StoreInv'
  BY <1>1, <1>3, <1>4, <1>5, StoreFrom DEF LoanInv, BorrowerStill
<1>7. Mail'
  <2> DEFINE m == Msg("OfferLoan", o, NoPreimage, NoPreimage, TRUE)
  <2>1. m \in Messages
    BY MsgType
  <2>2. Says(m)'
    BY DEF Says, Msg
  <2>3. inbox' \in Sent(inbox, Borrower, m)
    BY DEF send_offer_loan
  <2> HIDE DEF m
  <2> QED
    BY <1>1, <1>5, <2>1, <2>2, <2>3, MailStep DEF LoanInv
<1>8. BorrowerAt'
  BY <1>4, BorrowerWaits DEF LoanInv
<1>9. LenderAt'
  BY <1>4, NowhereAt DEF send_offer_loan, Ready
<1> QED
  BY <1>6, <1>7, <1>8, <1>9 DEF LoanInv

\* The lender lends, or its process ends or starts, or it begins its check.
LEMMA LenderTurns ==
    ASSUME SwapInv, SwapInv', LoanInv, ChainGrows, UNCHANGED storeVars, UNCHANGED btcVars,
           \/ on_initiate_accept_loan_message
           \/ list_contracts(Lender) \/ Kill(Lender) \/ Restart(Lender)
           \/ Panic(Lender)
    PROVE  LoanInv'
<1>1. TypeOK /\ TypeOK' /\ Lender \in Nodes /\ Borrower \in Nodes \ {Lender} /\ Lender # Borrower
  BY NodesAssumption DEF SwapInv, Nodes
<1>2. StoreGrows /\ StoreInv'
  BY <1>1, StoresRest DEF LoanInv, btcVars
<1>3. \/ Panic(Lender)
      \/ /\ pc' = pc /\ pc[Lender] = Idle /\ todo' = todo /\ inbox[Lender] # <<>> /\ inbox' = Taken(Lender)
      \/ /\ Goto(Lender, At("check", NoOffer, NoPreimage, NoPreimage, TRUE)) /\ todo' = todo /\ inbox' = inbox
      \/ /\ pc' = pc /\ todo' = todo /\ inbox' = inbox
  BY <1>1 DEF on_initiate_accept_loan_message, list_contracts, Kill, Restart, Receives, Ready
<1>4. Mail'
  BY <1>1, <1>2, <1>3, MailStep DEF LoanInv
<1>5. pc'[Borrower] = pc[Borrower] /\ todo' = todo
  BY <1>1, <1>3, PanicParts, GotoParts
<1>6. BorrowerStill
  BY <1>5 DEF BorrowerStill, storeVars
<1>7. pc'[Lender].at \in {"idle", "check"} \/ pc' = pc
  <2>1. At("check", NoOffer, NoPreimage, NoPreimage, TRUE).at = "check"
    BY DEF At
  <2> HIDE DEF At, Idle
  <2> QED
    BY <1>1, <1>3, <2>1, PanicParts, GotoParts, NowhereAt
<1>8. LenderAt'
  <2>1. CASE pc' = pc
    <3>1. LenderStill
      BY <2>1 DEF LenderStill, storeVars, btcVars
    <3> QED
      BY <1>2, <3>1, LenderWaits DEF LoanInv
  <2> QED
    BY <1>7, <2>1, NowhereAt
<1> QED
  BY <1>2, <1>4, <1>6, <1>8, BorrowerWaits DEF LoanInv

\* The lender broadcasts the collateral transaction.
LEMMA CollateralBroadcast ==
    ASSUME SwapInv, SwapInv', LoanInv, ChainGrows, on_accept_loan_message
    PROVE  LoanInv'
<1> DEFINE m == Head(inbox[Lender])
           to == At("collateralSent", m.offer, m.escrow, m.hash, m.valid)
<1>1. TypeOK /\ TypeOK' /\ Lender \in Nodes /\ Borrower \in Nodes \ {Lender} /\ Lender # Borrower
  BY NodesAssumption DEF SwapInv, Nodes
<1>2. UNCHANGED storeVars /\ UNCHANGED escrowFor /\ inbox[Lender] # <<>> /\ m.type = "AcceptLoan"
  BY DEF on_accept_loan_message, Receives
<1>3. CASE Panic(Lender) /\ UNCHANGED collateralTxs
  <2>1. StoreGrows /\ StoreInv'
    BY <1>1, <1>2, <1>3, StoresRest DEF LoanInv
  <2>2. Mail'
    BY <1>1, <1>3, <2>1, MailStep DEF LoanInv
  <2>3. BorrowerStill /\ pc'[Lender] = Idle
    BY <1>1, <1>2, <1>3, PanicParts DEF BorrowerStill, storeVars
  <2> QED
    BY <2>1, <2>2, <2>3, BorrowerWaits, NowhereAt DEF LoanInv
<1>4. CASE /\ contract[Lender][m.offer] = "OfferedLoan" /\ SpendIsValid(m)
           /\ collateralTxs' = collateralTxs \cup {m.escrow}
           /\ inbox' = Taken(Lender) /\ Goto(Lender, to) /\ UNCHANGED <<up, todo>>
  <2>1. inbox[Lender] \in Seq(Messages) /\ 1 \in 1 .. Len(inbox[Lender]) /\ m = inbox[Lender][1]
    <3>1. inbox[Lender] \in Seq(Messages)
      BY <1>1 DEF TypeOK
    <3> QED
      BY <1>2, <3>1
  <2>2. m \in Messages /\ m.offer \in Offers
    BY <1>1, <1>2, TakenType, MessageFields
  <2>3. Says(m) /\ HonestMessage(m)
    BY <1>1, <2>1 DEF LoanInv, Mail, SwapInv, Queued
  <2>4. AcceptedWith(m.offer, m.escrow) /\ m.escrow \in Preimages
    BY <1>2, <1>4, <2>3 DEF Says, HonestMessage, SpendIsValid
  <2>5. escrowFor[m.escrow] = m.offer
    <3>1. escrowTxid[m.offer] = m.escrow /\ m.escrow # NoPreimage
      BY <2>4, NoOfferAssumption DEF AcceptedWith
    <3> QED
      BY <2>2, <3>1 DEF LoanInv, StoreInv
  <2>6. StoreGrows
    BY <1>2 DEF StoreGrows, LenderSigned, storeVars
  <2>7. StoreInv'
    <3>1. \A o \in Offers : LenderSigned(o)' => LenderSigned(o)
      BY <1>2 DEF LenderSigned, storeVars
    <3>2. \A p \in collateralTxs' :
             p \in collateralTxs \/ (escrowFor[p] \in Offers /\ AcceptedWith(escrowFor[p], p))
      BY <1>4, <2>2, <2>4, <2>5
    <3>3. contract' = contract /\ escrowTxid' = escrowTxid /\ loanPreimage' = loanPreimage
      BY <1>2 DEF storeVars
    <3> QED
      BY <1>1, <2>6, <3>1, <3>2, <3>3, StoreFrom DEF LoanInv
  <2>8. Mail'
    BY <1>1, <1>2, <1>4, <2>6, MailStep DEF LoanInv
  <2>9. pc'[Lender] = to /\ pc'[Borrower] = pc[Borrower]
    <3> HIDE DEF to
    <3> QED
      BY <1>1, <1>4, GotoParts
  <2>10. BorrowerAt'
    <3>1. BorrowerStill
      BY <1>2, <1>4, <2>9 DEF BorrowerStill, storeVars
    <3> QED
      BY <3>1, BorrowerWaits DEF LoanInv
  <2>11. LenderAt'
    <3>1. /\ pc'[Lender].at = "collateralSent" /\ pc'[Lender].offer = m.offer
          /\ pc'[Lender].escrow = m.escrow
      BY <2>9 DEF At
    <3>2. /\ contract'[Lender][m.offer] = "OfferedLoan" /\ contract'[Borrower][m.offer] \in Past
          /\ m.escrow = escrowTxid'[m.offer] /\ m.escrow \in collateralTxs'
      BY <1>2, <1>4, <2>4 DEF storeVars, AcceptedWith
    <3> HIDE DEF m, to
    <3> QED
      BY <3>1, <3>2 DEF LenderAt, AcceptedWith
  <2> QED
    BY <2>7, <2>8, <2>10, <2>11 DEF LoanInv
<1> QED
  BY <1>3, <1>4 DEF on_accept_loan_message
\* The lender verifies the acceptance and stores the contract, signed or failed.
LEMMA AcceptanceVerified ==
    ASSUME SwapInv, SwapInv', LoanInv, ChainGrows, verify_accepted_and_sign
    PROVE  LoanInv'
<1> DEFINE at == pc[Lender]
<1>1. TypeOK /\ TypeOK' /\ Lender \in Nodes /\ Borrower \in Nodes \ {Lender} /\ Lender # Borrower
  BY NodesAssumption DEF SwapInv, Nodes
<1>2a. /\ at.at = "collateralSent" /\ at.offer \in Offers /\ at \in Places
       /\ UNCHANGED <<escrowTxid, loanPreimage>> /\ UNCHANGED btcVars
  BY <1>1 DEF verify_accepted_and_sign, SwapInv, LocalInv, ActiveOffer, TypeOK
<1>2b. PICK o \in Offers : o = at.offer
  BY <1>2a
<1>2. /\ at.at = "collateralSent" /\ o \in Offers /\ at \in Places /\ o = at.offer
      /\ UNCHANGED <<escrowTxid, loanPreimage>> /\ UNCHANGED btcVars
  BY <1>2a, <1>2b
<1>3. /\ contract[Lender][o] = "OfferedLoan" /\ AcceptedWith(o, at.escrow) /\ at.escrow \in collateralTxs
  BY <1>2 DEF LoanInv, LenderAt
<1>4. PICK state \in {"Signed", "FailedAccept"} :
         /\ SetContract(Lender, o, state)
         /\ \/ /\ state = "Signed" /\ fundTx' = [fundTx EXCEPT ![o] = at.escrow]
               /\ Goto(Lender, [at EXCEPT !.at = "signStored"]) /\ UNCHANGED <<todo, inbox>>
            \/ state = "FailedAccept" /\ Panic(Lender) /\ UNCHANGED fundTx
  BY <1>2 DEF verify_accepted_and_sign
<1>5. /\ contract'[Lender][o] = state /\ contract'[Borrower] = contract[Borrower]
      /\ \A x \in Offers \ {o} : contract'[Lender][x] = contract[Lender][x]
  BY <1>1, <1>2, <1>4, SetParts
<1>6. /\ \A x \in Offers \ {o} : fundTx'[x] = fundTx[x]
      /\ state = "Signed" => fundTx'[o] = at.escrow
  <2>1. fundTx \in [Offers -> Preimages \cup {NoPreimage}]
    BY <1>1 DEF TypeOK
  <2> HIDE DEF at
  <2> QED
    BY <1>2, <1>4, <2>1
<1>7. /\ \A x \in Offers \ {o} : LenderSigned(x)' <=> LenderSigned(x)
      /\ ~LenderSigned(o) /\ (LenderSigned(o)' => state = "Signed")
  BY <1>3, <1>4, <1>5 DEF LenderSigned, Final
<1>8. StoreGrows
  BY <1>2, <1>5, <1>6, <1>7 DEF StoreGrows
<1>9. StoreInv'
  <2>1. \A x \in Offers : LenderSigned(x)' =>
            LenderSigned(x) \/ (AcceptedWith(x, fundTx'[x]) /\ fundTx'[x] \in collateralTxs)
    BY <1>3, <1>6, <1>7
  <2>2. \A p \in collateralTxs' : p \in collateralTxs
    BY <1>2 DEF btcVars
  <2> QED
    BY <1>1, <1>2, <1>5, <1>8, <2>1, <2>2, StoreFrom DEF LoanInv
<1>10. Mail'
  BY <1>1, <1>4, <1>8, MailStep DEF LoanInv
<1>11. pc'[Borrower] = pc[Borrower] /\ todo' = todo
  BY <1>1, <1>4, PanicParts, GotoParts
<1>12. BorrowerAt'
  <2>1. BorrowerStill
    BY <1>2, <1>5, <1>11 DEF BorrowerStill
  <2> QED
    BY <2>1, BorrowerWaits DEF LoanInv
<1>13. LenderAt'
  <2>1. CASE state = "FailedAccept"
    BY <1>1, <1>4, <2>1, PanicParts, NowhereAt
  <2>2. CASE state = "Signed"
    <3>1. pc'[Lender] = [at EXCEPT !.at = "signStored"]
      BY <1>1, <1>4, <2>2, GotoParts
    <3>2. pc'[Lender].at = "signStored" /\ pc'[Lender].offer = o /\ pc'[Lender].escrow = at.escrow
      <4> HIDE DEF at
      <4> QED
        BY <1>2, <3>1, Zenon DEF Places
    <3>3. /\ LenderSigned(o)' /\ contract'[Borrower][o] \in Past /\ at.escrow = escrowTxid'[o]
          /\ at.escrow \in collateralTxs'
      BY <1>2, <1>3, <1>5, <2>2 DEF LenderSigned, Final, AcceptedWith, btcVars
    <3> QED
      BY <3>2, <3>3 DEF LenderAt, AcceptedWith, LenderSigned
  <2> QED
    BY <2>1, <2>2
<1> QED
  BY <1>9, <1>10, <1>12, <1>13 DEF LoanInv

\* The lender's signatures go out.
LEMMA SignatureSent ==
    ASSUME SwapInv, SwapInv', LoanInv, ChainGrows, NEW valid \in BOOLEAN, send_sign(valid)
    PROVE  LoanInv'
<1> DEFINE at == pc[Lender]
           m == Msg("Sign", at.offer, at.escrow, at.hash, valid)
<1>1. TypeOK /\ TypeOK' /\ Lender \in Nodes /\ Borrower \in Nodes \ {Lender} /\ Lender # Borrower
  BY NodesAssumption DEF SwapInv, Nodes
<1>2. /\ at.at = "signStored" /\ at.offer \in Offers /\ at \in Places
      /\ UNCHANGED storeVars /\ UNCHANGED btcVars /\ Goto(Lender, Idle) /\ todo' = todo
      /\ inbox' \in Sent(inbox, Borrower, m)
  BY <1>1 DEF send_sign, SwapInv, LocalInv, ActiveOffer, TypeOK
<1>3. StoreGrows /\ StoreInv'
  BY <1>1, <1>2, StoresRest DEF LoanInv, btcVars
<1>4. m \in Messages
  BY <1>2, PlaceFields, MsgType
<1>5. Says(m)
  <2>1. AcceptedWith(at.offer, at.escrow) /\ LenderSigned(at.offer)
    BY <1>2 DEF LoanInv, LenderAt
  <2>2. m.offer = at.offer /\ m.escrow = at.escrow /\ m.type = "Sign"
    BY DEF Msg
  <2> HIDE DEF m, at
  <2> QED
    BY <2>1, <2>2 DEF Says
<1>6. PICK x \in Messages : x = m
  BY <1>4
<1>7. Says(x)'
  BY <1>3, <1>5, <1>6, SaysGrows
<1> HIDE DEF m
<1>8. Mail'
  BY <1>1, <1>2, <1>3, <1>6, <1>7, MailStep DEF LoanInv
<1>9. pc'[Lender] = Idle /\ pc'[Borrower] = pc[Borrower]
  BY <1>1, <1>2, GotoParts
<1>10. BorrowerStill
  BY <1>2, <1>9 DEF BorrowerStill, storeVars
<1> QED
  BY <1>3, <1>8, <1>9, <1>10, BorrowerWaits, NowhereAt DEF LoanInv

\* The last part of a check: a signed contract is found confirmed.
LEMMA SignedChecked ==
    ASSUME SwapInv, SwapInv', LoanInv, ChainGrows, NEW n \in Nodes, check_signed_contracts(n)
    PROVE  LoanInv'
<1>1. TypeOK /\ TypeOK' /\ Lender \in Nodes /\ Borrower \in Nodes /\ Lender # Borrower
  BY NodesAssumption DEF SwapInv, Nodes
<1>2. contract \in [Nodes -> [Offers -> ContractStates]]
  BY <1>1 DEF TypeOK
<1>3. \A k \in Nodes, o \in Offers :
         contract'[k][o] = contract[k][o] \/ (contract[k][o] = "Signed" /\ contract'[k][o] = "Confirmed")
  BY <1>2 DEF check_signed_contracts
<1>4. \A k \in Nodes, o \in Offers :
         /\ contract'[k][o] \in Final <=> contract[k][o] \in Final
         /\ contract'[k][o] \in Past <=> contract[k][o] \in Past
         /\ contract'[k][o] \in Paid => contract[k][o] \in Paid
  BY <1>3 DEF Final, Past, Paid
<1>5. /\ UNCHANGED <<escrowTxid, loanPreimage, fundTx>> /\ UNCHANGED btcVars /\ UNCHANGED <<todo, inbox>>
      /\ Goto(n, Idle)
  BY DEF check_signed_contracts
<1>6. \A o \in Offers : LenderSigned(o)' <=> LenderSigned(o)
  BY <1>1, <1>4 DEF LenderSigned
<1>7. StoreGrows
  BY <1>1, <1>4, <1>5, <1>6 DEF StoreGrows
<1>8. StoreInv'
  <2>1. \A p \in collateralTxs' : p \in collateralTxs
    BY <1>5 DEF btcVars
  <2> QED
    BY <1>1, <1>4, <1>5, <1>6, <1>7, <2>1, StoreFrom DEF LoanInv
<1>9. Mail'
  BY <1>5, <1>7, MailStep DEF LoanInv
<1>10. pc'[n] = Idle /\ \A k \in Nodes \ {n} : pc'[k] = pc[k] /\ contract'[k] = contract[k]
  <2>1. \A k \in Nodes \ {n} : contract'[k] = contract[k]
    BY <1>2 DEF check_signed_contracts
  <2> QED
    BY <1>1, <1>5, <2>1, GotoParts
<1>11. CASE n = Lender
  <2>1. BorrowerStill
    BY <1>1, <1>5, <1>10, <1>11 DEF BorrowerStill
  <2> QED
    BY <1>8, <1>9, <1>10, <1>11, <2>1, BorrowerWaits, NowhereAt DEF LoanInv
<1>12. CASE n = Borrower
  <2>1. LenderStill
    BY <1>1, <1>5, <1>10, <1>12 DEF LenderStill, btcVars
  <2> QED
    BY <1>7, <1>8, <1>9, <1>10, <1>12, <2>1, LenderWaits, NowhereAt DEF LoanInv
<1> QED
  BY <1>11, <1>12 DEF Nodes

\* A step of the borrower that changes no contract.
LEMMA BorrowerRests ==
    ASSUME SwapInv, SwapInv', LoanInv, ChainGrows, UNCHANGED storeVars, UNCHANGED collateralTxs,
           pc'[Lender] = pc[Lender], BorrowerAt',
           \/ UNCHANGED inbox
           \/ \E n \in Nodes : inbox[n] # <<>> /\ inbox' = Taken(n)
           \/ \E n \in Nodes : Panic(n)
           \/ \E n \in Nodes, m \in Messages : inbox' \in Sent(inbox, n, m) /\ Says(m)
    PROVE  LoanInv'
<1>1. StoreGrows /\ StoreInv'
  BY StoresRest DEF LoanInv, SwapInv
<1>2. LenderStill
  BY DEF LenderStill, storeVars
<1>3. Mail'
  BY <1>1, SaysGrows, MailStep DEF LoanInv
<1> QED
  BY <1>1, <1>2, <1>3, LenderWaits DEF LoanInv

\* The borrower's process ends without a change to its store, or starts again.
LEMMA BorrowerEnds ==
    ASSUME SwapInv, SwapInv', LoanInv, ChainGrows, UNCHANGED storeVars, UNCHANGED btcVars,
           Panic(Borrower) \/ Restart(Borrower)
    PROVE  LoanInv'
<1>1. TypeOK /\ Lender \in Nodes \ {Borrower} /\ Borrower \in Nodes
  BY NodesAssumption DEF SwapInv, Nodes
<1>2. CASE Panic(Borrower)
  BY <1>1, <1>2, PanicParts, NowhereAt, BorrowerRests DEF btcVars
<1>3. CASE Restart(Borrower)
  <2>1. pc' = pc /\ todo' = todo /\ inbox' = inbox
    BY <1>3 DEF Restart
  <2>2. BorrowerStill
    BY <2>1 DEF BorrowerStill, storeVars
  <2>3. BorrowerAt'
    BY <2>2, BorrowerWaits DEF LoanInv
  <2> QED
    BY <2>1, <2>3, BorrowerRests DEF btcVars
<1> QED
  BY <1>2, <1>3

\* The escrow is broadcast.
LEMMA EscrowBroadcast ==
    ASSUME SwapInv, SwapInv', LoanInv, ChainGrows, NEW o \in Offers, NEW p \in Preimages,
           send_escrow_transaction(o, p)
    PROVE  LoanInv'
<1>1. TypeOK /\ Lender \in Nodes \ {Borrower} /\ Borrower \in Nodes
  BY NodesAssumption DEF SwapInv, Nodes
<1>2. pc'[Borrower] = At("escrowSent", o, p, p, TRUE) /\ pc'[Lender] = pc[Lender]
  BY <1>1, GotoParts DEF send_escrow_transaction
<1>3. /\ pc'[Borrower].at = "escrowSent" /\ pc'[Borrower].offer = o /\ pc'[Borrower].escrow = p
  BY <1>2 DEF At
<1>4. escrowFor'[p] = o
  BY <1>1 DEF send_escrow_transaction, TypeOK
<1>5. contract'[Borrower][o] = "OfferedLoan" /\ UNCHANGED <<storeVars, inbox, collateralTxs>>
  BY DEF send_escrow_transaction, storeVars
<1>6. BorrowerAt'
  BY <1>3, <1>4, <1>5 DEF BorrowerAt
<1> QED
  BY <1>2, <1>5, <1>6, BorrowerRests

\* The borrower's messages to the lender.
LEMMA BorrowerSends ==
    ASSUME SwapInv, SwapInv', LoanInv, ChainGrows, send_initiate_accept \/ send_accept_loan
    PROVE  LoanInv'
<1> DEFINE at == pc[Borrower]
<1>1. TypeOK /\ Lender \in Nodes \ {Borrower} /\ Lender \in Nodes /\ Borrower \in Nodes
  BY NodesAssumption DEF SwapInv, Nodes
<1>2. /\ at.at \in {"preimageStored", "acceptStored"} /\ Goto(Borrower, Idle)
      /\ UNCHANGED storeVars /\ UNCHANGED btcVars
  BY DEF send_initiate_accept, send_accept_loan
<1>3. at \in Places /\ at.offer \in Offers
  BY <1>1, <1>2 DEF SwapInv, LocalInv, ActiveOffer, TypeOK
<1>4. /\ at.escrow \in Preimages \cup {NoPreimage} /\ at.hash \in Preimages \cup {NoPreimage}
      /\ at.valid \in BOOLEAN
  BY <1>3, PlaceFields
<1>5. pc'[Borrower] = Idle /\ pc'[Lender] = pc[Lender]
  BY <1>1, <1>2, GotoParts
<1>6. BorrowerAt'
  BY <1>5, NowhereAt
<1>7. \E m \in Messages : inbox' \in Sent(inbox, Lender, m) /\ Says(m)
  <2>1. CASE send_initiate_accept
    <3> DEFINE m == Msg("InitiateAcceptLoan", at.offer, at.escrow, at.hash, TRUE)
    <3>1. m \in Messages /\ Says(m)
      <4>1. m.type = "InitiateAcceptLoan"
        BY DEF Msg
      <4>2. m \in Messages
        BY <1>3, <1>4, MsgType
      <4> QED
        BY <4>1, <4>2 DEF Says
    <3> QED
      BY <2>1, <3>1 DEF send_initiate_accept
  <2>2. CASE send_accept_loan
    <3> DEFINE m == Msg("AcceptLoan", at.offer, at.escrow, at.hash, at.valid)
    <3>1. m \in Messages /\ Says(m)
      <4>1. m.type = "AcceptLoan" /\ m.offer = at.offer /\ m.escrow = at.escrow
        BY DEF Msg
      <4>2. m \in Messages
        BY <1>3, <1>4, MsgType
      <4>3. AcceptedWith(at.offer, at.escrow)
        BY <2>2 DEF send_accept_loan, LoanInv, BorrowerAt
      <4> HIDE DEF m
      <4> QED
        BY <4>1, <4>2, <4>3 DEF Says
    <3> QED
      BY <2>2, <3>1 DEF send_accept_loan
  <2> QED
    BY <2>1, <2>2
<1> QED
  BY <1>1, <1>2, <1>5, <1>6, <1>7, BorrowerRests DEF btcVars

\* The borrower begins its check.
LEMMA CheckBegins ==
    ASSUME SwapInv, SwapInv', LoanInv, ChainGrows, list_contracts(Borrower)
    PROVE  LoanInv'
<1>1. TypeOK /\ Lender \in Nodes \ {Borrower} /\ Borrower \in Nodes
  BY NodesAssumption DEF SwapInv, Nodes
<1>2. pc'[Borrower] = At("check", NoOffer, NoPreimage, NoPreimage, TRUE) /\ pc'[Lender] = pc[Lender]
  BY <1>1, GotoParts DEF list_contracts
<1>3. pc'[Borrower].at = "check"
  BY <1>2 DEF At
<1>4. UNCHANGED storeVars /\ UNCHANGED btcVars /\ inbox' = inbox /\ todo' = EscrowedOffers
  BY DEF list_contracts
<1>5. EscrowedOffers' = EscrowedOffers
  BY <1>4 DEF EscrowedOffers, storeVars
<1>6. BorrowerAt'
  BY <1>3, <1>4, <1>5 DEF BorrowerAt
<1> QED
  BY <1>2, <1>4, <1>6, BorrowerRests DEF btcVars

\* One turn of the check: the borrower claims the loan, or goes on to the next offer.
LEMMA OfferChecked ==
    ASSUME SwapInv, SwapInv', LoanInv, ChainGrows, NEW o \in Offers, check_offered_loan(o)
    PROVE  LoanInv'
<1> DEFINE p == loanPreimage[o]
<1>1. TypeOK /\ Lender \in Nodes \ {Borrower} /\ Borrower \in Nodes
  BY NodesAssumption DEF SwapInv, Nodes
<1>2. /\ pc[Borrower].at = "check" /\ o \in todo /\ UNCHANGED storeVars /\ UNCHANGED btcVars
  BY DEF check_offered_loan
<1>3. todo \subseteq EscrowedOffers /\ EscrowedOffers' = EscrowedOffers
  BY <1>2 DEF LoanInv, BorrowerAt, EscrowedOffers, storeVars
<1>4. CASE /\ p # NoPreimage /\ claimStable(Borrower, p)
           /\ Goto(Borrower, At("claimed", o, escrowTxid[o], p, TRUE)) /\ UNCHANGED <<up, todo, inbox>>
  <2>1. pc'[Borrower] = At("claimed", o, escrowTxid[o], p, TRUE) /\ pc'[Lender] = pc[Lender]
    BY <1>1, <1>4, GotoParts
  <2>2. pc'[Borrower].at = "claimed" /\ pc'[Borrower].offer = o
    BY <2>1 DEF At
  <2>3. p \in Preimages /\ claims \in [Preimages -> Nat]
    BY <1>1, <1>4 DEF TypeOK, StableTypeOK
  <2>4. claims'[p] > 0
    BY <1>4, <2>3 DEF claimStable
  <2>5. BorrowerAt'
    BY <1>2, <1>3, <1>4, <2>2, <2>3, <2>4 DEF BorrowerAt, storeVars
  <2> QED
    BY <1>2, <1>4, <2>1, <2>5, BorrowerRests DEF btcVars
<1>5. CASE todo' = todo \ {o} /\ UNCHANGED <<stableVars, up, pc, inbox>>
  <2>1. BorrowerAt'
    BY <1>2, <1>3, <1>5 DEF BorrowerAt
  <2> QED
    BY <1>2, <1>5, <2>1, BorrowerRests DEF btcVars
<1>6. CASE Panic(Borrower)
  BY <1>2, <1>6, BorrowerEnds
<1> QED
  BY <1>4, <1>5, <1>6 DEF check_offered_loan
\* A step of the borrower that writes one contract and neither its escrow nor its preimage.
LEMMA BorrowerWrites ==
    ASSUME SwapInv, SwapInv', LoanInv, ChainGrows,
           UNCHANGED <<escrowTxid, loanPreimage, fundTx>>, UNCHANGED btcVars,
           pc'[Lender] = pc[Lender], BorrowerAt',
           NEW o \in Offers, NEW state, SetContract(Borrower, o, state),
           contract[Borrower][o] \in Past => state \in Past,
           state \in Final => LenderSigned(o),
           state \in Paid => contract[Borrower][o] \in Paid \/ PaidFor(o),
           \/ UNCHANGED inbox
           \/ \E n \in Nodes : inbox[n] # <<>> /\ inbox' = Taken(n)
           \/ \E n \in Nodes : Panic(n)
    PROVE  LoanInv'
<1>1. TypeOK /\ TypeOK' /\ Borrower \in Nodes /\ Lender \in Nodes \ {Borrower}
  BY NodesAssumption DEF SwapInv, Nodes
<1>2. contract'[Lender] = contract[Lender]
  BY <1>1, SetParts
<1>3. LenderStill
  BY <1>2 DEF LenderStill, btcVars
<1>4. StoreGrows /\ StoreInv'
  BY <1>1, <1>3, BorrowerStores DEF LoanInv
<1>5. Mail'
  BY <1>4, MailStep DEF LoanInv
<1> QED
  BY <1>3, <1>4, <1>5, LenderWaits DEF LoanInv

\* The borrower stores the lender's offer, or its process ends on an offer it has.
LEMMA OfferStored ==
    ASSUME SwapInv, SwapInv', LoanInv, ChainGrows, on_offer_loan_message
    PROVE  LoanInv'
<1>1. TypeOK /\ Lender \in Nodes \ {Borrower} /\ Borrower \in Nodes
  BY NodesAssumption DEF SwapInv, Nodes
<1>2. /\ inbox[Borrower] # <<>> /\ pc[Borrower] = Idle /\ UNCHANGED btcVars
      /\ UNCHANGED <<escrowTxid, loanPreimage, fundTx>>
  BY DEF on_offer_loan_message, Receives, Ready
<1>3. PICK o \in Offers : o = Head(inbox[Borrower]).offer
  BY <1>1, <1>2, TakenType, MessageFields
<1>4. CASE /\ contract[Borrower][o] = "None" /\ SetContract(Borrower, o, "OfferedLoan")
           /\ inbox' = Taken(Borrower) /\ UNCHANGED <<up, pc, todo>>
  <2>1. BorrowerAt'
    BY <1>2, <1>4, NowhereAt
  <2>2. "OfferedLoan" \notin Final /\ "OfferedLoan" \notin Paid /\ contract[Borrower][o] \notin Past
    BY <1>4 DEF Final, Paid, Past
  <2> QED
    BY <1>1, <1>2, <1>4, <2>1, <2>2, BorrowerWrites
<1>5. CASE Panic(Borrower) /\ UNCHANGED contract
  BY <1>2, <1>5, BorrowerEnds DEF storeVars
<1> QED
  BY <1>3, <1>4, <1>5 DEF on_offer_loan_message

\* The borrower stores the escrow it has just broadcast for the offer.
LEMMA EscrowStored ==
    ASSUME SwapInv, SwapInv', LoanInv, ChainGrows, set_escrow_txid
    PROVE  LoanInv'
<1>1. TypeOK /\ TypeOK' /\ Lender \in Nodes \ {Borrower} /\ Borrower \in Nodes
  BY NodesAssumption DEF SwapInv, Nodes
<1>2. pc[Borrower].at = "escrowSent" /\ pc[Borrower] \in Places
  BY <1>1 DEF set_escrow_txid, TypeOK
<1>3. PICK o \in Offers : o = pc[Borrower].offer
  BY <1>1, <1>2 DEF SwapInv, LocalInv, ActiveOffer
<1>4. PICK e \in Preimages : e = pc[Borrower].escrow
  BY <1>2 DEF LoanInv, BorrowerAt
<1>5. escrowFor[e] = o /\ contract[Borrower][o] = "OfferedLoan"
  BY <1>2, <1>3, <1>4 DEF LoanInv, BorrowerAt
<1>6. /\ UNCHANGED <<contract, loanPreimage, fundTx, inbox, todo>> /\ UNCHANGED btcVars
      /\ escrowTxid' = [escrowTxid EXCEPT ![o] = e]
      /\ Goto(Borrower, [pc[Borrower] EXCEPT !.at = "txidStored"])
  BY <1>3, <1>4 DEF set_escrow_txid
<1>7. escrowTxid'[o] = e /\ \A x \in Offers \ {o} : escrowTxid'[x] = escrowTxid[x]
  BY <1>1, <1>6 DEF TypeOK
<1>8. pc'[Borrower] = [pc[Borrower] EXCEPT !.at = "txidStored"] /\ pc'[Lender] = pc[Lender]
  BY <1>1, <1>6, GotoParts
<1>9. pc'[Borrower].at = "txidStored" /\ pc'[Borrower].offer = o
  BY <1>2, <1>3, <1>8 DEF Places
<1>10. BorrowerAt'
  BY <1>5, <1>6, <1>9 DEF BorrowerAt
<1>11. LenderStill /\ \A x \in Offers : LenderSigned(x)' <=> LenderSigned(x)
  BY <1>6, <1>8 DEF LenderStill, LenderSigned, btcVars
<1>12. contract[Borrower][o] \notin Past /\ contract[Borrower][o] \notin Paid
  BY <1>5 DEF Past, Paid
<1>13. StoreGrows
  BY <1>6, <1>7, <1>11, <1>12 DEF StoreGrows
<1>14. StoreInv'
  <2>1. collateralTxs' = collateralTxs /\ escrowFor' = escrowFor
    BY <1>6 DEF btcVars
  <2>2. \A x \in Offers : escrowTxid'[x] = escrowTxid[x] \/ escrowFor'[escrowTxid'[x]] = x
    BY <1>5, <1>7, <2>1
  <2>3. \A x \in Offers : contract'[Borrower][x] \in Paid =>
           contract[Borrower][x] \in Paid /\ escrowTxid'[x] = escrowTxid[x] /\ loanPreimage'[x] = loanPreimage[x]
    BY <1>6, <1>7, <1>12
  <2> QED
    BY <1>1, <1>6, <1>11, <1>13, <2>1, <2>2, <2>3, StoreFrom DEF LoanInv
<1>15. Mail'
  BY <1>6, <1>13, MailStep DEF LoanInv
<1> QED
  BY <1>10, <1>11, <1>13, <1>14, <1>15, LenderWaits DEF LoanInv

\* The borrower stores the preimage of the escrow.
LEMMA PreimageStored ==
    ASSUME SwapInv, SwapInv', LoanInv, ChainGrows, set_loan_preimage
    PROVE  LoanInv'
<1>1. TypeOK /\ TypeOK' /\ Lender \in Nodes \ {Borrower} /\ Borrower \in Nodes
  BY NodesAssumption DEF SwapInv, Nodes
<1>2. pc[Borrower].at = "txidStored" /\ pc[Borrower] \in Places
  BY <1>1 DEF set_loan_preimage, TypeOK
<1>3. PICK o \in Offers : o = pc[Borrower].offer
  BY <1>1, <1>2 DEF SwapInv, LocalInv, ActiveOffer
<1>4. contract[Borrower][o] = "OfferedLoan"
  BY <1>2, <1>3 DEF LoanInv, BorrowerAt
<1>5. /\ UNCHANGED <<contract, escrowTxid, fundTx, inbox, todo>> /\ UNCHANGED btcVars
      /\ loanPreimage' = [loanPreimage EXCEPT ![o] = pc[Borrower].hash]
      /\ Goto(Borrower, [pc[Borrower] EXCEPT !.at = "preimageStored"])
  BY <1>3 DEF set_loan_preimage
<1>6. \A x \in Offers \ {o} : loanPreimage'[x] = loanPreimage[x]
  BY <1>1, <1>5 DEF TypeOK
<1>7. pc'[Borrower] = [pc[Borrower] EXCEPT !.at = "preimageStored"] /\ pc'[Lender] = pc[Lender]
  BY <1>1, <1>5, GotoParts
<1>8. pc'[Borrower].at = "preimageStored"
  BY <1>2, <1>7 DEF Places
<1>9. LenderStill /\ \A x \in Offers : LenderSigned(x)' <=> LenderSigned(x)
  BY <1>5, <1>7 DEF LenderStill, LenderSigned, btcVars
<1>10. contract[Borrower][o] \notin Paid
  BY <1>4 DEF Paid
<1>11. StoreGrows
  BY <1>5, <1>9 DEF StoreGrows
<1>12. StoreInv'
  <2>1. collateralTxs' = collateralTxs
    BY <1>5 DEF btcVars
  <2>2. \A x \in Offers : contract'[Borrower][x] \in Paid =>
           contract[Borrower][x] \in Paid /\ escrowTxid'[x] = escrowTxid[x] /\ loanPreimage'[x] = loanPreimage[x]
    BY <1>5, <1>6, <1>10
  <2> QED
    BY <1>1, <1>5, <1>9, <1>11, <2>1, <2>2, StoreFrom DEF LoanInv
<1>13. Mail'
  BY <1>5, <1>11, MailStep DEF LoanInv
<1> QED
  BY <1>8, <1>9, <1>11, <1>12, <1>13, LenderWaits, NowhereAt DEF LoanInv
\* The rest of the turn: the escrow of a claimed loan is deep enough, or not yet.
LEMMA EscrowConfirmed ==
    ASSUME SwapInv, SwapInv', LoanInv, ChainGrows, confirm_escrow
    PROVE  LoanInv'
<1>1. TypeOK /\ TypeOK' /\ Lender \in Nodes \ {Borrower} /\ Borrower \in Nodes
  BY NodesAssumption DEF SwapInv, Nodes
<1>2. pc[Borrower].at = "claimed"
  BY DEF confirm_escrow
<1>3. PICK o \in Offers : o = pc[Borrower].offer
  BY <1>1, <1>2 DEF SwapInv, LocalInv, ActiveOffer
<1>4. /\ todo \subseteq EscrowedOffers /\ o \in todo
      /\ loanPreimage[o] \in Preimages /\ claims[loanPreimage[o]] > 0
  BY <1>2, <1>3 DEF LoanInv, BorrowerAt
<1>5. /\ contract' = IF EscrowDepth(o) >= NB_CONFIRMATIONS
                     THEN [contract EXCEPT ![Borrower][o] = "OfferedLoanEscrowConfirmed"]
                     ELSE contract
      /\ todo' = todo \ {o} /\ inbox' = inbox /\ UNCHANGED btcVars
      /\ UNCHANGED <<escrowTxid, loanPreimage, fundTx>>
      /\ Goto(Borrower, At("check", NoOffer, NoPreimage, NoPreimage, TRUE))
  BY <1>3 DEF confirm_escrow
<1>6. /\ pc'[Borrower] = At("check", NoOffer, NoPreimage, NoPreimage, TRUE)
      /\ pc'[Lender] = pc[Lender]
  BY <1>1, <1>5, GotoParts
<1>7. pc'[Borrower].at = "check"
  BY <1>6 DEF At
<1>8. CASE EscrowDepth(o) >= NB_CONFIRMATIONS
  <2>1. SetContract(Borrower, o, "OfferedLoanEscrowConfirmed")
    BY <1>5, <1>8 DEF SetContract
  <2>2. \A x \in Offers \ {o} : contract'[Borrower][x] = contract[Borrower][x]
    BY <1>1, <2>1, SetParts
  <2>3. todo' \subseteq EscrowedOffers'
    BY <1>4, <1>5, <2>2 DEF EscrowedOffers
  <2>4. BorrowerAt'
    BY <1>7, <2>3 DEF BorrowerAt
  <2>5. escrowTxid[o] \in Preimages /\ escrowTxid[o] # NoPreimage /\ contract[Borrower][o] = "OfferedLoan"
    BY <1>1, <1>4 DEF EscrowedOffers, TypeOK
  <2>6. EscrowDepth(o) \in 0 .. NB_CONFIRMATIONS
    BY <1>1, <2>5 DEF TypeOK, TxKinds, EscrowDepth
  <2>7. EscrowDepth(o) = NB_CONFIRMATIONS
    BY <1>8, <2>6, ConfirmationsAssumption
  <2>8. PaidFor(o)
    BY <1>4, <2>5, <2>7, NoOfferAssumption DEF PaidFor
  <2>9. "OfferedLoanEscrowConfirmed" \notin Final /\ contract[Borrower][o] \notin Past
    BY <2>5 DEF Final, Past
  <2> QED
    BY <1>5, <1>6, <2>1, <2>4, <2>8, <2>9, BorrowerWrites
<1>9. CASE ~(EscrowDepth(o) >= NB_CONFIRMATIONS)
  <2>1. UNCHANGED storeVars
    BY <1>5, <1>9 DEF storeVars
  <2>2. EscrowedOffers' = EscrowedOffers
    BY <2>1 DEF EscrowedOffers, storeVars
  <2>3. BorrowerAt'
    BY <1>4, <1>5, <1>7, <2>2 DEF BorrowerAt
  <2> QED
    BY <1>5, <1>6, <2>1, <2>3, BorrowerRests DEF btcVars
<1> QED
  BY <1>8, <1>9

\* The borrower accepts with the escrow it stored.
LEMMA OfferAccepted ==
    ASSUME SwapInv, SwapInv', LoanInv, ChainGrows, NEW o \in Offers, NEW valid \in BOOLEAN,
           accept_loan_contract_offer(o, valid)
    PROVE  LoanInv'
<1>1. TypeOK /\ TypeOK' /\ Lender \in Nodes \ {Borrower} /\ Borrower \in Nodes
  BY NodesAssumption DEF SwapInv, Nodes
<1>2. /\ contract[Borrower][o] = "OfferedLoanEscrowConfirmed" /\ SetContract(Borrower, o, "Accepted")
      /\ Goto(Borrower, At("acceptStored", o, escrowTxid[o], loanPreimage[o], valid))
      /\ UNCHANGED <<escrowTxid, loanPreimage, fundTx>> /\ UNCHANGED btcVars /\ UNCHANGED inbox
  BY DEF accept_loan_contract_offer, accept_loan_contract
<1>3. /\ pc'[Borrower] = At("acceptStored", o, escrowTxid[o], loanPreimage[o], valid)
      /\ pc'[Lender] = pc[Lender]
  BY <1>1, <1>2, GotoParts
<1>4. /\ pc'[Borrower].at = "acceptStored" /\ pc'[Borrower].offer = o
      /\ pc'[Borrower].escrow = escrowTxid[o]
  BY <1>3 DEF At
<1>5. contract'[Borrower][o] = "Accepted"
  BY <1>1, <1>2, SetParts
<1>6. BorrowerAt'
  BY <1>2, <1>4, <1>5 DEF BorrowerAt, AcceptedWith, Past
<1>7. "Accepted" \in Past /\ "Accepted" \notin Final /\ contract[Borrower][o] \in Paid
  BY <1>2 DEF Past, Final, Paid
<1> QED
  BY <1>2, <1>3, <1>6, <1>7, BorrowerWrites

\* The borrower verifies the lender's signatures.
LEMMA SignatureChecked ==
    ASSUME SwapInv, SwapInv', LoanInv, ChainGrows, on_sign_message
    PROVE  LoanInv'
<1> DEFINE m == Head(inbox[Borrower])
<1>1. TypeOK /\ Lender \in Nodes \ {Borrower} /\ Borrower \in Nodes
  BY NodesAssumption DEF SwapInv, Nodes
<1>2. /\ inbox[Borrower] # <<>> /\ pc[Borrower] = Idle /\ UNCHANGED btcVars /\ m.type = "Sign"
      /\ UNCHANGED <<escrowTxid, loanPreimage, fundTx>>
  BY DEF on_sign_message, Receives, Ready
<1>3. PICK o \in Offers : o = m.offer
  BY <1>1, <1>2, TakenType, MessageFields
<1>4. LenderSigned(o)
  <2>1. inbox[Borrower] \in Seq(Messages)
    BY <1>1 DEF TypeOK
  <2>2. 1 \in 1 .. Len(inbox[Borrower]) /\ m = inbox[Borrower][1]
    BY <1>2, <2>1
  <2>3. Says(inbox[Borrower][1])
    BY <1>1, <2>2 DEF LoanInv, Mail
  <2> QED
    BY <1>2, <1>3, <2>2, <2>3 DEF Says
<1>5. /\ "Signed" \in Past /\ "FailedSign" \in Past /\ "FailedSign" \notin Final /\ "FailedSign" \notin Paid
      /\ "Accepted" \in Paid
  BY DEF Past, Final, Paid
<1>6. CASE /\ contract[Borrower][o] = "Accepted" /\ SetContract(Borrower, o, "Signed")
           /\ inbox' = Taken(Borrower) /\ UNCHANGED <<up, pc, todo>>
  <2>1. BorrowerAt'
    BY <1>2, <1>6, NowhereAt
  <2> QED
    BY <1>1, <1>2, <1>4, <1>5, <1>6, <2>1, BorrowerWrites
<1>7. CASE /\ contract[Borrower][o] = "Accepted" /\ SetContract(Borrower, o, "FailedSign")
           /\ Panic(Borrower)
  <2>1. BorrowerAt' /\ pc'[Lender] = pc[Lender]
    BY <1>1, <1>7, PanicParts, NowhereAt
  <2> QED
    BY <1>1, <1>2, <1>5, <1>7, <2>1, BorrowerWrites
<1>8. CASE Panic(Borrower) /\ UNCHANGED contract
  BY <1>2, <1>8, BorrowerEnds DEF storeVars
<1> QED
  BY <1>3, <1>6, <1>7, <1>8 DEF on_sign_message

\* A block, or nothing.
LEMMA NodesRest ==
    ASSUME SwapInv, SwapInv', LoanInv, ChainGrows, UNCHANGED <<nodeVars, storeVars, escrowFor, collateralTxs>>
    PROVE  LoanInv'
<1>1. BorrowerStill
  BY DEF BorrowerStill, nodeVars, storeVars
<1>2. BorrowerAt'
  BY <1>1, BorrowerWaits DEF LoanInv
<1>3. UNCHANGED inbox /\ pc'[Lender] = pc[Lender]
  BY DEF nodeVars
<1> QED
  BY <1>2, <1>3, BorrowerRests

\* Initially nothing is stored, sent or broadcast.
LEMMA InitLoan == Init => LoanInv
<1> SUFFICES ASSUME Init PROVE LoanInv
  OBVIOUS
<1>1. Borrower \in Nodes /\ Lender \in Nodes
  BY DEF Nodes
<1>2. \A n \in Nodes : pc[n].at = "idle" /\ inbox[n] = <<>>
  BY DEF Init, Idle
<1>3. \A n \in Nodes, o \in Offers : contract[n][o] = "None"
  BY DEF Init
<1>4. collateralTxs = {} /\ \A o \in Offers : escrowTxid[o] = NoPreimage
  BY DEF Init
<1>5. BorrowerAt /\ LenderAt
  BY <1>1, <1>2 DEF BorrowerAt, LenderAt
<1>6. Mail
  BY <1>2 DEF Mail
<1>7. \A n \in Nodes, o \in Offers : contract[n][o] \notin Final /\ contract[n][o] \notin Paid
  BY <1>3 DEF Final, Paid
<1>8. StoreInv
  BY <1>1, <1>4, <1>7 DEF StoreInv, LenderSigned, ConfirmedEscrowIsPaid, Paid
<1> QED
  BY <1>5, <1>6, <1>8 DEF LoanInv

\* Every step keeps the stores in agreement.
LEMMA NextLoan == SwapInv /\ SwapInv' /\ LoanInv /\ [Next]_vars => LoanInv'
<1> SUFFICES ASSUME SwapInv, SwapInv', LoanInv, [Next]_vars PROVE LoanInv'
  OBVIOUS
<1>1. ChainGrows
  BY ChainsGrow
<1>2. CASE LenderStep
  <2>1. CASE on_initiate_accept_loan_message
    BY <1>1, <2>1, LenderTurns DEF on_initiate_accept_loan_message
  <2> QED
    BY <1>1, <1>2, <2>1, LoanOffered, CollateralBroadcast, AcceptanceVerified, SignatureSent,
       SigsAreBoolean DEF LenderStep
<1>3. CASE BorrowerStep
  BY <1>1, <1>3, OfferStored, EscrowBroadcast, EscrowStored, PreimageStored, BorrowerSends,
     OfferChecked, EscrowConfirmed, OfferAccepted, SignatureChecked, SigsAreBoolean DEF BorrowerStep
<1>4. ASSUME NEW n \in Nodes, CheckStep(n) \/ Kill(n) \/ Restart(n) PROVE LoanInv'
  <2>1. CASE check_signed_contracts(n)
    BY <1>1, <2>1, SignedChecked
  <2>2. CASE list_contracts(n)
    <3>1. CASE n = Lender
      BY <1>1, <2>2, <3>1, LenderTurns DEF list_contracts
    <3>2. CASE n = Borrower
      BY <1>1, <2>2, <3>2, CheckBegins
    <3> QED
      BY <3>1, <3>2 DEF Nodes
  <2>3. CASE Kill(n) \/ Restart(n)
    <3>1. UNCHANGED storeVars /\ UNCHANGED btcVars /\ (Panic(n) \/ Restart(n))
      BY <2>3 DEF Kill, Restart
    <3>2. CASE n = Lender
      BY <1>1, <3>1, <3>2, LenderTurns
    <3>3. CASE n = Borrower
      BY <1>1, <3>1, <3>3, BorrowerEnds
    <3> QED
      BY <3>2, <3>3 DEF Nodes
  <2> QED
    BY <1>4, <2>1, <2>2, <2>3 DEF CheckStep
<1>5. CASE MineBlock
  BY <1>1, <1>5, NodesRest DEF MineBlock
<1>6. CASE UNCHANGED vars
  BY <1>1, <1>6, NodesRest DEF vars, btcVars
<1> QED
  BY <1>2, <1>3, <1>4, <1>5, <1>6 DEF Next

\* The stores agree in every reachable state.
LEMMA LoanInvariant == Spec => []LoanInv
<1> QED
  BY InitLoan, NextLoan, SwapInvariant, PTL DEF Spec

(* Both stores agree on a signed loan and on the collateral transaction     *)
(* that funds it, wherever a node crashed and whatever was lost: the        *)
(* borrower signs last, on a Sign message that the lender sends only after  *)
(* it stored its own signed contract.                                       *)
THEOREM BothSignTogether == Spec => []SignedTogether
<1>1. LoanInv => SignedTogether
  <2> SUFFICES ASSUME LoanInv, NEW o \in Offers, contract[Borrower][o] \in Final
               PROVE  /\ contract[Lender][o] \in Final
                      /\ fundTx[o] = escrowTxid[o] /\ fundTx[o] \in collateralTxs
    BY DEF SignedTogether, Final
  <2>1. LenderSigned(o)
    BY DEF LoanInv, StoreInv
  <2> QED
    BY <2>1 DEF LoanInv, StoreInv, LenderSigned, AcceptedWith
<1> QED
  BY <1>1, LoanInvariant, PTL

(* No offer consumes two escrows: a collateral transaction spends the       *)
(* escrow the borrower accepted with, which it stored before and cannot     *)
(* replace once it accepted.                                                *)
THEOREM EscrowsAreSpentOnce == Spec => []OneCollateralPerOffer
<1>1. LoanInv => OneCollateralPerOffer
  <2> SUFFICES ASSUME LoanInv, NEW p \in collateralTxs, NEW q \in collateralTxs, escrowFor[p] = escrowFor[q]
               PROVE  p = q
    BY DEF OneCollateralPerOffer
  <2> QED
    BY DEF LoanInv, StoreInv, AcceptedWith
<1> QED
  BY <1>1, LoanInvariant, PTL

(* Past the escrow check the borrower was paid and its escrow is deep, even *)
(* when the acceptance was repeated under another preimage: what it stored  *)
(* for the offer cannot change between the claim and the acceptance.        *)
THEOREM ConfirmedMeansPaid == Spec => []ConfirmedEscrowIsPaid
<1>1. LoanInv => ConfirmedEscrowIsPaid
  BY DEF LoanInv, StoreInv
<1> QED
  BY <1>1, LoanInvariant, PTL

=============================================================================
