# Verification of p2p-btc-lending

TLA+ models of the lending system in this repository, the TLC runs that check
them on small instances, and theorems about them that TLAPS proves for every
value of the constants. `PROJECT.json` maps every definition to the source lines
it models and lists runs, mutants, findings, hazards and theorems.

## 1. The system

| component | state it keeps | operations | interacts with |
|---|---|---|---|
| `src/P2PBTCLending.sol` (EVM) | borrow requests, BTC loans, hash-locked stable loans, one token balance shared by all three | `requestBorrow`, `cancelBorrowRequest`, `lend`, `repay`, `liquidate`, `lendStable`, `claimStable`, `setTestMode` | ERC20 token, two price feeds, the Bitcoin light client |
| `src/SimplePriceFeed.sol` | last answer | `setRoundData` | read by the contract |
| loan flow of the DLC manager (`dlc-manager/src/manager.rs`, `contract_updater.rs`) | contract state, escrow txid and preimage per offer, in a sled store | offer, initiate accept, escrow check, accept, sign, confirm | the peer's messages, Bitcoin, the contract above |
| plain DLC lifecycle (same files) | contract state | offer, accept, sign, confirm, close, refund | peer, Bitcoin, oracle |
| DLC channels (`channel_updater.rs`, `channel/`) | channel state, roll-back state, update index, per-update secrets | settle, renew, collaborative and unilateral close, revocation | peer, Bitcoin, chain monitor |
| chain monitor | watched transactions, last height | `process_transactions_in_block`, clean-up | channels |
| sled storage | trees of contracts, channels, keys, UTXOs | transactional updates | manager, wallet |
| message handler, segmentation | received and pending messages, partial segments | queue, segment, reassemble | LDK peer manager, CLI |
| `dlc-trie` | tries from digit prefixes to CETs | group, insert, look up, iterate | contract info |
| payout curves, descriptors | none (pure) | range payouts, rounding, validation | contract info |
| `dlc` (transactions) | none (pure) | funding, CET, refund, buffer, settle, punish transactions | updaters |
| `simple-wallet` | UTXOs with a reserved flag | reserve, unreserve, refresh | storage, blockchain |
| CLI | none | one command per input line; received messages are handled before each command, and any `Err` ends the process (`.expect`) | everything |

What is hard here: the two nodes are separate processes that crash, restart and
lose queued messages; a handler makes several irreversible effects (a broadcast,
an EVM transaction, two store writes) that are not atomic; users repeat commands
and give them too early; the same loan lives on two chains and in two stores; the
contract re-prices collateral from feeds that move between two calls; all users
share one token balance. In a channel every update is four or five messages in
which the two sides revoke what they hold one after the other; offers cross,
answers are lost or come after the time-out, and the chain may confirm an old
transaction at any point in between.

What makes the parts correct:

* contract: the balance covers what is owed; a request funds one loan; a recorded
  stable loan is final; a loan whose collateral has become too small is liquidated;
* loan flow: no payout without an escrow, no move of the escrow without a payout,
  both stores agree on a signed loan, one collateral transaction per offer, and
  an offered loan is eventually confirmed when nothing fails;
* channels: an old state that is broadcast is always punishable, a party always
  holds a transaction it has not revoked, the two parties never disagree on the
  state of a quiescent channel, an update completes when nothing fails and a
  stalled one is eventually closed;
* contracts: a fund output is complete only when both nodes hold what they need
  to end alone, one record per contract, a CET is spent only when enough oracles
  attested its outcome, a refund only when due, and the two records end with what
  the chain decided;
* from curve to CET: ranges pay what the curve says, both nodes number the
  adaptor signatures alike, and what a look-up selects decrypts with the
  attestations and pays the attested outcome;
* wallet and amounts: a coin is promised once, each transaction is covered by the
  one it spends;
* message handler: what is delivered was sent, whole, in order and once.

## 2. Modules

| module | models | extended by |
|---|---|---|
| `StableLending` | token balances, feeds, `lendStable`, `claimStable`, `setRoundData` | `LendingContract`, `LoanProtocol` |
| `LendingContract` | the whole contract | `MCLendingContract`, `LendingContractProofs` |
| `LoanProtocol` | the two nodes, their stores and queues, Bitcoin, and the stable half of the contract they call | `MCLoanProtocol`, `LoanProtocolProofs` |
| `DlcChannel` | two nodes with a DLC channel, their chain monitors, the connection and the spending of the fund output | `MCDlcChannel`, `DlcChannelProofs` |
| `DlcContract` | a contract outside of a channel: two stores, messages, oracles, two mempools and the chain | `MCDlcContract`, `DlcContractProofs` |
| `ContractOutcome` | abstract: what a contract promises; `DlcContract` implements it (`INSTANCE ... WITH`) | |
| `Digits`, `PayoutCurve`, `EnumDescriptor` | digits of a number; payout functions, rounding and ranges; enumerated events | `ContractCets` |
| `ContractCets` | validation, ranges and CETs, and an abstract list of adaptor signatures with what it promises | `ContractInfo`, `ContractCetsProofs` |
| `DigitGroups`, `DigitTrie`, `MultiOracle`, `MultiTrie` | digit prefixes of an interval, the trie of one oracle, prefixes of several oracles, the trie of tries | `ContractInfo` |
| `ContractInfo` | composes the modules above: how signatures are generated, numbered and looked up in the tries; implements `ContractCets` | `MCContractInfo` |
| `Transactions` | amounts, fees, change and dust of the transactions | `Funding` |
| `Funding` | the wallet's coins and the contracts, channels and loans that take them | `MCFunding`, `FundingProofs` |
| `Segments` | message handler, segmentation, readers and connections | `MCSegments`, `SegmentsProofs` |
| `MC...` | model values, instances and symmetry for TLC | |
| `SumLemmas` | least elements, induction over sets, sums over finite sets, products and division | all of the next row but `DlcChannelProofs` |
| `LendingContractProofs`, `LoanProtocolProofs`, `DlcContractProofs`, `DlcChannelProofs`, `FundingProofs`, `SegmentsProofs`, `ContractCetsProofs` | theorems | |

### StableLending, LendingContract

One action per external function. An EVM transaction is atomic, so a `require`
is a guard and a reverted call is no step. `balances` holds the token balances,
`loans` is keyed by `<<lender, borrower>>` as in the contract. sha256 is taken as
collision free, so a hash is named by its preimage. The light client is the set
`btcChain` of payments it can prove; `lend` reads it unless `testMode` is on.
`signedPsbt` and the two address fields of a `Loan` are never read and are left
out. Amounts are unbounded integers: Solidity 0.8 reverts on overflow, and no
amount a token supply can represent reaches it.

Three history variables only serve properties: `claims` counts payouts of a
hash, `deposits` remembers what was taken for the loan of a pair, and `drift`
sums deposit minus payout over closed loans.

### LoanProtocol

`contract[n][o]` is the state of node n's copy of offer o. The manager replaces
a temporary contract id by the final one when it stores `Accepted`/`Signed`; the
model keeps the temporary id. `escrowTxid`, `loanPreimage` and `fundTx` are
stored values. The store and the chains survive a crash, `inbox` and `pc` do
not. `pc` is the position between two effects of a handler; a handler that has
only one effect is one action. `initiate_accept_loan_contract_offer` is four
actions (broadcast, `set_escrow_txid`, `set_loan_preimage`, send), the lender's
`on_accept_loan_message` three (broadcast, verify and store, send), a turn of
`check_offered_loan_contracts_for_escrow` two (claim, update). `Panic` is what an
`Err` does through the CLI's `.expect`: the process ends with its queue. A
transaction on Bitcoin is named by the preimage of its hash lock; a witness
completed with the preimage read from the EVM chain is valid when it satisfies
that lock (`SpendIsValid`). Whether a counterparty's CET and refund signatures
verify is an input (`SigOutcomes`).

### DlcChannel

`channel[p]` is the `SignedChannel` in the store of node p: its state, its
`roll_back_state`, update index, the current per-update point of each side and
the secrets received from the other side. `confirmed` holds the nodes whose first
contract `check_signed_contracts` has moved from Signed to Confirmed;
`get_collaboratively_closed_contract` ends a superseded contract and is an `Err`
until then (contracts of a renewal are stored as Confirmed). An operator named like a function of
`channel_updater.rs` (with the prefix `updater_` where the manager has a
function of the same name) gives the new channel; an action named like a method
of `Manager` is the whole call or handler, with its change of the chain monitor
and its reply. The code's index counts down from 2^48 - 1, the model's up from
0. Points and secrets are named by their update, contracts by the update that
established them; a signature that the code verifies is valid exactly when both
sides built the same transaction, and a message of the setup may fail its
verification (`Validity`).

`watch[p]` holds `watched_tx` and `watched_txo`, `saved[p]` the copy that
`persist_chain_monitor` wrote last; `Restart` reads it back and loses what was on
its way to the node. A process that ends inside a handler does so after a
transaction was sent and nothing stored (`CrashAfterSend`), or after the channel
was stored and the monitor and the answer were not (`CrashAfterStore`, in a call of
the user `CrashInCall`). `funded`
says whether Bitcoin has the fund transaction, `spend` is the one transaction that
spends the fund output, `output` what spends that transaction's output. A
transaction is sent and may be
confirmed any time later, so each node sees it in a step of its own
(`SeeBufferTx`, `SeeRevoked`, ...), one per branch of `process_watched_txs`. A
handler that returns `Err` changes nothing (`Ignore`), but for the last steps of a
settlement, whose `Err` over a contract that is not Confirmed comes after the
change of the monitor (`fail_settlement`); a failed `.expect()` ends the
process and the status names it. Time is abstract: a time-out may fire in any
state the periodic check looks at. The loss of a message (`Lose`) stands for a
connection that breaks: nothing is sent again. `revealed` is history.

A behaviour starts without a channel, in one of the `Environments`, which say what
may go wrong, who proposes and closes, and whether users wait until both contracts
are Confirmed before they propose an update (`patient`); `env` never changes. This
lets one run check safety where everything may happen (`Rough`), processes end
inside handlers (`Crashing`), users do not wait (`Hasty`) or messages are read by
`read_dlc_message` (`Wired`), and `UpdatesComplete` where nothing goes wrong (`Quiet`).
Two conjuncts except the last fault: a node that crashes between its two writes
no longer watches the superseded transaction (`OldUpdatesAreWatched`), and one
that crashes after publishing takes its own transaction for the other's
(`ClosedAsPublished`).

### DlcContract, ContractOutcome

`store[p]` is node p's contract tree with its two ids, so that the move of a
record from the temporary to the final id is a step that could go wrong. A
record keeps which signatures of the other node were stored (`sigs`). Each node
has its own Bitcoin node: `mempool[p]` refuses what conflicts with what it holds,
and a block (`SpendBlock`) takes the transaction of either. A CET is named by the
outcome it pays for; whether the oracles' outcomes agree, and which of them
answered (`reached`), decides what a check can do. `CrashAfterSend` is the
process that ends after `send_transaction` and before the store is written.
`FirstSigner` is the node whose key is first in the script: the witness of the
other is in the wrong order and refused (`sign_multi_sig_input`).

`ContractOutcome` has three variables: what the chain decided, whether the refund
is due and what each record ended with. The refinement maps the first to `spend`,
the second to the clock, the third to the state of the record. A refund is
recorded when it is sent, as the code does, so the abstract record of a refund
may come before the chain's decision, even against it; a closed record may not.

### ContractCets, ContractInfo and the modules it composes

A behaviour takes one contract of `Contracts` through `validate`, the payout
function (one piece per step), the tries (one range per step), the counterparty's
numbering of the signatures, and the look-up for every attestation. Payouts are
exact fractions where the code has `f64`; a polynomial is interpolated as the
code does, a hyperbola has the shape of the sample loan. CETs and adaptor
signatures are their indexes, and the content of a signature is what it was made
for: its CET and, per oracle, its digit prefix. The reference definitions of the
properties are stated on outcomes and payouts and know nothing of digits, tries
or combinations.

`ContractCets` has validation, the payout function and attestations as the code
has them, and leaves open how signatures are made and found: a range gets *any*
list of signatures that is for no other outcome and has one for every outcome of
the range and every selection of oracles that agree (`ForRange`, `RangeServed`);
closing takes any listed signature that the attestations decrypt, and finds none
only when there is none. `ContractInfo` adds the two tries: `generate` cuts the
ranges into prefixes and inserts them, the look-up strips leading zeros, groups
what the oracles attested and walks the tries. That this implements
`ContractCets`, with the same values of the shared variables, is `ImplementsCets`,
which TLC checks step by step. The theorems are about what both specifications
share, the ranges; nothing is proved of the tries. The arena of the
tries is nesting and the grouping goes back and forth over the digits, so these
modules use `RECURSIVE` operators; `ContractCets` reaches none.

Neither the refinement nor `PaysTheAttestedOutcome` holds for one kind of contract
that the validators accept: a threshold of one, an allowed difference and an oracle
with more digits than another, whose paths are not padded (see the list at the end
of section 3). Both say so (`PathsArePadded`); two contracts of the run are of this
kind, for the other properties.

A flat piece of the payout function is not rounded again by the code.
`RangesFollowTheCurve` claims the rounded payouts for functions whose flat pieces
round to one value (`FlatNeedsNoRounding`), and everything else for all.

### Transactions, Funding

`Transactions` are pure operators with the code's weights, fees, dust limit and
roundings; subtracting below zero is the result `panic`. `Funding` is one node's
wallet (`SimpleWallet` with its sled tree) and up to two deals that compete for
its coins: reservation, a failure after it, the fund transaction or escrow and
collateral transaction, release, refresh from the chain, emptying. The command
line uses Bitcoin Core's wallet instead, whose reservation is `lockunspent`.

### Segments

`MsgEvents` and received messages per node, one segment reader per peer, what the
connection carries, and the threads of the command line that take messages.
Bytes are represented by the message and the positions they come from, so
reassembly from wrong or mixed segments shows. The peer manager of the LDK is
external: it takes the whole queue, keeps order, loses what is in flight when a
connection ends, and disconnects a peer whose message the handler refuses.

What the models take for granted: the assertion in
`create_fund_transaction_with_fees` fails for every contract and channel (run
`funding_assert`), so `DlcContract` and `DlcChannel` model the code beyond it.
Loans use `create_loan_expiration_dlc_transactions`, which has no such assertion.

## 3. Runs

| run | what it shows |
|---|---|
| `lending` | two accounts, two hashes, two BTC prices, one tick of interest: types, `BalanceIsAccountedFor`, `StableLoanIsFinal`, `RequestFundsOneLoan` |
| `lending_liquidation` | finding: a deposit that a price move has put below the threshold cannot be liquidated |
| `loan` | two offers or one accepted twice, one killed process, lossy links, bad signatures: both sides of the swap, agreement of the stores, one collateral transaction per offer; and one offer where nothing fails: it ends `Confirmed` on both sides |
| `loan_crash` | finding: a crash between two store writes loses the preimage |
| `channel` | setup, updates, rejects, closing together and alone, losses, restarts, crashes inside handlers, time-outs, bad signatures, hasty users, messages read from the wire: `CanCloseUnrevoked`, `FundedWhenBothSigned`, `OldUpdatesAreWatched`, `StableTogether`, `ClosedAsPublished`, and `UpdatesComplete` in the quiet environment |
| `channel_punished` | finding: a time-out in `SettledConfirmed` publishes a revoked transaction |
| `contract` | a contract from offer to end: `FundedTogether`, `OneRecordPerContract`, `SpendIsEarned`, the refinement `ImplementsOutcome`, and `ConfirmedEnds` under fairness |
| `contract_alone` | finding: the node whose key is not first can neither close nor refund by itself |
| `cets` | `RangesFollowTheCurve`, `SignedAsGenerated`, `ClosingSignatureDecrypts`, `PaysTheAttestedOutcome`, `AgreementCloses` and the refinement `ImplementsCets` for 25 contracts and all attestations |
| `funding` | `CoinsFundOneContract`, `LoanTransactionsAreCovered`, `PnlIsWhatWasAgreed` |
| `funding_assert` | finding: the assertion on the fund output fails for all inputs |
| `segments` | `ReceivedAsSent`, `OnlyUndeliverableFails`, `DeliveredWhileConnected` |

Bounds. `MaxTime = 1`: interest is zero or one step of a rate of 50%, both sides
of the liquidation test. The two preimages differ from 0, the default of the
contract's storage, so that an overwritten entry shows. `MaxClaims = 2` payouts in
all: two hashes, or one twice. `MaxEntries = 3` loans and hashes in all: two loans
and a stable loan share the balance, or one and two. Prices 1 and 2 make the
re-priced collateral differ from the deposit, 8 satoshis put loans above and
below the rounding limit. In the loan flow `NB_CONFIRMATIONS = 2` (6 in the code)
separates unconfirmed, shallow and deep; two preimages allow two offers or one
repeated acceptance; one kill reaches a crash between any two effects. A wallet
with 4 tokens covers two loans of 2.

In the channel `maxUpdates` bounds the updates: two cover settle then renew, the
third a renewal of a renewed contract and a settlement of it; five where nothing
goes wrong, three over the wire, two with crashes inside handlers or hasty users.
`closeFrom` leaves out offering to close from an offer to close (the
same step again); `acceptsOwn` lets a user accept its own renew offer, which the
code does not refuse. The contract has three oracles of which two must agree,
which mature together, one after the other, or so far apart that no refund lock
time is valid; `RefundDelay = 2` and `MaxTime = 5` put attestations before, at and
after the refund; two confirmations as above. The contracts of `cets` have three
to five binary digits, one to three oracles of equal and different digits, thresholds
of one to three, with and without an allowed difference, curves that rise, fall,
turn, are flat, leave a gap or leave out the maximum, and a collateral of 12,
rounded finely and coarsely; with these every branch of grouping, covering and
rounding is taken. The values of the three coins lie on, just below
and just above each threshold (required input, 100 satoshi more, the dust limit).
`MAX_DATA_SIZE` is 30 (65535 in the code) with the other sizes derived from it as
in the code; messages of 28, 30, 32, 42, 65 and 66 bytes are the longest that fits, one too
long for the wire and still whole, the shortest and the longest of two segments,
the longest of three and the shortest of four, with `MAX_SEGMENTS = 3`.

Deadlock is not checked where a system may really stop: all bounds used up, or
every loan, contract, channel or message finished.

Fairness. Loan flow (`LiveSpec`): blocks keep coming and include what was
broadcast (weak fairness of a block that deepens a given transaction). A running
handler goes on: weak fairness of the steps inside it, since nothing in the
process can disable them. Messages and commands: the CLI handles every received
message before each line the user types, and the README's walk-through has the
users give each command eventually; a periodic check in between disables these
steps for a while, so they get strong fairness. `LoanIsConfirmed` assumes (`Calm`)
no crash, no loss and a borrower who waits for the escrow (the CLI prints "Wait for escrow
confirmation then run listcontracts").

Channel (`LiveSpec`): each node handles the messages it gets and its user answers
offers, both continuously possible until done, so weak fairness. The antecedent
`Quiet` of `UpdatesComplete` excludes losses, time-outs, a second proposer (a
settle and a renew offer that cross leave both sides waiting for the time-out) and
users who propose before both contracts are Confirmed.

Contract (`FairSpec`): time passes, blocks come, and the periodic check is
repeated; a check that reaches all oracles is repeated too, since an oracle that
cannot be reached is asked again each time. `ConfirmedEnds` excepts a lost race
(`LostRace`): another CET was mined than the one a PreClosed contract names, or a
transaction that the CET which the attestations select conflicts with. A node that
crashed after sending is no exception: the next check finds its transaction mined. No fairness of users or of the
counterparty's messages. `AloneSpec` is fair to one node only.

Segments (`FairSpec`): the CLI calls `process_events` after each send and takes
received messages in a loop; the peer manager reads while there is something to
read. Connections need not last: `DeliveredWhileConnected` says what happens
while they do.

Seen in the models, without a run of their own:

* a settlement or renewal proposed before both contracts are Confirmed stays half
  done: the handlers of `SettleConfirm`, `SettleFinalize`, `RenewConfirm` and
  `RenewFinalize` return an `Err` (`manager.rs:2977`) and nothing is sent again, while
  the comment at `manager.rs:2268` takes it that "the fund tx is already confirmed".
  `Hasty` switches this on, and `UpdatesComplete` does not hold there;
* each `acceptloanoffer` of the same offer draws a new preimage, and the lender
  lends again under its hash;
* `check_for_timed_out_channels` does not look at `RenewFinalized` and
  `CollaborativeCloseOffered`; the comment at `manager.rs:1633` says of the latter that
  the channel "will be forced closed after a timeout";
* `renew_channel_on_revoke` leaves `roll_back_state` in place and stores
  `is_offer: true` on the accepting side;
* a buffer transaction seen during a renewal makes `Closing` name the contract
  under establishment; a previous transaction seen between `RenewConfirm` and
  `RenewRevoke` fails the `.expect()` on its secret, and a forced close after an
  offer to close from a pending state the one on the roll-back state.
* `repay` pays back the collateral at current prices, not the deposit
  (`P2PBTCLending.sol:160`; `diagrams/repay.md:16` says the collateral is
  returned), and `getStableLoanAmount` divides where `getStableCollateralAmount`
  multiplies, so a stable loan is not backed by 150% (`P2PBTCLending.sol:230`);
* `listcontracts` before the escrow is confirmed, which the README's walk-through
  does not warn of, blocks a loan (`manager.rs:898`): `LoanIsConfirmed` has a
  borrower who waits;
* `read_dlc_message` does not know `RenewRevoke` (`message_handler.rs:98`), an even
  type, so the peer disconnects: over the wire a renewal never ends. `overWire`
  switches this on, and `UpdatesComplete` does not hold there;
* the counterparty's buffer transaction seen during a pending settlement fails an
  `.expect()` (`manager.rs:2558`);
* the fund transaction's input signatures are placeholders: Bitcoin refuses what
  `on_sign_channel` sends (`refused`), the accepting node stays `Accepted` with the
  watch in memory while the offering node is `Signed`; for contracts outside of a
  channel the broadcast is commented out;
* attestations that disagree or that no CET pays for end each check before the
  refund is looked at, so the contract is never refunded: `ConfirmedEnds` excepts
  them. `Refunded` is recorded right after the broadcast;
* a payout function that begins with a hyperbola is accepted wherever it begins
  (the check is commented out in `PayoutFunction::validate`, whose documentation
  says that it covers 0 to the maximum): the outcomes before it have no CET; a
  piece of
  constant payout ignores a change of the rounding interval inside it, one of two
  points ignores `extra_precision`; a payout that is the same for all outcomes
  panics on the empty prefix; the contract's `maximize_coverage` is not read
  (the trie always gets `true`);
* with a threshold of one and an allowed difference the path is inserted as it is
  (`multi_trie.rs:276`), in the digits of the smallest oracle, also for an oracle
  with more digits: with 3 and 4 digits the second oracle attests 1 and the CET of
  outcome 0 is used. `PathsArePadded` excepts it;
* `get_max_covering_paths` (`dlc-trie/src/utils.rs:51`) has paths only for selections
  that are all above the maximum of the smallest oracle: with 3, 4 and 4 digits the
  second and third attesting 8 and 6 find no CET, although `oracle_msgs.rs:132` says
  of a difference of 2 that it "should be supported". `AgreementCloses` excepts it
  (`Covered`);
* inputs between what is required and 100 satoshi more panic instead of
  returning the error the documentation names; the escrow keeps a change below
  the dust limit, which the documentation of `DUST_LIMIT` says is discarded; the
  amount `get_party_params` selects coins for may be less than what is required
  later, which leaves the coins reserved; `accept_loan_contract` reserves a second
  set of coins; `unreserve_utxos` is called for rejected channel offers only;
* bodies of a few sizes just below the segmentation limit are sent whole and are
  too long for the transport;
* `accept_settle_offer` and `on_settle_accept` change the monitor without storing
  it: the next periodic check or handler does.

## 4. Proofs

Each theorem holds for every value of the constants that satisfies the named
assumptions of its module; TLC evaluates these on every run. Each invariant below
was checked by TLC as an invariant of the run before it was proved. Where a
property is about all behaviours of a protocol, the strengthening is what the
code relies on without saying so.

`LendingContractProofs` (any accounts, preimages, integer prices, natural amounts
and rates, positive scales):

* `TypeCorrect`: `TypeOK` is inductive. The point is `balances \in [... -> Nat]`:
  each transfer is covered, and payer and receiver differ because
  `This \notin Accounts`.
* `PricesAloneNeverLiquidate`: `OnlyInterestLiquidates` follows from `TypeOK` and
  `LoanTerms` (a loan's principal is the amount its collateral is recomputed
  from, and it did not start in the future). It is the reason of what
  `lending_liquidation` finds. `OnlyInterestLiquidates` alone is
  not inductive: it says nothing of loans that are not yet liquidatable. The core
  is `RoundingMargin`: with x = principal * btcPrice, the three divisions lose
  less than collateralPrice + PRICE_SCALE, which x/4 covers.
* `StableLoansAreFinal`, `RequestsFundOneLoan`: action properties, from `TypeOK`
  and one lemma per action that writes the state they speak of.
* `TheBooksBalance`: `BalanceIsAccountedFor` with what is closed holding nothing
  (`ClosedRequests`, `ClosedLoans`, `UnusedHashes`), without which reopening a
  request or a hash could count a deposit twice. The three sums of the property
  change by one summand per step (`SumChanges`). `FiniteAssumption`: accounts and
  preimages are finite sets (addresses have 160 bits, preimages 128).

`SumLemmas`: the induction theorems of the library take an operator as parameter,
which the provers cannot instantiate. `SetInduction` and `SubsetInduction` are
stated for a set instead, and rest on `SmallestExists` (a least counterexample);
from them follow existence and value of the library's `SumFunctionOnSet`. The
lemmas about `StableLending` are stated in both modules that need them.

`LoanProtocolProofs` (any offers and preimages, any number of kills, losses,
repetitions and signature outcomes):

* `TypeCorrect`, `PayoutsNeedEscrow`, `CollateralNeedsPayouts`, all from the
  inductive invariant `SwapInv`: while the borrower initiates, its escrow is
  already broadcast (`Initiating`); every queued `InitiateAcceptLoan` names an
  escrowed hash (`Queued`); hence lending follows the escrow
  (`LentUnderEscrow`), a payout follows lending (`PaidWasLent`), and a revealed
  preimage was paid (`RevealedWasPaid`), which is what lets the escrow move. The
  last one needs `NonZeroPreimages`: in an unused entry of `stableLoans` the
  preimage is 0.
* `BothSignTogether`, `EscrowsAreSpentOnce`, `ConfirmedMeansPaid`, from `SwapInv`
  and `LoanInv`: where each node is inside a command (`BorrowerAt`, `LenderAt`),
  what every message in a queue says of the stores (`Mail`: an `AcceptLoan` or
  `Sign` names the escrow the borrower has accepted with, a `Sign` was sent after
  the lender stored its signed contract), and what the stores say of each other
  and of Bitcoin (`StoreInv`). An acceptance can not be taken back or replaced
  (`StoreGrows`), so a delayed message stays true.

`DlcContractProofs` (any number of oracles, threshold, outcomes, maturities,
delays, with and without forged messages and crashes):

* `TypeCorrect`; `BothHoldTheirWayOut` and `OneRecord` from `AgreementInv`: a
  contract under its temporary id is not under the other (`OneSlot`), a `Sign` on
  its way means the offerer holds all signatures (`SignAnswersAccept`), a signed
  accepter means both do, and the fund transaction needs that.
* `OnlyEarnedSpends`: what is in a mempool or a block was earned when it got
  there, and attestations and time only grow.
* `ContractImplementsOutcome`: every step maps to a step of `ContractOutcome` or
  to a stutter. A step of a node moves one record forward (`Moves`, `Sends`),
  which is matched with the abstract end of that record; a block is matched with
  the decision. Only the safety part is claimed; `ContractOutcome` has no fairness.

`DlcChannelProofs` (every environment, any number of updates):

* `TypeCorrect` and `NeverWithoutAWayOut` from `StoresOK`: a stored channel is
  `Sound`, that is, its state's transaction belongs to the update it is at, the
  own secrets revealed are those of earlier updates except in the states that
  hold the next transaction, and the roll-back state of a proposal fits the same
  update.
* `FundsAreLockedLast` from `FundedInv`, about the messages of the setup.
* `RevokedIsWatched` from `WatchedInv`: the monitor in memory and the stored copy
  both cover all revoked updates, so that a restart loses none. It excepts
  environments with crashes inside handlers, as the property does.
* `RecordsAgreeWithTheChain` from `PublishedInv`: a node that published knows it
  and watches no longer for its own transaction.
* `StableStatesAgree` from `JointInv`: as long as neither has begun to close, the
  two channels are at the same update with matching states (`Abreast`), or one is
  an update ahead and the other waits for its last message (`Behind`), and every
  message still tells the truth about its sender (`Tells`). `OneConfirm` is needed
  because `on_renew_confirm` checks no index: two of them would be mistaken for
  each other.

`FundingProofs` (any coins, values, deals, fee rates, payouts and collateral):

* `TypeCorrect`, `LoansAreCovered`, `BooksSayWhatWasAgreed` from `FundInv`: an
  escrow holds at least the collateral and 200 satoshi (`Escrowed`), the
  collateral transaction takes 166 of them, the CETs are those of proper payouts
  (`Agreed`) and the books those of the mined CET (`Booked`). `PaysBoth` says what
  the outputs of a CET are once dust is dropped, in either order.
* `CoinsArePromisedOnce` from `CoinInv`: a promised coin is reserved, or absent
  from the wallet's tree *and* spent on the chain. That it is not free is not
  inductive: a coin that is absent and unspent would come back with `refresh`.

`SegmentsProofs` (any nodes and routes, any number and size of messages, any
limit of at least 19 bytes for the transport and two for the segments):

* `TypeCorrect`, `WhatWasSentIsReceived`, `FailuresAreDeserved` from `SegmentsInv`.
  A queue and a connection carry a `Stream`: parts of messages one after the
  other, each message whole but possibly the first, in the order they were sent.
  A stream starts with a first part or with the one the reader waits for
  (`WireOK`), although a reader outlives its connection; what a reader keeps are
  the first parts of one message and its count is right (`Collects`); and of one
  peer's messages the delivered ones are older than those that travel, and these
  older than the queued ones (`Behind`). That what is delivered is in order is
  not inductive without the last.
* `PartsCover` is what `get_segments` computes: the parts cover the message
  without gap or overlap, every chunk but the last is full and there are as many
  parts as the start says. `ForIsStream`: what the queue holds for one peer is a
  stream although the queue is shared. `Reads`: the next part of a stream is
  delivered, kept or fails over an undeliverable message, whatever is in the
  reader.

`ContractCetsProofs` (any contract the constructors let through: any number of
pieces, points, outcomes, rounding intervals, oracles, digits and thresholds, any
allowed difference; `ContractsAssumption`, `PrecisionAssumption`). The theorems
are about the payout function, which `ContractCets` and `ContractInfo` share:

* `CurveFollowed`: the loop of `compute_range_payouts` is a recursive function;
  that such a function exists, so that it satisfies its equations, is proved
  (`ComputeIsLoop`). That after each turn the ranges are right up to the outcome just
  added (`FollowsTo`: they are chained, neighbours differ, each pays the curve) is an
  induction over outcomes with one lemma for a turn (`AddOutcomeFollows`), one for
  a flat piece (`FlatFollows`) and one for a piece (`PieceFollows`); that pieces
  meet comes from `payout_function_validate` and is what makes the first outcome
  of a piece no outcome counted twice.
* `EveryOutcomePaid`: chained ranges leave out no outcome between the first and the
  last (`RangesCover`, another induction), so every outcome from the first of the
  payout function to the maximum of the smallest oracle has a CET, which pays the
  rounded curve there.

Both rest on `CurveInv`, that the ranges are those of the pieces converted so far.

Only model-checked: all liveness (`LoanIsConfirmed`, `UpdatesComplete`,
`ConfirmedEnds`, `DeliveredWhileConnected`: fairness and `ENABLED` are out of the
prover's reach); `ImplementsCets`, `SignedAsGenerated`, `ClosingSignatureDecrypts`,
`PaysTheAttestedOutcome`, `AgreementCloses` and the types of `ContractInfo`, which are
about tries built and walked by `RECURSIVE` operators.

## 5. Plan

1. The grouping of digits and the tries of `ContractInfo` as recursive functions, so
   that lemmas about them can be proved: `ImplementsCets` for a contract with one
   oracle first.
2. Runs that show two exceptions as findings: the paths that are not padded and the
   time-outs that never fire (section 3).
3. The chain monitor's block heights; the amounts of settle and punish
   transactions.

## 6. Not modelled

Signature and adaptor-signature cryptography (a verification is an outcome, a
signature is what it was made for), scripts, serialisation formats, floating-point
error, logging and printing, the HTTP and RPC clients and Bitcoin Core's wallet
behind them, the storage of keys and addresses, the tests' mocks, the deployment
script and its recorded broadcasts, benchmarks. Contracts with several contract
infos are not modelled: `DlcContract` and `ContractInfo` have one. A reorganised
chain is not modelled; the code does not handle it.
