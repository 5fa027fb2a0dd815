-------------------------- MODULE ContractOutcome --------------------------
(***************************************************************************)
(* What a contract promises its two parties, whatever happens on the way:  *)
(* the chain decides once for one of the closing transactions, a refund    *)
(* only once it is due, and the record a party keeps ends at most once,    *)
(* as closed with the transaction the chain decided for, or as refunded.   *)
(***************************************************************************)
CONSTANTS
    Nodes,       \* The parties.
    Cets,        \* The contract execution transactions.
    Refund,      \* The refund transaction.
    None

VARIABLES
    outcome,     \* The transaction the chain decided for, or None.
    due,         \* Whether the refund is due.
    record       \* Per node None (open) or the transaction it ended with.

ovars == <<outcome, due, record>>

OutcomeInit ==
    /\ outcome = None
    /\ due = FALSE
    /\ record = [n \in Nodes |-> None]

BecomeDue ==
    /\ ~due
    /\ due' = TRUE
    /\ UNCHANGED <<outcome, record>>

Decide ==
    /\ outcome = None
    /\ outcome' \in Cets \cup (IF due THEN {Refund} ELSE {})
    /\ UNCHANGED <<due, record>>

\* A record closes with what was decided.
RecordClosed(n) ==
    /\ record[n] = None
    /\ outcome \in Cets
    /\ record' = [record EXCEPT ![n] = outcome]
    /\ UNCHANGED <<outcome, due>>

\* A refund is recorded when it is sent, before the chain has decided.
RecordRefunded(n) ==
    /\ record[n] = None
    /\ due
    /\ record' = [record EXCEPT ![n] = Refund]
    /\ UNCHANGED <<outcome, due>>

OutcomeNext ==
    \/ BecomeDue
    \/ Decide
    \/ \E n \in Nodes : RecordClosed(n) \/ RecordRefunded(n)

OutcomeSpec == OutcomeInit /\ [][OutcomeNext]_ovars

=============================================================================
