---------------------------- MODULE MCDlcChannel ----------------------------
(***************************************************************************)
(* DlcChannel for TLC: model values for the nodes and None, and the        *)
(* environments.                                                           *)
(***************************************************************************)
EXTENDS DlcChannel

CONSTANTS alice, bob, none

\* One node proposes, nothing is lost, nobody closes.
Calm == [proposers |-> {alice}, patient |-> TRUE, closeFrom |-> {}, closers |-> {}, acceptsOwn |-> FALSE,
         overWire |-> FALSE, lossy |-> FALSE, unresponsive |-> FALSE, restarts |-> FALSE, crashes |-> FALSE,
         forged |-> FALSE, refused |-> FALSE, maxUpdates |-> 5]

\* Everything may happen, but a second offer to close together.
Rough == [proposers |-> {alice, bob}, patient |-> TRUE, closeFrom |-> StateTypes \ {"CollaborativeCloseOffered"},
          closers |-> {alice, bob}, acceptsOwn |-> TRUE, overWire |-> FALSE, lossy |-> TRUE,
          unresponsive |-> TRUE, restarts |-> TRUE, crashes |-> FALSE, forged |-> TRUE, refused |-> TRUE,
          maxUpdates |-> 3]

\* Nobody closes, but answers may come later than PEER_TIMEOUT, and users do not wait for
\* the fund transaction.
Late == [Rough EXCEPT !.patient = FALSE, !.closeFrom = {}, !.closers = {}, !.acceptsOwn = FALSE, !.restarts = FALSE,
                      !.maxUpdates = 2]

\* One node proposes, and either may end inside a handler.
Crashing == [Calm EXCEPT !.closeFrom = Stable, !.closers = {alice, bob}, !.unresponsive = TRUE,
                         !.restarts = TRUE, !.crashes = TRUE, !.maxUpdates = 2]

\* As rough after a setup that succeeds, but users do not wait for the fund transaction; two
\* updates are all.
Hasty == [Rough EXCEPT !.patient = FALSE, !.closeFrom = Stable, !.acceptsOwn = FALSE,
                       !.forged = FALSE, !.refused = FALSE, !.maxUpdates = 2]

\* As calm, but the messages are read by read_dlc_message.
Wired == [Calm EXCEPT !.overWire = TRUE, !.maxUpdates = 3]

AnyWeather == {Calm, Rough, Crashing, Hasty, Wired}
OnlyLate == {Late}
=============================================================================
