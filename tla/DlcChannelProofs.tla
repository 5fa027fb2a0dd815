-------------------------- MODULE DlcChannelProofs --------------------------
(***************************************************************************)
(* Theorems about DlcChannel for every environment: any number of updates, *)
(* proposals from both sides, lost messages, restarts, crashes inside      *)
(* handlers, forged messages of the setup and forced closes.               *)
(***************************************************************************)
EXTENDS DlcChannel, TLAPS

----------------------------------------------------------------------------
(* What is true of one node's channel, whatever the other node does.       *)

\* The states that hold the transaction of the next update.
Ahead == {"SettledAccepted", "SettledConfirmed", "RenewAccepted", "RenewConfirmed", "RenewFinalized"}

\* The states of a proposal whose update has not been revoked yet.
Unrevoked == Stable \cup (Pending \ {"SettledConfirmed", "CollaborativeCloseOffered"})

IsUpdateTx(tx, k) == tx \in Txs /\ tx.type # "close" /\ tx.idx = k

\* A state fits the update the channel is at and the secrets it has revealed.
Fits(s, u, revealed) ==
    /\ s.type \in Stable => IsUpdateTx(s.tx, u)
    /\ s.type \in Ahead => IsUpdateTx(s.tx, u + 1)
    /\ s.type \in Unrevoked => u \notin revealed
    /\ s.type = "CollaborativeCloseOffered" => s.tx \in Txs /\ s.tx.type = "close"

\* A stored SignedChannel: its own secrets are out up to the current update at most, the
\* other party's are in for every earlier one, and a pending proposal can be undone.
Sound(c) ==
    /\ c \in Channels
    /\ c.revealed \subseteq 0 .. c.update_idx
    /\ 0 .. (c.update_idx - 1) \subseteq c.secrets
    /\ Fits(c.state, c.update_idx, c.revealed)
    /\ c.state.type \in Pending => c.roll_back # None
    /\ c.state.type \in Pending \ {"CollaborativeCloseOffered"} =>
            c.roll_back.type \in Stable /\ IsUpdateTx(c.roll_back.tx, c.update_idx)
    /\ c.state.type = "CollaborativeCloseOffered" =>
            Fits(c.roll_back, c.update_idx, c.revealed)

ChannelInv == \A p \in Parties : Open(p) => Sound(channel[p])

\* The parts of a channel.
LEMMA ChannelParts ==
    ASSUME NEW c \in Channels
    PROVE  /\ c.status = "Signed" /\ c.state \in States /\ c.roll_back \in States \cup {None}
           /\ c.update_idx \in Nat /\ c.own_point \in Nat /\ c.counter_point \in Nat
           /\ c.secrets \in SUBSET Nat /\ c.revealed \in SUBSET Nat
           /\ c.state.type \in StateTypes /\ c.state.tx \in Txs \cup {None}
           /\ c.state.flag \in BOOLEAN /\ c.state.contract \in Nat \cup {None}
           /\ c.roll_back # None => /\ c.roll_back.type \in StateTypes
                                    /\ c.roll_back.tx \in Txs \cup {None}
BY DEF Channels, States

\* A new state without a contract.
LEMMA StateParts ==
    ASSUME NEW type \in StateTypes, NEW tx \in Txs \cup {None}, NEW flag \in BOOLEAN
    PROVE  /\ State(type, tx, flag) \in States
           /\ State(type, tx, flag).type = type /\ State(type, tx, flag).tx = tx
           /\ State(type, tx, flag).flag = flag
BY DEF State, States

\* Replacing the state.
LEMMA WithState ==
    ASSUME NEW c \in Channels, NEW s \in States
    PROVE  LET d == [c EXCEPT !.state = s] IN
           /\ d \in Channels /\ d.state = s /\ d.roll_back = c.roll_back
           /\ d.update_idx = c.update_idx /\ d.secrets = c.secrets /\ d.revealed = c.revealed
BY DEF Channels

\* A step into a proposal.
LEMMA ProposeParts ==
    ASSUME NEW c \in Channels, NEW s \in States
    PROVE  LET d == Propose(c, s) IN
           /\ d \in Channels /\ d.state = s /\ d.roll_back = c.state
           /\ d.update_idx = c.update_idx /\ d.secrets = c.secrets /\ d.revealed = c.revealed
BY DEF Channels, Propose

\* Undoing a proposal.
LEMMA RollBackParts ==
    ASSUME NEW c \in Channels, c.roll_back # None
    PROVE  LET d == RollBack(c) IN
           /\ d \in Channels /\ d.state = c.roll_back /\ d.roll_back = None
           /\ d.update_idx = c.update_idx /\ d.secrets = c.secrets /\ d.revealed = c.revealed
BY DEF Channels, RollBack

\* Sending the secret of the current update.
LEMMA RevealParts ==
    ASSUME NEW c \in Channels
    PROVE  LET d == Reveal(c) IN
           /\ d \in Channels /\ d.state = c.state /\ d.roll_back = c.roll_back
           /\ d.update_idx = c.update_idx /\ d.secrets = c.secrets
           /\ d.revealed = c.revealed \cup {c.update_idx}
BY DEF Channels, Reveal

\* Moving on to the next update.
LEMMA AdvanceParts ==
    ASSUME NEW c \in Channels, NEW s \in States
    PROVE  LET d == Advance(c, s) IN
           /\ d \in Channels /\ d.state = s /\ d.roll_back = c.roll_back
           /\ d.update_idx = c.update_idx + 1 /\ d.secrets = c.secrets \cup {c.update_idx}
           /\ d.revealed = c.revealed
<1> DEFINE n == c.update_idx + 1
           S == c.secrets \cup {c.update_idx}
<1>1. n \in Nat /\ S \in SUBSET Nat
  BY ChannelParts
<1>2. Advance(c, s) = [c EXCEPT !.state = s, !.secrets = S, !.update_idx = n,
                                !.own_point = n, !.counter_point = n]
  BY DEF Advance
<1> HIDE DEF n, S
<1>3. LET d == [c EXCEPT !.state = s, !.secrets = S, !.update_idx = n,
                         !.own_point = n, !.counter_point = n] IN
      /\ d \in Channels /\ d.state = s /\ d.roll_back = c.roll_back
      /\ d.update_idx = n /\ d.secrets = S /\ d.revealed = c.revealed
  BY <1>1 DEF Channels
<1> QED
  BY <1>2, <1>3 DEF n, S

\* Dropping the state to return to.
LEMMA WithoutRollBack ==
    ASSUME NEW c \in Channels
    PROVE  LET d == [c EXCEPT !.roll_back = None] IN
           /\ d \in Channels /\ d.state = c.state /\ d.roll_back = None
           /\ d.update_idx = c.update_idx /\ d.secrets = c.secrets /\ d.revealed = c.revealed
BY DEF Channels

\* The transactions of an update.
LEMMA TxParts ==
    ASSUME NEW k \in Nat, NEW p \in Parties
    PROVE  IsUpdateTx(BufferTx(k, p), k) /\ IsUpdateTx(SettleTx(k, p), k)
           /\ CloseTx(p) \in Txs /\ CloseTx(p).type = "close"
BY DEF IsUpdateTx, BufferTx, SettleTx, CloseTx, Txs

\* The types of states, told apart.
LEMMA TypesDiffer ==
    /\ Pending \cap Stable = {} /\ Stable \cap Ahead = {} /\ Stable \subseteq Unrevoked
    /\ "CollaborativeCloseOffered" \in Pending \ (Ahead \cup Unrevoked \cup Stable)
    /\ "RenewFinalized" \in Ahead \ (Pending \cup Unrevoked)
    /\ "Closing" \notin Pending \cup Stable \cup Ahead \cup Unrevoked
    /\ {"SettledOffered", "SettledReceived", "RenewOffered"} \subseteq (Pending \cap Unrevoked) \ Ahead
    /\ {"SettledAccepted", "RenewAccepted", "RenewConfirmed"} \subseteq Pending \cap Unrevoked \cap Ahead
    /\ "SettledConfirmed" \in (Pending \cap Ahead) \ Unrevoked
    /\ {"Established", "Settled"} = Stable
    /\ Stable \cup Pending \cup {"RenewFinalized", "Closing"} = StateTypes
BY DEF Pending, Stable, Ahead, Unrevoked, StateTypes

\* A new channel is sound.
LEMMA SetupSound ==
    ASSUME NEW flag \in BOOLEAN
    PROVE  Sound(SignedChannel(flag))
<1> DEFINE c == SignedChannel(flag)
           s == State("Established", BufferTx(0, Offerer), flag)
<1>1. Offerer \in Parties
  BY PartiesAssumption
<1>2. IsUpdateTx(BufferTx(0, Offerer), 0)
  BY <1>1, TxParts
<1>3. BufferTx(0, Offerer) \in Txs \cup {None} /\ "Established" \in StateTypes
  BY <1>2, TypesDiffer DEF IsUpdateTx
<1>4. s \in States /\ s.type = "Established" /\ s.tx = BufferTx(0, Offerer)
  BY <1>3, StateParts
<1>5. /\ c.state = s /\ c.update_idx = 0 /\ c.secrets = {} /\ c.revealed = {} /\ c.roll_back = None
  BY DEF SignedChannel
<1>6. c \in Channels
  <2> HIDE DEF s
  <2>1. c = [status |-> "Signed", state |-> s, roll_back |-> None, update_idx |-> 0,
             own_point |-> 0, counter_point |-> 0, secrets |-> {}, revealed |-> {}]
    BY Zenon DEF SignedChannel, s
  <2> HIDE DEF c
  <2> QED
    BY <1>4, <2>1 DEF Channels
<1> HIDE DEF c, s
<1>7. Fits(c.state, 0, {})
  BY <1>2, <1>4, <1>5, TypesDiffer DEF Fits
<1>8. c.state.type = "Established" /\ 0 .. -1 = {}
  BY <1>4, <1>5
<1> QED
  BY <1>5, <1>6, <1>7, <1>8, TypesDiffer DEF Sound, c

\* Proposing an update from a stable state.
LEMMA ProposeSound ==
    ASSUME NEW c, Sound(c), c.state.type \in Stable, NEW s \in States,
           s.type \in {"SettledOffered", "SettledReceived", "RenewOffered"}
    PROVE  Sound(Propose(c, s))
<1>1. c \in Channels /\ Fits(c.state, c.update_idx, c.revealed)
  BY DEF Sound
<1> DEFINE d == Propose(c, s)
<1>2. /\ d \in Channels /\ d.state = s /\ d.roll_back = c.state
      /\ d.update_idx = c.update_idx /\ d.secrets = c.secrets /\ d.revealed = c.revealed
  BY <1>1, ProposeParts
<1>3. c.state # None
  BY <1>1, ChannelParts, NoneAssumption
<1> HIDE DEF d
<1> QED
  BY <1>1, <1>2, <1>3, TypesDiffer DEF Sound, Fits, d

\* A channel with a proposal and nothing signed for it yet.
Proposed == {"SettledOffered", "SettledReceived", "RenewOffered"}

\* Signing the transaction of the next update, without revoking the current one.
LEMMA SignSound ==
    ASSUME NEW c, Sound(c), c.state.type \in Proposed, NEW s \in States,
           s.type \in {"SettledAccepted", "RenewAccepted", "RenewConfirmed"},
           IsUpdateTx(s.tx, c.update_idx + 1)
    PROVE  Sound([c EXCEPT !.state = s])
<1>1. c \in Channels /\ Fits(c.state, c.update_idx, c.revealed)
  BY DEF Sound
<1> DEFINE d == [c EXCEPT !.state = s]
<1>2. /\ d \in Channels /\ d.state = s /\ d.roll_back = c.roll_back
      /\ d.update_idx = c.update_idx /\ d.secrets = c.secrets /\ d.revealed = c.revealed
  BY <1>1, WithState
<1> HIDE DEF d
<1>3. c.update_idx \notin c.revealed
  BY <1>1, TypesDiffer DEF Fits, Proposed
<1>4. Fits(s, c.update_idx, c.revealed)
  BY <1>3, TypesDiffer DEF Fits
<1>5. Sound(d)
  BY <1>2, <1>4, TypesDiffer DEF Sound, Proposed
<1> QED
  BY <1>5 DEF d

\* The step of the offering node that revokes the settled contract.
LEMMA ConfirmSound ==
    ASSUME NEW c, Sound(c), c.state.type = "SettledOffered", NEW s \in States,
           s.type = "SettledConfirmed", IsUpdateTx(s.tx, c.update_idx + 1)
    PROVE  Sound(Reveal([c EXCEPT !.state = s]))
<1>1. c \in Channels /\ c.update_idx \in Nat /\ c.revealed \subseteq 0 .. c.update_idx
  BY ChannelParts DEF Sound
<1> DEFINE b == [c EXCEPT !.state = s]
           d == Reveal(b)
<1>2. /\ b \in Channels /\ b.state = s /\ b.roll_back = c.roll_back
      /\ b.update_idx = c.update_idx /\ b.secrets = c.secrets /\ b.revealed = c.revealed
  BY <1>1, WithState
<1> HIDE DEF b
<1>3. /\ d \in Channels /\ d.state = b.state /\ d.roll_back = b.roll_back
      /\ d.update_idx = b.update_idx /\ d.secrets = b.secrets
      /\ d.revealed = b.revealed \cup {b.update_idx}
  BY <1>2, RevealParts
<1> HIDE DEF d
<1>4. Fits(s, c.update_idx, d.revealed)
  BY TypesDiffer DEF Fits
<1>5. d.revealed \subseteq 0 .. d.update_idx
  BY <1>1, <1>2, <1>3
<1>6. Sound(d)
  BY <1>2, <1>3, <1>4, <1>5, TypesDiffer DEF Sound
<1> QED
  BY <1>6 DEF d, b

\* A channel that arrives at the next update.
LEMMA ArriveSound ==
    ASSUME NEW d \in Channels, NEW u \in Nat, NEW secrets,
           d.update_idx = u + 1, d.state.type \in Stable, IsUpdateTx(d.state.tx, u + 1),
           d.revealed \subseteq 0 .. u, 0 .. (u - 1) \subseteq secrets, d.secrets = secrets \cup {u}
    PROVE  Sound(d)
<1>1. d.revealed \subseteq 0 .. d.update_idx /\ d.update_idx \notin d.revealed
  OBVIOUS
<1>2. 0 .. (d.update_idx - 1) \subseteq d.secrets
  OBVIOUS
<1>3. Fits(d.state, d.update_idx, d.revealed)
  BY <1>1, TypesDiffer DEF Fits
<1> QED
  BY <1>1, <1>2, <1>3, TypesDiffer DEF Sound

\* settle_channel_on_finalize, with or without a secret of one's own sent.
LEMMA SettleSound ==
    ASSUME NEW c, Sound(c), c.state.type \in {"SettledAccepted", "SettledConfirmed"}
    PROVE  /\ Sound(settle_channel_on_finalize(c)) /\ Sound(settle_channel_finalize(c))
           /\ settle_channel_on_finalize(c).update_idx = c.update_idx + 1
           /\ settle_channel_finalize(c).update_idx = c.update_idx + 1
           /\ settle_channel_on_finalize(c).state.type = "Settled"
           /\ settle_channel_finalize(c).state.type = "Settled"
           /\ settle_channel_on_finalize(c).state.tx = c.state.tx
           /\ settle_channel_finalize(c).state.tx = c.state.tx
           /\ settle_channel_on_finalize(c).roll_back = None
           /\ settle_channel_finalize(c).roll_back = None
<1>1. /\ c \in Channels /\ c.update_idx \in Nat /\ c.revealed \subseteq 0 .. c.update_idx
      /\ 0 .. (c.update_idx - 1) \subseteq c.secrets
  BY ChannelParts DEF Sound
<1>2. IsUpdateTx(c.state.tx, c.update_idx + 1)
  BY TypesDiffer DEF Sound, Fits
<1>3. ASSUME NEW b \in Channels, b.state = c.state, b.update_idx = c.update_idx,
             b.secrets = c.secrets, b.revealed \subseteq 0 .. c.update_idx
      PROVE  /\ Sound(settle_channel_on_finalize(b))
             /\ settle_channel_on_finalize(b).update_idx = c.update_idx + 1
             /\ settle_channel_on_finalize(b).state.type = "Settled"
             /\ settle_channel_on_finalize(b).state.tx = c.state.tx
             /\ settle_channel_on_finalize(b).roll_back = None
  <2> DEFINE s == State("Settled", b.state.tx, FALSE)
             a == Advance(b, s)
             d == [a EXCEPT !.roll_back = None]
  <2>1. s \in States /\ s.type = "Settled" /\ s.tx = c.state.tx
    BY <1>2, <1>3, TypesDiffer DEF IsUpdateTx, State, States
  <2> HIDE DEF s
  <2>2. /\ a \in Channels /\ a.state = s /\ a.update_idx = c.update_idx + 1
        /\ a.secrets = c.secrets \cup {c.update_idx} /\ a.revealed = b.revealed
    BY <1>3, <2>1, AdvanceParts
  <2> HIDE DEF a
  <2>3. /\ d \in Channels /\ d.state = s /\ d.update_idx = c.update_idx + 1 /\ d.roll_back = None
        /\ d.secrets = c.secrets \cup {c.update_idx} /\ d.revealed = b.revealed
    BY <2>2, WithoutRollBack
  <2>4. d = settle_channel_on_finalize(b)
    BY Zenon DEF d, a, s, settle_channel_on_finalize
  <2> HIDE DEF d
  <2>5. Sound(d)
    BY <1>1, <1>2, <1>3, <2>1, <2>3, ArriveSound, TypesDiffer
  <2> QED
    BY <2>1, <2>3, <2>4, <2>5
<1>4. /\ Reveal(c) \in Channels /\ Reveal(c).state = c.state /\ Reveal(c).update_idx = c.update_idx
      /\ Reveal(c).secrets = c.secrets /\ Reveal(c).revealed \subseteq 0 .. c.update_idx
  BY <1>1, RevealParts
<1>5. settle_channel_finalize(c) = settle_channel_on_finalize(Reveal(c))
  BY DEF settle_channel_finalize
<1> QED
  BY <1>1, <1>3, <1>4, <1>5

\* verify_renew_confirm_and_finalize: the accepting node of a renewal has the new
\* transaction and revokes the old one.
LEMMA FinalizeSound ==
    ASSUME NEW c, Sound(c), c.state.type = "RenewAccepted"
    PROVE  /\ Sound(verify_renew_confirm_and_finalize(c))
           /\ verify_renew_confirm_and_finalize(c).update_idx = c.update_idx
           /\ verify_renew_confirm_and_finalize(c).state.type = "RenewFinalized"
           /\ verify_renew_confirm_and_finalize(c).state.tx = c.state.tx
           /\ verify_renew_confirm_and_finalize(c).roll_back = c.roll_back
<1> DEFINE s == State("RenewFinalized", c.state.tx, FALSE)
           n == c.update_idx + 1
           b == [c EXCEPT !.state = s, !.own_point = n, !.counter_point = n]
           d == Reveal(b)
<1>1. /\ c \in Channels /\ c.update_idx \in Nat /\ c.revealed \subseteq 0 .. c.update_idx
      /\ 0 .. (c.update_idx - 1) \subseteq c.secrets /\ n \in Nat
  BY ChannelParts DEF Sound
<1>2. IsUpdateTx(c.state.tx, c.update_idx + 1)
  BY TypesDiffer DEF Sound, Fits
<1>3. s \in States /\ s.type = "RenewFinalized" /\ s.tx = c.state.tx
  BY <1>2, TypesDiffer DEF IsUpdateTx, State, States
<1> HIDE DEF s, n
<1>4. /\ b \in Channels /\ b.state = s /\ b.roll_back = c.roll_back
      /\ b.update_idx = c.update_idx /\ b.secrets = c.secrets /\ b.revealed = c.revealed
  BY <1>1, <1>3 DEF Channels
<1> HIDE DEF b
<1>5. /\ d \in Channels /\ d.state = s /\ d.roll_back = c.roll_back
      /\ d.update_idx = c.update_idx /\ d.secrets = c.secrets
      /\ d.revealed = c.revealed \cup {c.update_idx}
  BY <1>4, RevealParts
<1> HIDE DEF d
<1>6. Fits(s, c.update_idx, d.revealed)
  BY <1>2, <1>3, TypesDiffer DEF Fits
<1>7. d.revealed \subseteq 0 .. d.update_idx
  BY <1>1, <1>5
<1>8. Sound(d)
  BY <1>1, <1>3, <1>5, <1>6, <1>7, TypesDiffer DEF Sound
<1>9. d = verify_renew_confirm_and_finalize(c)
  BY Zenon DEF d, b, s, n, verify_renew_confirm_and_finalize
<1> QED
  BY <1>3, <1>5, <1>8, <1>9

\* renew_channel_on_finalize and renew_channel_on_revoke.
LEMMA RenewSound ==
    ASSUME NEW c, Sound(c), c.state.type \in {"RenewConfirmed", "RenewFinalized"}
    PROVE  /\ Sound(renew_channel_on_finalize(c)) /\ Sound(renew_channel_on_revoke(c))
           /\ renew_channel_on_finalize(c).update_idx = c.update_idx + 1
           /\ renew_channel_on_revoke(c).update_idx = c.update_idx + 1
           /\ renew_channel_on_finalize(c).state.type = "Established"
           /\ renew_channel_on_revoke(c).state.type = "Established"
           /\ renew_channel_on_finalize(c).state.tx = c.state.tx
           /\ renew_channel_on_revoke(c).state.tx = c.state.tx
           /\ renew_channel_on_finalize(c).roll_back = None
           /\ renew_channel_on_revoke(c).roll_back = c.roll_back
<1> DEFINE s == State("Established", c.state.tx, TRUE)
<1>1. /\ c \in Channels /\ c.update_idx \in Nat /\ c.revealed \subseteq 0 .. c.update_idx
      /\ 0 .. (c.update_idx - 1) \subseteq c.secrets
  BY ChannelParts DEF Sound
<1>2. IsUpdateTx(c.state.tx, c.update_idx + 1)
  BY TypesDiffer DEF Sound, Fits
<1>3. s \in States /\ s.type = "Established" /\ s.tx = c.state.tx
  BY <1>2, TypesDiffer DEF IsUpdateTx, State, States
<1> HIDE DEF s
<1>4. ASSUME NEW b \in Channels, b.update_idx = c.update_idx,
             b.secrets = c.secrets, b.revealed \subseteq 0 .. c.update_idx
      PROVE  /\ Sound(Advance(b, s)) /\ Advance(b, s) \in Channels
             /\ Advance(b, s).update_idx = c.update_idx + 1 /\ Advance(b, s).state = s
             /\ Advance(b, s).secrets = c.secrets \cup {c.update_idx}
             /\ Advance(b, s).revealed = b.revealed /\ Advance(b, s).roll_back = b.roll_back
  <2> DEFINE d == Advance(b, s)
  <2>1. /\ d \in Channels /\ d.state = s /\ d.update_idx = c.update_idx + 1
        /\ d.secrets = c.secrets \cup {c.update_idx} /\ d.revealed = b.revealed
        /\ d.roll_back = b.roll_back
    BY <1>3, <1>4, AdvanceParts
  <2> HIDE DEF d
  <2>2. Sound(d)
    BY <1>1, <1>2, <1>3, <1>4, <2>1, ArriveSound, TypesDiffer
  <2> QED
    BY <2>1, <2>2 DEF d
<1>5. /\ Reveal(c) \in Channels /\ Reveal(c).update_idx = c.update_idx
      /\ Reveal(c).secrets = c.secrets /\ Reveal(c).revealed \subseteq 0 .. c.update_idx
  BY <1>1, RevealParts
<1>6. renew_channel_on_revoke(c) = Advance(c, s)
  BY Zenon DEF renew_channel_on_revoke, s
<1> DEFINE a == Advance(Reveal(c), s)
           d == [a EXCEPT !.roll_back = None]
<1>7. renew_channel_on_finalize(c) = d
  BY Zenon DEF renew_channel_on_finalize, s
<1>8. /\ a \in Channels /\ a.update_idx = c.update_idx + 1 /\ a.state = s
      /\ a.secrets = c.secrets \cup {c.update_idx} /\ a.revealed \subseteq 0 .. c.update_idx
  BY <1>4, <1>5
<1> HIDE DEF a
<1>9. /\ d \in Channels /\ d.update_idx = c.update_idx + 1 /\ d.state = s /\ d.roll_back = None
      /\ d.secrets = c.secrets \cup {c.update_idx} /\ d.revealed \subseteq 0 .. c.update_idx
  BY <1>8, WithoutRollBack
<1> HIDE DEF d
<1>10. Sound(d)
  BY <1>1, <1>2, <1>3, <1>9, ArriveSound, TypesDiffer
<1> QED
  BY <1>1, <1>3, <1>4, <1>6, <1>7, <1>9, <1>10

\* An offer to close together keeps the state it came from.
LEMMA OfferCloseSound ==
    ASSUME NEW c, Sound(c), NEW s \in States, s.type = "CollaborativeCloseOffered",
           s.tx \in Txs, s.tx.type = "close"
    PROVE  Sound(Propose(c, s))
<1>1. c \in Channels /\ Fits(c.state, c.update_idx, c.revealed) /\ c.state # None
  BY ChannelParts, NoneAssumption DEF Sound
<1> DEFINE d == Propose(c, s)
<1>2. /\ d \in Channels /\ d.state = s /\ d.roll_back = c.state
      /\ d.update_idx = c.update_idx /\ d.secrets = c.secrets /\ d.revealed = c.revealed
  BY <1>1, ProposeParts
<1> HIDE DEF d
<1>3. Fits(s, d.update_idx, d.revealed)
  BY TypesDiffer DEF Fits
<1>4. Sound(d)
  BY <1>1, <1>2, <1>3, TypesDiffer DEF Sound
<1> QED
  BY <1>4 DEF d

\* A rejected proposal is undone.
LEMMA RollBackSound ==
    ASSUME NEW c, Sound(c), c.state.type \in Proposed
    PROVE  Sound(RollBack(c))
<1>1. /\ c \in Channels /\ c.roll_back # None /\ c.roll_back.type \in Stable
      /\ IsUpdateTx(c.roll_back.tx, c.update_idx) /\ c.update_idx \notin c.revealed
  BY TypesDiffer DEF Sound, Fits, Proposed
<1> DEFINE d == RollBack(c)
<1>2. /\ d \in Channels /\ d.state = c.roll_back /\ d.roll_back = None
      /\ d.update_idx = c.update_idx /\ d.secrets = c.secrets /\ d.revealed = c.revealed
  BY <1>1, RollBackParts
<1> HIDE DEF d
<1>3. Fits(c.roll_back, c.update_idx, c.revealed)
  BY <1>1, TypesDiffer DEF Fits
<1>4. Sound(d)
  BY <1>1, <1>2, <1>3, TypesDiffer DEF Sound
<1> QED
  BY <1>4 DEF d

\* A channel that is being closed.
LEMMA ClosingSound ==
    ASSUME NEW c, Sound(c), NEW d \in Channels, d.state.type = "Closing",
           d.update_idx = c.update_idx, d.secrets = c.secrets, d.revealed = c.revealed
    PROVE  Sound(d)
BY TypesDiffer DEF Sound, Fits

\* What a node that ends before it answers has stored: no secret was sent.
LEMMA UnsentSound ==
    ASSUME NEW d, Sound(d), NEW revealed \in SUBSET d.revealed,
           d.state.type \in Stable \cup {"RenewFinalized"}
    PROVE  /\ Sound([d EXCEPT !.revealed = revealed])
           /\ [d EXCEPT !.revealed = revealed].update_idx = d.update_idx
           /\ [d EXCEPT !.revealed = revealed].state = d.state
           /\ [d EXCEPT !.revealed = revealed].roll_back = d.roll_back
<1>1. d \in Channels /\ d.revealed \in SUBSET Nat /\ d.revealed \subseteq 0 .. d.update_idx
  BY ChannelParts DEF Sound
<1> DEFINE e == [d EXCEPT !.revealed = revealed]
<1>2. /\ e \in Channels /\ e.state = d.state /\ e.roll_back = d.roll_back
      /\ e.update_idx = d.update_idx /\ e.secrets = d.secrets /\ e.revealed = revealed
  BY <1>1 DEF Channels
<1> HIDE DEF e
<1>3. Fits(d.state, d.update_idx, revealed)
  BY DEF Sound, Fits
<1>4. Sound(e)
  BY <1>1, <1>2, <1>3, TypesDiffer DEF Sound
<1> QED
  BY <1>2, <1>4 DEF e

----------------------------------------------------------------------------
(* The stores.                                                             *)

StoreType == channel \in [Parties -> Channels \cup [status : Gone \cup Setup]]
StoresOK == StoreType /\ ChannelInv

\* The two nodes.
LEMMA OtherIs ==
    ASSUME NEW p \in Parties
    PROVE  /\ Other(p) \in Parties /\ Other(p) # p
           /\ \A q \in Parties : q = p \/ q = Other(p)
           /\ Other(Other(p)) = p
<1>1. PICK other \in Parties : Parties = {Offerer, other} /\ other # Offerer
  BY PartiesAssumption
<1>2. \E q \in Parties : q # p
  BY <1>1
<1>3. Other(p) \in Parties /\ Other(p) # p
  BY <1>2 DEF Other
<1>4. Other(Other(p)) \in Parties /\ Other(Other(p)) # Other(p)
  <2>1. \E q \in Parties : q # Other(p)
    BY <1>3
  <2> QED
    BY <2>1 DEF Other
<1> QED
  BY <1>1, <1>3, <1>4

\* A signed channel is told from what becomes of it by its status.
LEMMA OpenType ==
    ASSUME StoreType, NEW p \in Parties
    PROVE  /\ Open(p) => channel[p] \in Channels
           /\ ~Open(p) => channel[p].status \in Gone \cup Setup
           /\ "Signed" \notin Gone \cup Setup
<1>1. "Signed" \notin Gone \cup Setup
  BY DEF Gone, Setup
<1>2. channel[p] \in Channels \/ channel[p] \in [status : Gone \cup Setup]
  BY DEF StoreType
<1>3. channel[p] \in Channels => channel[p].status = "Signed"
  BY ChannelParts
<1>4. channel[p] \in [status : Gone \cup Setup] => channel[p].status \in Gone \cup Setup
  OBVIOUS
<1> QED
  BY <1>1, <1>2, <1>3, <1>4 DEF Open

\* Storing a sound channel.
LEMMA StoreStep ==
    ASSUME StoresOK, NEW p \in Parties, NEW c, Sound(c), Store(p, c)
    PROVE  /\ StoresOK' /\ channel'[p] = c /\ c.status = "Signed"
           /\ \A q \in Parties \ {p} : channel'[q] = channel[q]
<1>1. c \in Channels /\ c.status = "Signed"
  BY ChannelParts DEF Sound
<1>2. /\ channel' \in [Parties -> Channels \cup [status : Gone \cup Setup]]
      /\ channel'[p] = c /\ \A q \in Parties \ {p} : channel'[q] = channel[q]
  BY <1>1 DEF StoresOK, StoreType, Store
<1>3. ChannelInv'
  BY <1>2 DEF StoresOK, ChannelInv, Open
<1> QED
  BY <1>1, <1>2, <1>3 DEF StoresOK, StoreType

\* Storing what is no signed channel.
LEMMA BecomeStep ==
    ASSUME StoresOK, NEW p \in Parties, NEW status \in Gone \cup Setup, Become(p, status)
    PROVE  /\ StoresOK' /\ channel'[p].status = status
           /\ \A q \in Parties \ {p} : channel'[q] = channel[q]
<1>1. /\ channel' \in [Parties -> Channels \cup [status : Gone \cup Setup]]
      /\ channel'[p] = [status |-> status] /\ \A q \in Parties \ {p} : channel'[q] = channel[q]
  BY DEF StoresOK, StoreType, Become
<1>2. channel'[p].status = status /\ status # "Signed"
  BY <1>1 DEF Gone, Setup
<1>3. ChannelInv'
  BY <1>1, <1>2 DEF StoresOK, ChannelInv, Open
<1> QED
  BY <1>1, <1>2, <1>3 DEF StoresOK, StoreType

\* The state a handler finds.
LEMMA ReceiveMeans ==
    ASSUME NEW p, NEW type, Receive(p, type)
    PROVE  /\ net[p] # <<>> /\ Head(net[p]).type = type
           /\ type = "OfferChannel" => channel[p].status = "None"
           /\ type = "AcceptChannel" => channel[p].status = "Offered"
           /\ type = "SignChannel" => channel[p].status = "Accepted"
           /\ type = "SettleOffer" => In(p, {"SettledOffered", "Established"})
           /\ type = "SettleAccept" => In(p, {"SettledOffered"}) /\ Head(net[p]).idx = NextIdx(p)
           /\ type = "SettleConfirm" => In(p, {"SettledAccepted"}) /\ RolledBackIn(p, {"Established"})
           /\ type = "SettleFinalize" => In(p, {"SettledConfirmed"}) /\ RolledBackIn(p, {"Established"})
           /\ type = "RenewOffer" => In(p, Stable \cup {"RenewOffered"})
           /\ type = "RenewAccept" => In(p, {"RenewOffered"}) /\ Head(net[p]).idx = NextIdx(p)
           /\ type = "RenewConfirm" => In(p, {"RenewAccepted"}) /\ RolledBackIn(p, Stable)
                                       /\ ~channel[p].state.flag
           /\ type = "RenewFinalize" => In(p, {"RenewConfirmed"}) /\ RolledBackIn(p, Stable)
           /\ type = "RenewRevoke" => In(p, {"RenewFinalized"}) /\ Head(net[p]).idx = channel[p].update_idx
           /\ type = "CollaborativeCloseOffer" => Open(p) /\ channel[p].roll_back = None
           /\ type = "Reject" => channel[p].status = "Offered" \/ In(p, Proposed)
BY DEF Receive, Expects, Awaits, In, Proposed

\* What In says of a sound channel.
LEMMA InSound ==
    ASSUME StoresOK, NEW p \in Parties, NEW types, In(p, types)
    PROVE  /\ Sound(channel[p]) /\ channel[p].state.type \in types /\ channel[p] \in Channels
           /\ channel[p].update_idx \in Nat /\ NextIdx(p) \in Nat
           /\ NextIdx(p) = channel[p].update_idx + 1 /\ channel[p].state.flag \in BOOLEAN
<1>1. Sound(channel[p]) /\ channel[p].state.type \in types
  BY DEF StoresOK, ChannelInv, In
<1>2. channel[p] \in Channels
  BY <1>1 DEF Sound
<1> QED
  BY <1>1, <1>2, ChannelParts DEF NextIdx

\* Calls of the setup.
LEMMA SetupStores ==
    ASSUME StoresOK, NEW p \in Parties,
           \/ offer_channel(p) \/ accept_channel(p) \/ reject_channel(p) \/ on_offer_channel(p)
           \/ on_accept_channel(p) \/ on_sign_channel(p)
    PROVE  StoresOK'
<1>1. {"Offered", "Accepted", "Cancelled", "FailedAccept", "FailedSign"} \subseteq Gone \cup Setup
  BY DEF Setup
<1>2. Sound(verify_and_sign_accepted_channel) /\ Sound(verify_signed_channel)
  BY SetupSound DEF verify_and_sign_accepted_channel, verify_signed_channel
<1>3. UNCHANGED channel => StoresOK'
  BY DEF StoresOK, StoreType, ChannelInv, Open
<1>4. \/ \E status \in Gone \cup Setup : Become(p, status)
      \/ Store(p, verify_and_sign_accepted_channel) \/ Store(p, verify_signed_channel)
      \/ UNCHANGED channel
  <2> HIDE DEF verify_and_sign_accepted_channel, verify_signed_channel
  <2> QED
    BY <1>1 DEF offer_channel, accept_channel, reject_channel, on_offer_channel,
                on_accept_channel, on_sign_channel
<1> QED
  BY <1>2, <1>3, <1>4, StoreStep, BecomeStep

\* Proposals, made and received.
LEMMA ProposalStores ==
    ASSUME StoresOK, NEW p \in Parties,
           settle_offer(p) \/ renew_offer(p) \/ on_settle_offer(p) \/ on_renew_offer(p)
    PROVE  StoresOK'
<1>1. UNCHANGED channel => StoresOK'
  BY DEF StoresOK, StoreType, ChannelInv, Open
<1>2. ASSUME NEW s \in States, s.type \in Proposed, In(p, Stable), Store(p, Propose(channel[p], s))
      PROVE  StoresOK'
  <2>1. Sound(Propose(channel[p], s))
    BY <1>2, InSound, ProposeSound DEF Proposed
  <2> QED
    BY <1>2, <2>1, StoreStep
<1>3. /\ State("SettledOffered", None, TRUE) \in States
      /\ State("SettledReceived", None, FALSE) \in States
      /\ State("RenewOffered", None, TRUE) \in States /\ State("RenewOffered", None, FALSE) \in States
      /\ State("SettledOffered", None, TRUE).type \in Proposed
      /\ State("SettledReceived", None, FALSE).type \in Proposed
      /\ State("RenewOffered", None, TRUE).type \in Proposed
      /\ State("RenewOffered", None, FALSE).type \in Proposed
  BY DEF State, States, Proposed, StateTypes, Pending
<1>4. In(p, {"Established"}) => In(p, Stable)
  BY DEF In, Stable
<1>5. CASE settle_offer(p)
  BY <1>2, <1>3, <1>4, <1>5 DEF settle_offer, settle_channel_offer
<1>6. CASE renew_offer(p)
  BY <1>2, <1>3, <1>6 DEF renew_offer, updater_renew_offer
<1>7. CASE on_settle_offer(p)
  BY <1>1, <1>2, <1>3, <1>4, <1>7 DEF on_settle_offer, updater_on_settle_offer
<1>8. CASE on_renew_offer(p)
  BY <1>1, <1>2, <1>3, <1>8 DEF on_renew_offer, updater_on_renew_offer
<1> QED
  BY <1>5, <1>6, <1>7, <1>8

\* Proposals undone.
LEMMA RejectStores ==
    ASSUME StoresOK, NEW p \in Parties,
           reject_settle_offer(p) \/ reject_renew_offer(p) \/ on_reject(p)
    PROVE  StoresOK'
<1>1. ASSUME In(p, Proposed), Store(p, RollBack(channel[p])) PROVE StoresOK'
  BY <1>1, InSound, RollBackSound, StoreStep
<1>2. CASE reject_settle_offer(p)
  BY <1>1, <1>2 DEF reject_settle_offer, In, Proposed
<1>3. CASE reject_renew_offer(p)
  BY <1>1, <1>3 DEF reject_renew_offer, In, Proposed
<1>4. CASE on_reject(p)
  <2>1. CASE Become(p, "Cancelled")
    BY <2>1, BecomeStep DEF Setup
  <2>2. CASE Open(p) /\ Store(p, RollBack(channel[p]))
    <3>1. channel[p].status = "Offered" \/ In(p, Proposed)
      BY <1>4, ReceiveMeans DEF on_reject
    <3> QED
      BY <1>1, <2>2, <3>1 DEF Open
  <2> QED
    BY <1>4, <2>1, <2>2 DEF on_reject
<1> QED
  BY <1>2, <1>3, <1>4

\* Accepting and confirming.
LEMMA SigningStores ==
    ASSUME StoresOK, NEW p \in Parties,
           \/ accept_settle_offer(p) \/ accept_renew_offer(p)
           \/ on_settle_accept(p) \/ on_renew_accept(p)
    PROVE  StoresOK'
<1>1. Other(p) \in Parties
  BY OtherIs
<1>2. ASSUME NEW s \in States, In(p, Proposed),
             s.type \in {"SettledAccepted", "RenewAccepted", "RenewConfirmed"},
             IsUpdateTx(s.tx, NextIdx(p)), Store(p, [channel[p] EXCEPT !.state = s])
      PROVE  StoresOK'
  <2>1. Sound([channel[p] EXCEPT !.state = s])
    BY <1>2, InSound, SignSound
  <2> QED
    BY <1>2, <2>1, StoreStep
<1>3. CASE accept_settle_offer(p)
  <2> DEFINE s == State("SettledAccepted", SettleTx(NextIdx(p), Other(p)), FALSE)
  <2>1. In(p, Proposed)
    BY <1>3 DEF accept_settle_offer, In, Proposed
  <2>2. NextIdx(p) \in Nat
    BY <2>1, InSound
  <2>3. s \in States /\ s.type = "SettledAccepted" /\ IsUpdateTx(s.tx, NextIdx(p))
    BY <1>1, <2>2, TxParts DEF State, States, IsUpdateTx, StateTypes, Pending
  <2>4. Store(p, [channel[p] EXCEPT !.state = s])
    BY <1>3, Zenon DEF accept_settle_offer, settle_channel_accept
  <2> HIDE DEF s
  <2> QED
    BY <1>2, <2>1, <2>3, <2>4
<1>4. CASE accept_renew_offer(p)
  <2> DEFINE s == State("RenewAccepted", BufferTx(NextIdx(p), Other(p)), channel[p].state.flag)
  <2>1. In(p, Proposed)
    BY <1>4 DEF accept_renew_offer, In, Proposed
  <2>2. NextIdx(p) \in Nat /\ channel[p].state.flag \in BOOLEAN
    BY <2>1, InSound
  <2>3. s \in States /\ s.type = "RenewAccepted" /\ IsUpdateTx(s.tx, NextIdx(p))
    BY <1>1, <2>2, TxParts DEF State, States, IsUpdateTx, StateTypes, Pending
  <2>4. Store(p, [channel[p] EXCEPT !.state = s])
    BY <1>4, Zenon DEF accept_renew_offer, accept_channel_renewal
  <2> HIDE DEF s
  <2> QED
    BY <1>2, <2>1, <2>3, <2>4
<1>5. CASE on_renew_accept(p)
  <2> DEFINE s == State("RenewConfirmed", BufferTx(NextIdx(p), p), TRUE)
  <2>1. In(p, Proposed)
    BY <1>5, ReceiveMeans DEF on_renew_accept, In, Proposed
  <2>2. NextIdx(p) \in Nat
    BY <2>1, InSound
  <2>3. s \in States /\ s.type = "RenewConfirmed" /\ IsUpdateTx(s.tx, NextIdx(p))
    BY <2>2, TxParts DEF State, States, IsUpdateTx, StateTypes, Pending
  <2>4. Store(p, [channel[p] EXCEPT !.state = s])
    BY <1>5, Zenon DEF on_renew_accept, verify_renew_accept_and_confirm
  <2> HIDE DEF s
  <2> QED
    BY <1>2, <2>1, <2>3, <2>4
<1>6. CASE on_settle_accept(p)
  <2> DEFINE s == State("SettledConfirmed", SettleTx(NextIdx(p), p), TRUE)
  <2>1. In(p, {"SettledOffered"})
    BY <1>6, ReceiveMeans DEF on_settle_accept
  <2>2. /\ Sound(channel[p]) /\ channel[p].state.type = "SettledOffered"
        /\ NextIdx(p) \in Nat /\ NextIdx(p) = channel[p].update_idx + 1
    BY <2>1, InSound
  <2>3. s \in States /\ s.type = "SettledConfirmed" /\ IsUpdateTx(s.tx, NextIdx(p))
    BY <2>2, TxParts DEF State, States, IsUpdateTx, StateTypes, Pending
  <2>4. Store(p, Reveal([channel[p] EXCEPT !.state = s]))
    BY <1>6, Zenon DEF on_settle_accept, settle_channel_confirm
  <2> HIDE DEF s
  <2>5. Sound(Reveal([channel[p] EXCEPT !.state = s]))
    BY <2>2, <2>3, ConfirmSound
  <2> QED
    BY <2>4, <2>5, StoreStep
<1> QED
  BY <1>3, <1>4, <1>5, <1>6

\* Finishing an update.
LEMMA FinishStores ==
    ASSUME StoresOK, NEW p \in Parties,
           \/ on_settle_confirm(p) \/ on_settle_finalize(p) \/ on_renew_confirm(p)
           \/ on_renew_finalize(p) \/ on_renew_revoke(p)
    PROVE  StoresOK'
<1>1. CASE on_settle_confirm(p)
  <2>1. Sound(settle_channel_finalize(channel[p]))
    BY <1>1, ReceiveMeans, InSound, SettleSound DEF on_settle_confirm
  <2> QED
    BY <1>1, <2>1, StoreStep DEF on_settle_confirm
<1>2. CASE on_settle_finalize(p)
  <2>1. Sound(settle_channel_on_finalize(channel[p]))
    BY <1>2, ReceiveMeans, InSound, SettleSound DEF on_settle_finalize
  <2> QED
    BY <1>2, <2>1, StoreStep DEF on_settle_finalize
<1>3. CASE on_renew_confirm(p)
  <2>1. Sound(verify_renew_confirm_and_finalize(channel[p]))
    BY <1>3, ReceiveMeans, InSound, FinalizeSound DEF on_renew_confirm
  <2> QED
    BY <1>3, <2>1, StoreStep DEF on_renew_confirm
<1>4. CASE on_renew_finalize(p)
  <2>1. Sound(renew_channel_on_finalize(channel[p]))
    BY <1>4, ReceiveMeans, InSound, RenewSound DEF on_renew_finalize
  <2> QED
    BY <1>4, <2>1, StoreStep DEF on_renew_finalize
<1>5. CASE on_renew_revoke(p)
  <2>1. Sound(renew_channel_on_revoke(channel[p]))
    BY <1>5, ReceiveMeans, InSound, RenewSound DEF on_renew_revoke
  <2> QED
    BY <1>5, <2>1, StoreStep DEF on_renew_revoke
<1> QED
  BY <1>1, <1>2, <1>3, <1>4, <1>5

\* What a forced close finds.
LEMMA ToCloseParts ==
    ASSUME StoresOK, NEW p \in Parties, Open(p)
    PROVE  LET c == ToClose(p) IN
           /\ c \in Channels /\ c.update_idx = channel[p].update_idx
           /\ c.secrets = channel[p].secrets /\ c.revealed = channel[p].revealed
           /\ c.state.type \in Closable =>
                c.state.tx \in Txs /\ c.state.tx.type # "close" /\ c.state.tx.idx \in Nat
<1> DEFINE b == channel[p]
           c == ToClose(p)
<1>1. Sound(b) /\ b \in Channels /\ b.update_idx \in Nat
  BY ChannelParts DEF StoresOK, ChannelInv, Sound
<1>2. Closable = Stable \cup {"RenewFinalized"}
  BY DEF Closable, Stable
<1>3. ASSUME NEW s, Fits(s, b.update_idx, b.revealed), s.type \in Closable
      PROVE  s.tx \in Txs /\ s.tx.type # "close" /\ s.tx.idx \in Nat
  BY <1>1, <1>2, <1>3, TypesDiffer DEF Fits, IsUpdateTx
<1>4. CASE b.state.type \in Pending /\ b.roll_back # None
  <2>1. c = RollBack(b)
    BY <1>4 DEF ToClose
  <2>2. /\ c \in Channels /\ c.state = b.roll_back /\ c.update_idx = b.update_idx
        /\ c.secrets = b.secrets /\ c.revealed = b.revealed
    BY <1>1, <1>4, <2>1, RollBackParts
  <2>3. CASE b.state.type = "CollaborativeCloseOffered"
    BY <1>1, <1>3, <2>2, <2>3 DEF Sound
  <2>4. CASE b.state.type # "CollaborativeCloseOffered"
    <3>1. IsUpdateTx(b.roll_back.tx, b.update_idx)
      BY <1>1, <1>4, <2>4 DEF Sound
    <3> QED
      BY <1>1, <2>2, <3>1 DEF IsUpdateTx
  <2> QED
    BY <2>3, <2>4
<1>5. CASE ~(b.state.type \in Pending /\ b.roll_back # None)
  <2>1. c = b
    BY <1>5 DEF ToClose
  <2>2. Fits(b.state, b.update_idx, b.revealed)
    BY <1>1 DEF Sound
  <2> QED
    BY <1>1, <1>3, <2>1, <2>2
<1> QED
  BY <1>4, <1>5

\* Starting to close alone.
LEMMA InitiateSound ==
    ASSUME StoresOK, NEW p \in Parties, Open(p),
           ToClose(p).state.type \in {"Established", "RenewFinalized"}
    PROVE  LET d == initiate_unilateral_close(ToClose(p)) IN
           /\ Sound(d) /\ d.state.type = "Closing" /\ d.state.flag = TRUE
           /\ d.state.tx = ToClose(p).state.tx
<1> DEFINE c == ToClose(p)
           id == get_contract_id(c)
           s == [type |-> "Closing", tx |-> c.state.tx, flag |-> TRUE, contract |-> id]
           d == [c EXCEPT !.state = s]
<1>1. /\ c \in Channels /\ c.update_idx = channel[p].update_idx
      /\ c.secrets = channel[p].secrets /\ c.revealed = channel[p].revealed
      /\ c.state.tx \in Txs /\ c.state.tx.idx \in Nat
  BY ToCloseParts DEF Closable
<1>2. id = c.state.tx.idx
  BY DEF get_contract_id
<1> HIDE DEF c, id
<1>3. s \in States /\ s.type = "Closing" /\ s.flag = TRUE /\ s.tx = c.state.tx
  BY <1>1, <1>2 DEF States, StateTypes
<1>4. d = initiate_unilateral_close(c)
  BY Zenon DEF initiate_unilateral_close, id
<1> HIDE DEF s
<1>5. /\ d \in Channels /\ d.state = s /\ d.update_idx = c.update_idx
      /\ d.secrets = c.secrets /\ d.revealed = c.revealed
  BY <1>1, <1>3, WithState
<1>6. Sound(channel[p])
  BY DEF StoresOK, ChannelInv
<1> HIDE DEF d
<1>7. Sound(d)
  BY <1>1, <1>3, <1>5, <1>6, ClosingSound
<1> QED
  BY <1>3, <1>4, <1>5, <1>7 DEF c

\* A forced close.
LEMMA ForceCloseStores ==
    ASSUME StoresOK, NEW p \in Parties, Open(p), force_close_channel_internal(p)
    PROVE  StoresOK'
<1>1. {"NoRollback", "Closed"} \subseteq Gone \cup Setup
  BY DEF Gone
<1>2. \/ Become(p, "NoRollback") \/ Become(p, "Closed")
      \/ /\ ToClose(p).state.type \in {"Established", "RenewFinalized"}
         /\ Store(p, initiate_unilateral_close(ToClose(p)))
  BY Zenon DEF force_close_channel_internal
<1> QED
  BY <1>1, <1>2, InitiateSound, StoreStep, BecomeStep

\* The id of the contract is a number or None.
LEMMA ContractIdType ==
    ASSUME NEW c, Sound(c)
    PROVE  get_contract_id(c) \in Nat \cup {None}
<1>1. c.update_idx \in Nat /\ c.state.contract \in Nat \cup {None}
  BY ChannelParts DEF Sound
<1>2. c.state.type \in {"Established", "RenewFinalized"} => c.state.tx.idx \in Nat
  BY <1>1, TypesDiffer DEF Sound, Fits, IsUpdateTx
<1> QED
  BY <1>1, <1>2 DEF get_contract_id

\* Closing together, and what the chain shows.
LEMMA ClosingStores ==
    ASSUME TypeOK, StoresOK, NEW p \in Parties,
           \/ offer_collaborative_close(p) \/ on_collaborative_close_offer(p)
           \/ accept_collaborative_close(p) \/ force_close_channel(p) \/ channel_checks(p)
    PROVE  StoresOK'
<1>1. {"CollaborativelyClosed", "Closed", "CounterClosed", "NoContractId", "NoSecret",
       "ClosedPunished"} \subseteq Gone \cup Setup
  BY DEF Gone
<1>2. ASSUME NEW q \in Parties, NEW flag \in BOOLEAN, Open(p),
             Store(p, Propose(channel[p], State("CollaborativeCloseOffered", CloseTx(q), flag)))
      PROVE  StoresOK'
  <2> DEFINE s == State("CollaborativeCloseOffered", CloseTx(q), flag)
  <2>1. /\ s \in States /\ s.type = "CollaborativeCloseOffered"
        /\ s.tx \in Txs /\ s.tx.type = "close"
    BY TxParts DEF State, States, StateTypes, Pending
  <2> HIDE DEF s
  <2>2. Sound(Propose(channel[p], s))
    BY <1>2, <2>1, OfferCloseSound DEF StoresOK, ChannelInv
  <2> QED
    BY <1>2, <2>2, StoreStep DEF s
<1>3. CASE offer_collaborative_close(p)
  BY <1>2, <1>3 DEF offer_collaborative_close, updater_offer_collaborative_close, In
<1>4. CASE on_collaborative_close_offer(p)
  <2>1. Open(p)
    BY <1>4, ReceiveMeans DEF on_collaborative_close_offer
  <2> QED
    BY <1>2, <1>4, <2>1, OtherIs
       DEF on_collaborative_close_offer, updater_on_collaborative_close_offer
<1>5. CASE accept_collaborative_close(p)
  BY <1>1, <1>5, BecomeStep DEF accept_collaborative_close
<1>6. CASE force_close_channel(p) \/ check_for_timed_out_channels(p)
  BY <1>6, ForceCloseStores DEF force_close_channel, check_for_timed_out_channels, In
<1>7. CASE try_finalize_closing_established_channel(p)
  BY <1>1, <1>7, BecomeStep DEF try_finalize_closing_established_channel
<1>8. CASE SeeBufferTx(p)
  <2> DEFINE id == get_contract_id(channel[p])
             s == [type |-> "Closing", tx |-> spend.tx, flag |-> FALSE, contract |-> id]
  <2>1. Open(p) /\ spend # None
    BY <1>8 DEF SeeBufferTx, Confirmed
  <2>2. Sound(channel[p]) /\ channel[p] \in Channels
    BY <2>1 DEF StoresOK, ChannelInv, Sound
  <2>3. id \in Nat \cup {None} /\ spend.tx \in Txs
    BY <2>1, <2>2, ContractIdType DEF TypeOK
  <2>4. Become(p, "NoContractId") \/ Store(p, Propose(channel[p], s))
    BY <1>8, Zenon DEF SeeBufferTx
  <2> HIDE DEF id
  <2>5. s \in States /\ s.type = "Closing"
    BY <2>3 DEF States, StateTypes
  <2> HIDE DEF s
  <2> DEFINE d == Propose(channel[p], s)
  <2>6. /\ d \in Channels /\ d.state = s /\ d.update_idx = channel[p].update_idx
        /\ d.secrets = channel[p].secrets /\ d.revealed = channel[p].revealed
    BY <2>2, <2>5, ProposeParts
  <2> HIDE DEF d
  <2>7. Sound(d)
    BY <2>2, <2>5, <2>6, ClosingSound
  <2> QED
    BY <1>1, <2>4, <2>7, StoreStep, BecomeStep DEF d
<1>9. CASE SeeRevoked(p)
  BY <1>1, <1>9, BecomeStep DEF SeeRevoked
<1>10. CASE SeeCollaborativeClose(p) \/ SeeSettleTx(p) \/ SeeCet(p)
  BY <1>1, <1>10, BecomeStep DEF SeeCollaborativeClose, SeeSettleTx, SeeCet
<1>11. CASE check_for_watched_tx(p)
  BY <1>11 DEF check_for_watched_tx, StoresOK, StoreType, ChannelInv, Open
<1> QED
  BY <1>3, <1>4, <1>5, <1>6, <1>7, <1>8, <1>9, <1>10, <1>11
     DEF channel_checks, process_watched_txs
\* No update takes a revealed secret back.
LEMMA KeepsRevealed ==
    ASSUME NEW c \in Channels
    PROVE  /\ c.revealed \subseteq settle_channel_finalize(c).revealed
           /\ c.revealed \subseteq settle_channel_on_finalize(c).revealed
           /\ c.revealed \subseteq verify_renew_confirm_and_finalize(c).revealed
           /\ c.revealed \subseteq renew_channel_on_finalize(c).revealed
<1>1. settle_channel_on_finalize(c).revealed = c.revealed
  BY DEF settle_channel_on_finalize, Advance, Channels
<1>2. Reveal(c) \in Channels /\ c.revealed \subseteq Reveal(c).revealed
  BY RevealParts
<1>3. ASSUME NEW b \in Channels, NEW s PROVE [Advance(b, s) EXCEPT !.roll_back = None].revealed = b.revealed
  BY DEF Advance, Channels
<1>4. settle_channel_finalize(c).revealed = Reveal(c).revealed
  BY <1>2, <1>3, Zenon DEF settle_channel_finalize, settle_channel_on_finalize
<1>5. renew_channel_on_finalize(c).revealed = Reveal(c).revealed
  BY <1>2, <1>3, Zenon DEF renew_channel_on_finalize
<1>6. c.revealed \subseteq verify_renew_confirm_and_finalize(c).revealed
  BY DEF verify_renew_confirm_and_finalize, Reveal, Channels
<1> QED
  BY <1>1, <1>2, <1>4, <1>5, <1>6

\* A node has the answer to at most one message at the head of its queue.
LEMMA StoredFirstIs ==
    ASSUME NEW p
    PROVE  /\ Receive(p, "AcceptChannel") => StoredFirst(p) = verify_and_sign_accepted_channel
           /\ Receive(p, "SignChannel") => StoredFirst(p) = verify_signed_channel
           /\ Receive(p, "SettleConfirm") => StoredFirst(p) = settle_channel_finalize(channel[p])
           /\ Receive(p, "SettleFinalize") => StoredFirst(p) = settle_channel_on_finalize(channel[p])
           /\ Receive(p, "RenewConfirm") => StoredFirst(p) = verify_renew_confirm_and_finalize(channel[p])
           /\ Receive(p, "RenewFinalize") => StoredFirst(p) = renew_channel_on_finalize(channel[p])
<1> DEFINE t == Head(net[p]).type
           R(type) == Receive(p, type)
           Handled == {"AcceptChannel", "SignChannel", "SettleConfirm", "SettleFinalize",
                       "RenewConfirm", "RenewFinalize"}
<1>1. \A type \in Handled : R(type) => t = type
  BY DEF Receive
<1>2. StoredFirst(p) =
      CASE R("AcceptChannel") -> verify_and_sign_accepted_channel
        [] R("SignChannel") -> verify_signed_channel
        [] R("SettleConfirm") -> settle_channel_finalize(channel[p])
        [] R("SettleFinalize") -> settle_channel_on_finalize(channel[p])
        [] R("RenewConfirm") -> verify_renew_confirm_and_finalize(channel[p])
        [] R("RenewFinalize") -> renew_channel_on_finalize(channel[p])
  BY Zenon DEF StoredFirst
<1> HIDE DEF R, t
<1> QED
  BY <1>1, <1>2 DEF R

\* What a node that ends inside a handler has stored.
LEMMA CrashParts ==
    ASSUME StoresOK, NEW p \in Parties, CrashAfterStore(p)
    PROVE  \E d : /\ Sound(d) /\ Store(p, d) /\ d.state.type \in Stable \cup {"RenewFinalized"}
                  /\ \E type \in {"AcceptChannel", "SignChannel", "SettleConfirm", "SettleFinalize",
                                  "RenewConfirm", "RenewFinalize"} : Receive(p, type)
<1> DEFINE revealed == IF Open(p) THEN channel[p].revealed ELSE {}
           c == StoredFirst(p)
           d == [c EXCEPT !.revealed = revealed]
<1>1. Store(p, d)
  BY DEF CrashAfterStore
<1>2. \E type \in {"AcceptChannel", "SignChannel", "SettleConfirm", "SettleFinalize",
                   "RenewConfirm", "RenewFinalize"} : Receive(p, type)
  BY DEF CrashAfterStore, Superseding
<1>3. /\ Sound(c) /\ revealed \in SUBSET c.revealed
      /\ c.state.type \in Stable \cup {"RenewFinalized"}
  <2>1. CASE Receive(p, "AcceptChannel") \/ Receive(p, "SignChannel")
    <3>1. revealed = {}
      BY <2>1, ReceiveMeans DEF Open
    <3>2. \E flag \in BOOLEAN : c = SignedChannel(flag)
      BY <2>1, StoredFirstIs DEF verify_and_sign_accepted_channel, verify_signed_channel
    <3>3. PICK flag \in BOOLEAN : c = SignedChannel(flag)
      BY <3>2
    <3>4. SignedChannel(flag).state.type = "Established"
      BY DEF SignedChannel, State
    <3> HIDE DEF c, revealed
    <3> QED
      BY <3>1, <3>3, <3>4, SetupSound, TypesDiffer
  <2>2. ASSUME Open(p) PROVE Sound(channel[p]) /\ channel[p] \in Channels /\ revealed = channel[p].revealed
    BY <2>2 DEF StoresOK, ChannelInv, Sound
  <2>3. CASE Receive(p, "SettleConfirm")
    <3>1. Open(p) /\ channel[p].state.type \in {"SettledAccepted", "SettledConfirmed"}
      BY <2>3, ReceiveMeans DEF In
    <3>2. c = settle_channel_finalize(channel[p])
      BY <2>3, StoredFirstIs
    <3> HIDE DEF c, revealed
    <3> QED
      BY <2>2, <3>1, <3>2, SettleSound, KeepsRevealed, TypesDiffer
  <2>4. CASE Receive(p, "SettleFinalize")
    <3>1. Open(p) /\ channel[p].state.type \in {"SettledAccepted", "SettledConfirmed"}
      BY <2>4, ReceiveMeans DEF In
    <3>2. c = settle_channel_on_finalize(channel[p])
      BY <2>4, StoredFirstIs
    <3> HIDE DEF c, revealed
    <3> QED
      BY <2>2, <3>1, <3>2, SettleSound, KeepsRevealed, TypesDiffer
  <2>5. CASE Receive(p, "RenewConfirm")
    <3>1. Open(p) /\ channel[p].state.type = "RenewAccepted"
      BY <2>5, ReceiveMeans DEF In
    <3>2. c = verify_renew_confirm_and_finalize(channel[p])
      BY <2>5, StoredFirstIs
    <3> HIDE DEF c, revealed
    <3> QED
      BY <2>2, <3>1, <3>2, FinalizeSound, KeepsRevealed, TypesDiffer
  <2>6. CASE Receive(p, "RenewFinalize")
    <3>1. Open(p) /\ channel[p].state.type \in {"RenewConfirmed", "RenewFinalized"}
      BY <2>6, ReceiveMeans DEF In
    <3>2. c = renew_channel_on_finalize(channel[p])
      BY <2>6, StoredFirstIs
    <3> HIDE DEF c, revealed
    <3> QED
      BY <2>2, <3>1, <3>2, RenewSound, KeepsRevealed, TypesDiffer
  <2> HIDE DEF c, revealed
  <2> QED
    BY <1>2, <2>1, <2>3, <2>4, <2>5, <2>6
<1> HIDE DEF c, revealed
<1>4. Sound(d) /\ d.state = c.state
  BY <1>3, UnsentSound
<1> QED
  BY <1>1, <1>2, <1>3, <1>4

\* What a node that ends inside a call has stored.
LEMMA CallStores ==
    ASSUME StoresOK, NEW p \in Parties, CrashInCall(p)
    PROVE  StoresOK'
<1>1. CASE In(p, env.closeFrom) /\ Store(p, updater_offer_collaborative_close(channel[p], p))
  <2> DEFINE s == State("CollaborativeCloseOffered", CloseTx(p), TRUE)
  <2>1. /\ s \in States /\ s.type = "CollaborativeCloseOffered"
        /\ s.tx \in Txs /\ s.tx.type = "close"
    BY TxParts DEF State, States, StateTypes, Pending
  <2>2. Store(p, Propose(channel[p], s)) /\ Open(p)
    BY <1>1 DEF updater_offer_collaborative_close, In
  <2> HIDE DEF s
  <2>3. Sound(Propose(channel[p], s))
    BY <2>1, <2>2, OfferCloseSound DEF StoresOK, ChannelInv
  <2> QED
    BY <2>2, <2>3, StoreStep
<1>2. CASE /\ Open(p) /\ ToClose(p).state.type \in {"Established", "RenewFinalized"}
           /\ Store(p, initiate_unilateral_close(ToClose(p)))
  BY <1>2, InitiateSound, StoreStep
<1> QED
  BY <1>1, <1>2 DEF CrashInCall, ClosesAlone

\* Every step keeps the stores sound.
LEMMA StoresStep ==
    ASSUME TypeOK, StoresOK, Next
    PROVE  StoresOK'
<1>1. PICK p \in Parties :
        \/ Calls(p) \/ Answers(p) \/ on_dlc_message(p) \/ channel_checks(p)
        \/ Restart(p) \/ CrashAfterSend(p) \/ CrashAfterStore(p) \/ Lose(p)
        \/ CrashInCall(p) \/ check_signed_contracts(p)
  BY Zenon DEF Next
<1>2. UNCHANGED channel => StoresOK'
  BY DEF StoresOK, StoreType, ChannelInv, Open
<1>3. CASE Calls(p)
  BY <1>3, SetupStores, ProposalStores, ClosingStores DEF Calls
<1>4. CASE Answers(p)
  BY <1>4, SetupStores, SigningStores, RejectStores, ClosingStores DEF Answers
<1>5. CASE on_dlc_message(p)
  <2>1. CASE Ignore(p) \/ fail_settlement(p)
    BY <1>2, <2>1 DEF Ignore, fail_settlement
  <2> QED
    BY <1>5, <2>1, SetupStores, ProposalStores, SigningStores, FinishStores, ClosingStores,
       RejectStores DEF on_dlc_message
<1>6. CASE channel_checks(p)
  BY <1>6, ClosingStores
<1>7. CASE Restart(p) \/ CrashAfterSend(p) \/ Lose(p) \/ check_signed_contracts(p)
  BY <1>2, <1>7 DEF Restart, CrashAfterSend, Lose, check_signed_contracts
<1>8. CASE CrashAfterStore(p)
  BY <1>8, CrashParts, StoreStep
<1>9. CASE CrashInCall(p)
  BY <1>9, CallStores
<1> QED
  BY <1>1, <1>3, <1>4, <1>5, <1>6, <1>7, <1>8, <1>9
----------------------------------------------------------------------------
(* The messages.                                                           *)

NetType == net \in [Parties -> Seq(Messages)]

\* The messages on their way to a node.
Carried(q) == {net[q][i] : i \in DOMAIN net[q]}

\* The rest of a queue.
LEMMA TailParts ==
    ASSUME NEW S, NEW s \in Seq(S), s # <<>>
    PROVE  /\ Tail(s) \in Seq(S)
           /\ \A i \in DOMAIN Tail(s) : i + 1 \in DOMAIN s /\ Tail(s)[i] = s[i + 1]
OBVIOUS

\* A queue with a message more.
LEMMA AppendParts ==
    ASSUME NEW S, NEW s \in Seq(S), NEW e \in S
    PROVE  /\ Append(s, e) \in Seq(S)
           /\ \A i \in DOMAIN Append(s, e) :
                \/ i \in DOMAIN s /\ Append(s, e)[i] = s[i]
                \/ i = Len(s) + 1 /\ Append(s, e)[i] = e
OBVIOUS

\* A node sends a message, possibly as the answer to the one it handled.
LEMMA SendNet ==
    ASSUME NetType, NEW p \in Parties, NEW type \in MessageTypes, NEW idx \in Nat,
           Send(p, type, idx) \/ (Reply(p, type, idx) /\ net[p] # <<>>)
    PROVE  /\ NetType'
           /\ Carried(p)' \subseteq Carried(p)
           /\ Carried(Other(p))' \subseteq Carried(Other(p)) \cup {[type |-> type, idx |-> idx]}
<1> DEFINE q == Other(p)
           m == [type |-> type, idx |-> idx]
<1>1. q \in Parties /\ q # p /\ \A r \in Parties : r = p \/ r = q
  BY OtherIs
<1>2. m \in Messages
  BY DEF Messages
<1>3. net[p] \in Seq(Messages) /\ net[q] \in Seq(Messages)
  BY <1>1 DEF NetType
<1> HIDE DEF m, q
<1>4. net'[q] = Append(net[q], m) /\ (net'[p] = net[p] \/ (net[p] # <<>> /\ net'[p] = Tail(net[p])))
  BY <1>1 DEF NetType, Send, Reply, m, q
<1>5. net' = [r \in Parties |-> net'[r]]
  BY DEF NetType, Send, Reply
<1>5a. net[p] # <<>> => /\ Tail(net[p]) \in Seq(Messages)
                       /\ \A i \in DOMAIN Tail(net[p]) : \E j \in DOMAIN net[p] : Tail(net[p])[i] = net[p][j]
  BY <1>3, TailParts
<1>5b. Append(net[q], m) \in Seq(Messages)
  BY <1>2, <1>3, AppendParts
<1>6. net'[q] \in Seq(Messages) /\ net'[p] \in Seq(Messages)
  BY <1>3, <1>4, <1>5a, <1>5b, Zenon
<1>7. \A r \in Parties : net'[r] \in Seq(Messages)
  BY <1>1, <1>6
<1>8. \A i \in DOMAIN net'[p] : \E j \in DOMAIN net[p] : net'[p][i] = net[p][j]
  BY <1>4, <1>5a, Zenon
<1>9. \A i \in DOMAIN net'[q] : net'[q][i] = m \/ \E j \in DOMAIN net[q] : net'[q][i] = net[q][j]
  BY <1>2, <1>3, <1>4
<1>10. NetType'
  BY <1>5, <1>7, Zenon DEF NetType
<1> QED
  BY <1>8, <1>9, <1>10 DEF Carried, q, m

\* A message is handled, dropped, or lost with the process.
LEMMA TakeNet ==
    ASSUME NetType, NEW p \in Parties, (Consume(p) /\ net[p] # <<>>) \/ Reload(p) \/ UNCHANGED net
    PROVE  /\ NetType'
           /\ \A q \in Parties : Carried(q)' \subseteq Carried(q)
<1>1. net[p] \in Seq(Messages)
  BY DEF NetType
<1>2. /\ net' = [r \in Parties |-> net'[r]]
      /\ \A q \in Parties \ {p} : net'[q] = net[q]
      /\ net'[p] \in {net[p], <<>>} \/ (net[p] # <<>> /\ net'[p] = Tail(net[p]))
  BY DEF NetType, Consume, Reload
<1>2a. net[p] # <<>> => /\ Tail(net[p]) \in Seq(Messages)
                       /\ \A i \in DOMAIN Tail(net[p]) : \E j \in DOMAIN net[p] : Tail(net[p])[i] = net[p][j]
  BY <1>1, TailParts
<1>3. net'[p] \in Seq(Messages)
  <2>1. <<>> \in Seq(Messages)
    OBVIOUS
  <2> QED
    BY <1>1, <1>2, <1>2a, <2>1, Zenon
<1>4. \A i \in DOMAIN net'[p] : \E j \in DOMAIN net[p] : net'[p][i] = net[p][j]
  <2>1. DOMAIN <<>> = {}
    OBVIOUS
  <2> QED
    BY <1>2, <1>2a, <2>1, Zenon
<1>5. \A r \in Parties : net'[r] \in Seq(Messages)
  BY <1>2, <1>3 DEF NetType
<1>6. NetType'
  BY <1>2, <1>5, Zenon DEF NetType
<1>7. Carried(p)' \subseteq Carried(p)
  BY <1>4 DEF Carried
<1>8. \A q \in Parties \ {p} : Carried(q)' = Carried(q)
  BY <1>2 DEF Carried
<1> QED
  BY <1>6, <1>7, <1>8

\* The message at the head of a queue is one of those on their way.
LEMMA HeadCarried ==
    ASSUME NetType, NEW p \in Parties, net[p] # <<>>
    PROVE  Head(net[p]) \in Carried(p) /\ Head(net[p]) \in Messages
<1>1. net[p] \in Seq(Messages)
  BY DEF NetType
<1>2. 1 \in DOMAIN net[p] /\ Head(net[p]) = net[p][1] /\ Head(net[p]) \in Messages
  BY <1>1
<1> QED
  BY <1>2 DEF Carried

\* How an accepted channel gets to the signed one, and the signed one to the fund transaction.
FundedInv ==
    /\ \A q \in Parties : \A m \in Carried(q) : m.type = "AcceptChannel" => q = Offerer
    /\ \A q \in Parties : \A m \in Carried(q) : m.type = "SignChannel" => channel[Offerer].status \notin Setup
    /\ FundedWhenBothSigned

\* What a step sends: numbers, and of the setup only what its sender has stored.
LEMMA SentNet ==
    ASSUME TypeOK, StoresOK, Next
    PROVE  /\ NetType'
           /\ \A q \in Parties : \A m \in Carried(q)' \ Carried(q) :
                /\ m.type = "AcceptChannel" => q = Offerer
                /\ m.type = "SignChannel" => \E p \in Parties : Receive(p, "AcceptChannel")
                                                    /\ channel'[p].status = "Signed"
<1>1. PICK p \in Parties :
        \/ Calls(p) \/ Answers(p) \/ on_dlc_message(p) \/ channel_checks(p)
        \/ Restart(p) \/ CrashAfterSend(p) \/ CrashAfterStore(p) \/ Lose(p)
        \/ CrashInCall(p) \/ check_signed_contracts(p)
  BY Zenon DEF Next
<1> DEFINE Goal == /\ NetType'
                   /\ \A q \in Parties : \A m \in Carried(q)' \ Carried(q) :
                        /\ m.type = "AcceptChannel" => q = Offerer
                        /\ m.type = "SignChannel" => \E r \in Parties : Receive(r, "AcceptChannel")
                                                            /\ channel'[r].status = "Signed"
<1>2. NetType /\ Validity \subseteq Nat
  BY DEF TypeOK, NetType, Validity
<1>3. ASSUME (Consume(p) /\ net[p] # <<>>) \/ Reload(p) \/ UNCHANGED net
      PROVE  Goal
  BY <1>2, <1>3, TakeNet
<1>4. ASSUME NEW type \in MessageTypes, NEW idx \in Nat,
             Send(p, type, idx) \/ (Reply(p, type, idx) /\ net[p] # <<>>),
             type = "AcceptChannel" => Other(p) = Offerer,
             type = "SignChannel" => Receive(p, "AcceptChannel") /\ channel'[p].status = "Signed"
      PROVE  Goal
  <2>1. /\ NetType'
        /\ \A q \in Parties : \A m \in Carried(q)' \ Carried(q) :
             q = Other(p) /\ m = [type |-> type, idx |-> idx]
    BY <1>2, <1>4, SendNet, OtherIs
  <2> QED
    BY <1>4, <2>1
<1> SUFFICES Goal
  OBVIOUS
<1> HIDE DEF Goal
<1>5. ASSUME NEW type \in MessageTypes \ {"AcceptChannel", "SignChannel"}, NEW idx \in Nat,
             Send(p, type, idx) \/ (Reply(p, type, idx) /\ net[p] # <<>>)
      PROVE  Goal
  BY <1>4, <1>5
<1>6. MessageTypes \ {"AcceptChannel", "SignChannel"} =
         {"OfferChannel", "SettleOffer", "SettleAccept", "SettleConfirm", "SettleFinalize", "RenewOffer",
          "RenewAccept", "RenewConfirm", "RenewFinalize", "RenewRevoke", "CollaborativeCloseOffer", "Reject"}
  BY DEF MessageTypes
<1>7. 0 \in Nat /\ (Open(p) => channel[p].update_idx \in Nat /\ NextIdx(p) \in Nat)
  <2>1. Open(p) => channel[p] \in Channels
    BY DEF StoresOK, ChannelInv, Sound
  <2> QED
    BY <2>1, ChannelParts DEF NextIdx
<1>8. CASE Calls(p)
  <2>1. CASE offer_channel(p)
    BY <1>2, <1>5, <1>6, <2>1 DEF offer_channel
  <2>2. CASE settle_offer(p)
    BY <1>5, <1>6, <1>7, <2>2 DEF settle_offer, In
  <2>3. CASE renew_offer(p)
    BY <1>5, <1>6, <1>7, <2>3 DEF renew_offer, In
  <2>4. CASE offer_collaborative_close(p)
    BY <1>5, <1>6, <1>7, <2>4 DEF offer_collaborative_close
  <2>5. CASE force_close_channel(p)
    BY <1>3, <2>5 DEF force_close_channel
  <2> QED
    BY <1>8, <2>1, <2>2, <2>3, <2>4, <2>5 DEF Calls
<1>9. CASE Answers(p)
  <2>1. CASE accept_channel(p)
    <3>1. PICK valid \in Validity : Send(p, "AcceptChannel", valid)
      BY <2>1 DEF accept_channel
    <3>2. Other(p) = Offerer
      BY <2>1, OtherIs, PartiesAssumption DEF accept_channel
    <3>3. "AcceptChannel" \in MessageTypes /\ valid \in Nat
      BY <1>2 DEF MessageTypes
    <3> QED
      BY <1>4, <3>1, <3>2, <3>3
  <2>2. CASE reject_channel(p) \/ reject_settle_offer(p) \/ reject_renew_offer(p)
    BY <1>5, <1>6, <1>7, <2>2 DEF reject_channel, reject_settle_offer, reject_renew_offer
  <2>3. CASE accept_settle_offer(p)
    BY <1>5, <1>6, <1>7, <2>3 DEF accept_settle_offer, In
  <2>4. CASE accept_renew_offer(p)
    BY <1>5, <1>6, <1>7, <2>4 DEF accept_renew_offer, In
  <2>5. CASE accept_collaborative_close(p)
    BY <1>3, <2>5 DEF accept_collaborative_close
  <2> QED
    BY <1>9, <2>1, <2>2, <2>3, <2>4, <2>5 DEF Answers
<1>10. CASE on_dlc_message(p)
  <2>1. CASE on_accept_channel(p)
    <3>1. Receive(p, "AcceptChannel") /\ net[p] # <<>>
      BY <2>1, ReceiveMeans DEF on_accept_channel
    <3>2. CASE Consume(p)
      BY <1>3, <3>1, <3>2
    <3>3. CASE Store(p, verify_and_sign_accepted_channel) /\ \E valid \in Validity : Reply(p, "SignChannel", valid)
      <4>1. PICK valid \in Validity : Reply(p, "SignChannel", valid)
        BY <3>3
      <4>2. channel'[p].status = "Signed"
        <5>1. channel'[p] = SignedChannel(TRUE)
          BY <3>3 DEF Store, verify_and_sign_accepted_channel, StoresOK, StoreType
        <5> QED
          BY <5>1 DEF SignedChannel
      <4>3. "SignChannel" \in MessageTypes /\ valid \in Nat
        BY <1>2 DEF MessageTypes
      <4> QED
        BY <1>4, <3>1, <4>1, <4>2, <4>3
    <3> QED
      BY <2>1, <3>2, <3>3 DEF on_accept_channel
  <2>2. CASE on_offer_channel(p) \/ on_sign_channel(p) \/ on_settle_finalize(p) \/ on_renew_revoke(p)
             \/ on_collaborative_close_offer(p) \/ on_reject(p) \/ fail_settlement(p) \/ Ignore(p)
    BY <1>3, <2>2, ReceiveMeans DEF on_offer_channel, on_sign_channel, on_settle_finalize, on_renew_revoke,
       on_collaborative_close_offer, on_reject, fail_settlement, UnconfirmedSettlement, Ignore
  <2>3. CASE on_settle_offer(p) \/ on_renew_offer(p)
    BY <1>3, <1>5, <1>6, <1>7, <2>3, ReceiveMeans DEF on_settle_offer, on_renew_offer
  <2>4. CASE on_settle_accept(p)
    BY <1>5, <1>6, <1>7, <2>4, ReceiveMeans DEF on_settle_accept, In
  <2>5. CASE on_settle_confirm(p)
    BY <1>5, <1>6, <1>7, <2>5, ReceiveMeans DEF on_settle_confirm, In
  <2>6. CASE on_renew_accept(p)
    BY <1>5, <1>6, <1>7, <2>6, ReceiveMeans DEF on_renew_accept, In
  <2>7. CASE on_renew_confirm(p)
    BY <1>5, <1>6, <1>7, <2>7, ReceiveMeans DEF on_renew_confirm, In
  <2>8. CASE on_renew_finalize(p)
    BY <1>5, <1>6, <1>7, <2>8, ReceiveMeans DEF on_renew_finalize, In
  <2> QED
    BY <1>10, <2>1, <2>2, <2>3, <2>4, <2>5, <2>6, <2>7, <2>8 DEF on_dlc_message
<1>11. CASE channel_checks(p)
  BY <1>3, <1>11 DEF channel_checks, try_finalize_closing_established_channel,
     check_for_timed_out_channels, process_watched_txs, SeeBufferTx, SeeRevoked, SeeCollaborativeClose,
     SeeSettleTx, SeeCet, check_for_watched_tx
<1>12. CASE \/ Restart(p) \/ CrashAfterSend(p) \/ CrashAfterStore(p) \/ Lose(p)
            \/ CrashInCall(p) \/ check_signed_contracts(p)
  BY <1>3, <1>12 DEF Restart, CrashAfterSend, CrashAfterStore, CrashInCall, check_signed_contracts, Lose
<1> QED
  BY <1>1, <1>8, <1>9, <1>10, <1>11, <1>12
----------------------------------------------------------------------------
(* What a step of a node changes: its own store and monitor, and at most   *)
(* the chain.                                                              *)

Ending == {"Closing", "CollaborativeCloseOffered"}

Frame(p) ==
    /\ watch' = [r \in Parties |-> watch'[r]]
    /\ saved' = [r \in Parties |-> saved'[r]]
    /\ \A q \in Parties \ {p} :
          channel'[q] = channel[q] /\ watch'[q] = watch[q] /\ saved'[q] = saved[q]

\* Nothing, or the first transaction that spends the fund output.
Spends(p) ==
    \/ spend' = spend
    \/ spend = None /\ spend' \in [tx : Txs, by : {p}]

\* The updates whose transactions are revoked.
Reach(c) == IF c.state.type = "RenewFinalized" THEN c.update_idx + 1 ELSE c.update_idx

Rests(p) ==
    /\ channel'[p] = channel[p]
    /\ watch'[p] \in {watch[p], saved[p]} /\ saved'[p] \in {watch[p], saved[p]}
    /\ spend' = spend \/ (env.crashes /\ Open(p) /\ Spends(p))

SetsUp(p) ==
    /\ channel[p].status \in Setup /\ spend' = spend
    /\ \/ channel'[p].status \in Setup
       \/ /\ channel'[p].status = "Signed" /\ channel'[p].state.type = "Established"
          /\ channel'[p].update_idx = 0
    /\ watch'[p] \in {watch[p], saved[p], add_tx(watch[p], BufferTx(0, Offerer), "BufferTx", 0, FALSE)}
    /\ saved'[p] \in {saved[p], watch'[p]}

Works(p) ==
    /\ Open(p) /\ channel[p].state.type \notin Ending
    /\ Open(p)' /\ channel'[p].state.type \notin Ending
    /\ spend' = spend
    /\ \/ /\ Reach(channel'[p]) = Reach(channel[p])
          /\ saved'[p] = saved[p]
          /\ \/ watch'[p] = watch[p]
             \/ \E tx \in Txs : /\ IsUpdateTx(tx, channel[p].update_idx + 1)
                                /\ channel[p].state.type # "RenewFinalized"
                                /\ watch'[p] = add_tx(watch[p], tx, "SettleTx", 0, FALSE)
             \/ \E tx \in Txs, flag \in BOOLEAN : /\ IsUpdateTx(tx, Reach(channel[p]))
                                                 /\ watch'[p] = AddRevoked(watch[p], tx, Reach(channel[p]), flag)
       \/ /\ Reach(channel'[p]) = Reach(channel[p]) + 1
          /\ \E w \in SUBSET Watches, tx \in Txs, flag \in BOOLEAN :
                /\ \/ w = watch[p]
                   \/ \E next \in Txs : /\ IsUpdateTx(next, Reach(channel[p]) + 1)
                                        /\ w = add_tx(watch[p], next, "BufferTx", 0, FALSE)
                /\ IsUpdateTx(tx, Reach(channel[p]))
                /\ watch'[p] = AddRevoked(w, tx, Reach(channel[p]), flag)
          /\ saved'[p] = watch'[p]
       \/ env.crashes /\ watch'[p] = saved[p] /\ saved'[p] = saved[p]

OffersClose(p) ==
    /\ Open(p) /\ Open(p)' /\ channel'[p].state.type = "CollaborativeCloseOffered"
    /\ spend' = spend
    /\ watch'[p] \in {watch[p], saved[p], add_tx(watch[p], CloseTx(p), "CollaborativeClose", 0, FALSE)}
    /\ saved'[p] \in {saved[p], watch'[p]}

SeesBuffer(p) ==
    /\ Open(p) /\ Open(p)' /\ channel'[p].state.type = "Closing" /\ channel'[p].state.flag = FALSE
    /\ spend # None /\ \E e \in watch[p] : e.type = "BufferTx" /\ e.tx = spend.tx
    /\ spend' = spend /\ watch'[p] = watch[p] /\ saved'[p] = saved[p]

Forces(p) ==
    /\ Open(p) /\ Open(p)' /\ channel'[p].state.type = "Closing" /\ channel'[p].state.flag = TRUE
    /\ Spends(p) /\ spend' # None
    /\ \/ watch'[p] = remove_tx(watch[p], spend'.tx) /\ saved'[p] = watch'[p]
       \/ env.crashes /\ watch'[p] = saved[p] /\ saved'[p] = saved[p]

Finds(p, type) == spend # None /\ \E e \in watch[p] : e.type = type /\ e.tx = spend.tx

Ends(p) ==
    /\ Open(p) /\ channel'[p].status \in Gone
    /\ Spends(p)
    /\ watch'[p] \in {watch[p], {}} /\ saved'[p] \in {saved[p], watch'[p]}
    /\ channel'[p].status = "CollaborativelyClosed" =>
          spend' # None /\ (spend'.tx.type = "close" \/ (spend' = spend /\ Finds(p, "CollaborativeClose")))
    /\ channel'[p].status = "ClosedPunished" => spend' = spend /\ spend # None /\ spend.by # p
    /\ channel'[p].status = "CounterClosed" =>
          /\ spend' = spend /\ spend # None
          /\ Finds(p, "SettleTx") \/ (channel[p].state.type = "Closing" /\ channel[p].state.flag = FALSE)

StepOf(p) ==
    /\ Frame(p)
    /\ \/ Rests(p) \/ SetsUp(p) \/ Works(p) \/ OffersClose(p) \/ SeesBuffer(p) \/ Forces(p) \/ Ends(p)

\* The steps after which a node does not work on the channel any more.
Closes(p) == OffersClose(p) \/ SeesBuffer(p) \/ Forces(p) \/ Ends(p)

\* The parts of the state a step leaves alone.
LEMMA FrameStep ==
    ASSUME TypeOK, NEW p \in Parties,
           \/ UNCHANGED channel \/ \E c : Store(p, c) \/ \E status : Become(p, status),
           UNCHANGED watch \/ \E w : WatchFrom(p, w),
           UNCHANGED saved \/ Persist(p) \/ saved' = [saved EXCEPT ![p] = watch[p]]
    PROVE  Frame(p)
<1>1. \A q \in Parties \ {p} : channel'[q] = channel[q]
  BY DEF TypeOK, Store, Become
<1>2. watch' = [r \in Parties |-> watch'[r]] /\ \A q \in Parties \ {p} : watch'[q] = watch[q]
  BY DEF TypeOK, WatchFrom
<1>3. saved' = [r \in Parties |-> saved'[r]] /\ \A q \in Parties \ {p} : saved'[q] = saved[q]
  BY DEF TypeOK, Persist
<1> QED
  BY <1>1, <1>2, <1>3 DEF Frame

\* A new monitor, in memory and stored.
LEMMA WatchStep ==
    ASSUME TypeOK, NEW p \in Parties
    PROVE  /\ \A w : WatchFrom(p, w) => watch'[p] = w
           /\ UNCHANGED watch => watch'[p] = watch[p]
           /\ UNCHANGED saved => saved'[p] = saved[p]
           /\ Persist(p) => saved'[p] = watch'[p]
           /\ saved' = [saved EXCEPT ![p] = watch[p]] => saved'[p] = watch[p]
           /\ Reload(p) => watch'[p] = saved[p]
           /\ \A c : Store(p, c) => channel'[p] = c
           /\ \A status : Become(p, status) => channel'[p].status = status
BY DEF TypeOK, WatchFrom, Persist, Reload, Store, Become

\* The transactions a node sends.
LEMMA SendStep ==
    ASSUME TypeOK, NEW p \in Parties, NEW tx \in Txs, send_transaction(p, tx)
    PROVE  Spends(p) /\ spend' # None /\ spend'.tx = tx
<1>1. CASE spend = None /\ spend' = [tx |-> tx, by |-> p]
  <2>1. spend' \in [tx : Txs, by : {p}] /\ spend'.tx = tx
    BY <1>1
  <2>2. spend' # None
    BY <1>1, NoneAssumption
  <2> QED
    BY <1>1, <2>1, <2>2 DEF Spends
<1>2. CASE spend # None /\ spend.tx = tx /\ UNCHANGED spend
  BY <1>2 DEF Spends
<1> QED
  BY <1>1, <1>2 DEF send_transaction
\* Steps that leave the node's channel as it was.
LEMMA RestingSteps ==
    ASSUME TypeOK, StoresOK, NEW p \in Parties,
           \/ Ignore(p) \/ Lose(p) \/ Restart(p) \/ check_for_watched_tx(p) \/ CrashAfterSend(p)
           \/ check_signed_contracts(p)
    PROVE  StepOf(p)
<1>1. Frame(p)
  BY FrameStep DEF Ignore, Lose, Restart, check_for_watched_tx, CrashAfterSend, check_signed_contracts,
     Reload, WatchFrom
<1>2. /\ UNCHANGED channel
      /\ watch'[p] \in {watch[p], saved[p]} /\ saved'[p] \in {watch[p], saved[p]}
  BY WatchStep DEF Ignore, Lose, Restart, check_for_watched_tx, CrashAfterSend, check_signed_contracts
<1>3. spend' = spend \/ (env.crashes /\ Open(p) /\ Spends(p))
  <2>1. CASE CrashAfterSend(p)
    <3>1. ASSUME AcceptsClose(p) PROVE Open(p) /\ Spends(p)
      <4>1. /\ Open(p) /\ channel[p].state.type = "CollaborativeCloseOffered"
            /\ spend = None /\ spend' = [tx |-> channel[p].state.tx, by |-> p]
        BY <3>1 DEF AcceptsClose, In
      <4>2. channel[p].state.tx \in Txs
        BY <4>1 DEF StoresOK, ChannelInv, Sound, Fits
      <4> QED
        BY <4>1, <4>2 DEF Spends
    <3>2. ASSUME Open(p), ToClose(p).state.type \in Closable, send_transaction(p, ToClose(p).state.tx)
          PROVE  Spends(p)
      BY <3>2, ToCloseParts, SendStep
    <3> QED
      BY <2>1, <3>1, <3>2 DEF CrashAfterSend, ClosesAlone
  <2> QED
    BY <2>1 DEF Ignore, Lose, Restart, check_for_watched_tx, check_signed_contracts
<1> QED
  BY <1>1, <1>2, <1>3 DEF StepOf, Rests

\* Steps of the setup.
LEMMA SetupSteps ==
    ASSUME TypeOK, StoresOK, NEW p \in Parties,
           \/ offer_channel(p) \/ accept_channel(p) \/ reject_channel(p) \/ on_offer_channel(p)
           \/ on_accept_channel(p) \/ on_sign_channel(p)
    PROVE  StepOf(p)
<1> DEFINE W == add_tx(watch[p], BufferTx(0, Offerer), "BufferTx", 0, FALSE)
<1>1. Frame(p)
  <2> HIDE DEF W
  <2> QED
    BY FrameStep DEF offer_channel, accept_channel, reject_channel, on_offer_channel,
       on_accept_channel, on_sign_channel, WatchFirstBuffer
<1>2. channel[p].status \in {"None", "Offered", "Accepted"}
  BY ReceiveMeans DEF offer_channel, accept_channel, reject_channel, on_offer_channel,
       on_accept_channel, on_sign_channel
<1>3. spend' = spend
  BY DEF offer_channel, accept_channel, reject_channel, on_offer_channel,
       on_accept_channel, on_sign_channel
<1>4. \/ \E status \in {"Offered", "Accepted", "Cancelled", "FailedAccept", "FailedSign"} : Become(p, status)
      \/ \E flag \in BOOLEAN : Store(p, SignedChannel(flag))
      \/ UNCHANGED channel
  <2> HIDE DEF W
  <2> QED
    BY DEF offer_channel, accept_channel, reject_channel, on_offer_channel,
       on_accept_channel, on_sign_channel, verify_and_sign_accepted_channel, verify_signed_channel
<1>5. ASSUME NEW flag \in BOOLEAN
      PROVE  /\ SignedChannel(flag).status = "Signed" /\ SignedChannel(flag).state.type = "Established"
             /\ SignedChannel(flag).update_idx = 0
  BY DEF SignedChannel, State
<1>6. \/ channel'[p].status \in Setup
      \/ /\ channel'[p].status = "Signed" /\ channel'[p].state.type = "Established"
         /\ channel'[p].update_idx = 0
  BY <1>2, <1>4, <1>5, WatchStep DEF Setup
<1>7. \/ WatchFrom(p, W) /\ (Persist(p) \/ UNCHANGED saved)
      \/ UNCHANGED <<watch, saved>>
  <2> HIDE DEF W
  <2> QED
    BY DEF offer_channel, accept_channel, reject_channel, on_offer_channel,
       on_accept_channel, on_sign_channel, WatchFirstBuffer, W
<1>8. watch'[p] \in {watch[p], saved[p], W} /\ saved'[p] \in {saved[p], watch'[p]}
  <2> HIDE DEF W
  <2> QED
    BY <1>7, WatchStep
<1> HIDE DEF W
<1> QED
  BY <1>1, <1>2, <1>3, <1>6, <1>8 DEF StepOf, SetsUp, Setup, W
\* A stored channel in its next state, at the same update.
Restated(p, s) ==
    /\ channel'[p].status = "Signed" /\ channel'[p].state = s
    /\ channel'[p].update_idx = channel[p].update_idx
    /\ channel'[p].counter_point = channel[p].counter_point

\* The stores of a channel in its next state.
LEMMA RestatedBy ==
    ASSUME TypeOK, StoresOK, NEW p \in Parties, Open(p), NEW s
    PROVE  /\ Store(p, Propose(channel[p], s)) => Restated(p, s) /\ channel'[p].roll_back = channel[p].state
           /\ Store(p, [channel[p] EXCEPT !.state = s]) =>
                Restated(p, s) /\ channel'[p].roll_back = channel[p].roll_back
           /\ Store(p, Reveal([channel[p] EXCEPT !.state = s])) =>
                Restated(p, s) /\ channel'[p].roll_back = channel[p].roll_back
           /\ Store(p, RollBack(channel[p])) =>
                Restated(p, channel[p].roll_back) /\ channel'[p].roll_back = None
<1>1. channel[p] \in Channels
  BY DEF StoresOK, ChannelInv, Sound
<1> DEFINE c == channel[p]
<1> HIDE DEF c
<1>2. c \in Channels
  BY <1>1 DEF c
<1>3. LET d == Propose(c, s) IN
      /\ d.status = "Signed" /\ d.state = s /\ d.update_idx = c.update_idx
      /\ d.counter_point = c.counter_point /\ d.roll_back = c.state
  BY <1>2 DEF Propose, Channels
<1>4. LET d == [c EXCEPT !.state = s] IN
      /\ d.status = "Signed" /\ d.state = s /\ d.update_idx = c.update_idx
      /\ d.counter_point = c.counter_point /\ d.roll_back = c.roll_back
  BY <1>2 DEF Channels
<1>5. LET d == Reveal([c EXCEPT !.state = s]) IN
      /\ d.status = "Signed" /\ d.state = s /\ d.update_idx = c.update_idx
      /\ d.counter_point = c.counter_point /\ d.roll_back = c.roll_back
  BY <1>2 DEF Reveal, Channels
<1>6. LET d == RollBack(c) IN
      /\ d.status = "Signed" /\ d.state = c.roll_back /\ d.update_idx = c.update_idx
      /\ d.counter_point = c.counter_point /\ d.roll_back = None
  BY <1>2 DEF RollBack, Channels
<1>7. \A d : Store(p, d) => channel'[p] = d
  BY WatchStep
<1>8. Store(p, Propose(c, s)) => channel'[p] = Propose(c, s)
  BY <1>7
<1>9. Store(p, [c EXCEPT !.state = s]) => channel'[p] = [c EXCEPT !.state = s]
  BY <1>7
<1>10. Store(p, Reveal([c EXCEPT !.state = s])) => channel'[p] = Reveal([c EXCEPT !.state = s])
  BY <1>7
<1>11. Store(p, RollBack(c)) => channel'[p] = RollBack(c)
  BY <1>7
<1>12. Store(p, Propose(c, s)) => Restated(p, s) /\ channel'[p].roll_back = c.state
  BY <1>3, <1>8 DEF Restated, c
<1>13. Store(p, [c EXCEPT !.state = s]) => Restated(p, s) /\ channel'[p].roll_back = c.roll_back
  BY <1>4, <1>9 DEF Restated, c
<1>14. Store(p, Reveal([c EXCEPT !.state = s])) => Restated(p, s) /\ channel'[p].roll_back = c.roll_back
  BY <1>5, <1>10 DEF Restated, c
<1>15. Store(p, RollBack(c)) => Restated(p, c.roll_back) /\ channel'[p].roll_back = None
  BY <1>6, <1>11 DEF Restated, c
<1> QED
  BY <1>12, <1>13, <1>14, <1>15 DEF c

\* Proposals, made and received.
LEMMA ProposalMoves ==
    ASSUME TypeOK, StoresOK, NEW p \in Parties,
           settle_offer(p) \/ renew_offer(p) \/ on_settle_offer(p) \/ on_renew_offer(p)
    PROVE  \/ /\ In(p, Stable) /\ channel'[p].roll_back = channel[p].state
              /\ \E s \in States : s.type \in Proposed /\ Restated(p, s)
           \/ In(p, Proposed) /\ UNCHANGED channel
<1> DEFINE Goal == \/ /\ In(p, Stable) /\ channel'[p].roll_back = channel[p].state
                      /\ \E s \in States : s.type \in Proposed /\ Restated(p, s)
                   \/ In(p, Proposed) /\ UNCHANGED channel
<1> SUFFICES Goal
  OBVIOUS
<1>1. ASSUME In(p, Stable), NEW s \in States, s.type \in Proposed, Store(p, Propose(channel[p], s))
      PROVE  Goal
  <2>1. Open(p)
    BY <1>1 DEF In
  <2> QED
    BY <1>1, <2>1, RestatedBy
<1>2. ASSUME In(p, Proposed), UNCHANGED channel PROVE Goal
  BY <1>2
<1> HIDE DEF Goal
<1>3. /\ State("SettledOffered", None, TRUE) \in States
      /\ State("SettledReceived", None, FALSE) \in States
      /\ State("RenewOffered", None, TRUE) \in States /\ State("RenewOffered", None, FALSE) \in States
      /\ State("SettledOffered", None, TRUE).type \in Proposed
      /\ State("SettledReceived", None, FALSE).type \in Proposed
      /\ State("RenewOffered", None, TRUE).type \in Proposed
      /\ State("RenewOffered", None, FALSE).type \in Proposed
  BY DEF State, States, Proposed, StateTypes, Pending
<1>4. /\ In(p, {"Established"}) => In(p, Stable)
      /\ In(p, {"SettledOffered"}) \/ In(p, {"RenewOffered"}) => In(p, Proposed)
  BY DEF In, Stable, Proposed
<1>5. CASE settle_offer(p)
  BY <1>1, <1>3, <1>4, <1>5 DEF settle_offer, settle_channel_offer
<1>6. CASE renew_offer(p)
  BY <1>1, <1>3, <1>6 DEF renew_offer, updater_renew_offer
<1>7. CASE on_settle_offer(p)
  BY <1>1, <1>2, <1>3, <1>4, <1>7 DEF on_settle_offer, updater_on_settle_offer
<1>8. CASE on_renew_offer(p)
  BY <1>1, <1>2, <1>3, <1>4, <1>8 DEF on_renew_offer, updater_on_renew_offer
<1> QED
  BY <1>5, <1>6, <1>7, <1>8

\* Proposals undone.
LEMMA RejectMoves ==
    ASSUME TypeOK, StoresOK, NEW p \in Parties,
           reject_settle_offer(p) \/ reject_renew_offer(p) \/ (Open(p) /\ on_reject(p))
    PROVE  /\ In(p, Proposed) /\ Restated(p, channel[p].roll_back)
           /\ channel[p].roll_back \in States /\ channel[p].roll_back.type \in Stable
<1>1. In(p, Proposed) /\ Store(p, RollBack(channel[p]))
  BY ReceiveMeans DEF reject_settle_offer, reject_renew_offer, on_reject, In, Proposed, Open
<1>2. Sound(channel[p]) /\ channel[p].state.type \in Proposed /\ channel[p] \in Channels /\ Open(p)
  BY <1>1, InSound DEF In
<1>3. channel[p].roll_back # None /\ channel[p].roll_back.type \in Stable
  BY <1>2, TypesDiffer DEF Sound, Proposed
<1> QED
  BY <1>1, <1>2, <1>3, RestatedBy, ChannelParts

\* The answers and confirmations.
LEMMA SigningMoves ==
    ASSUME TypeOK, StoresOK, NEW p \in Parties
    PROVE  /\ accept_settle_offer(p) =>
                /\ In(p, {"SettledReceived"})
                /\ \E s \in States : /\ s.type = "SettledAccepted" /\ s.tx = SettleTx(NextIdx(p), Other(p))
                                     /\ Restated(p, s)
           /\ accept_renew_offer(p) =>
                /\ In(p, {"RenewOffered"})
                /\ \E s \in States : /\ s.type = "RenewAccepted" /\ s.tx = BufferTx(NextIdx(p), Other(p))
                                     /\ Restated(p, s)
           /\ on_settle_accept(p) =>
                /\ In(p, {"SettledOffered"}) /\ Head(net[p]).idx = NextIdx(p)
                /\ \E s \in States : /\ s.type = "SettledConfirmed" /\ s.tx = SettleTx(NextIdx(p), p)
                                     /\ Restated(p, s)
           /\ on_renew_accept(p) =>
                /\ In(p, {"RenewOffered"}) /\ Head(net[p]).idx = NextIdx(p)
                /\ \E s \in States : /\ s.type = "RenewConfirmed" /\ s.tx = BufferTx(NextIdx(p), p)
                                     /\ Restated(p, s)
<1>1. Other(p) \in Parties
  BY OtherIs
<1>2. ASSUME NEW type \in StateTypes, NEW tx \in Txs, NEW flag \in BOOLEAN
      PROVE  LET s == State(type, tx, flag) IN s \in States /\ s.type = type /\ s.tx = tx
  BY DEF State, States
<1>3. {"SettledAccepted", "RenewAccepted", "SettledConfirmed", "RenewConfirmed"} \subseteq StateTypes
  BY DEF StateTypes, Pending
<1>4. ASSUME NEW k \in Nat, NEW q \in Parties PROVE SettleTx(k, q) \in Txs /\ BufferTx(k, q) \in Txs
  BY <1>4, TxParts DEF IsUpdateTx
<1>5. ASSUME accept_settle_offer(p)
      PROVE  /\ In(p, {"SettledReceived"})
             /\ \E s \in States : /\ s.type = "SettledAccepted" /\ s.tx = SettleTx(NextIdx(p), Other(p))
                                  /\ Restated(p, s)
  <2> DEFINE s == State("SettledAccepted", SettleTx(NextIdx(p), Other(p)), FALSE)
  <2>1. In(p, {"SettledReceived"})
    BY <1>5 DEF accept_settle_offer
  <2>2. NextIdx(p) \in Nat /\ Open(p)
    BY <2>1, InSound DEF In
  <2>3. s \in States /\ s.type = "SettledAccepted" /\ s.tx = SettleTx(NextIdx(p), Other(p))
    BY <1>1, <1>2, <1>3, <1>4, <2>2
  <2>4. Store(p, [channel[p] EXCEPT !.state = s])
    BY <1>5, Zenon DEF accept_settle_offer, settle_channel_accept
  <2> HIDE DEF s
  <2>5. Restated(p, s)
    BY <2>2, <2>4, RestatedBy
  <2> QED
    BY <2>1, <2>3, <2>5
<1>6. ASSUME accept_renew_offer(p)
      PROVE  /\ In(p, {"RenewOffered"})
             /\ \E s \in States : /\ s.type = "RenewAccepted" /\ s.tx = BufferTx(NextIdx(p), Other(p))
                                  /\ Restated(p, s)
  <2> DEFINE s == State("RenewAccepted", BufferTx(NextIdx(p), Other(p)), channel[p].state.flag)
  <2>1. In(p, {"RenewOffered"})
    BY <1>6 DEF accept_renew_offer
  <2>2. NextIdx(p) \in Nat /\ Open(p) /\ channel[p].state.flag \in BOOLEAN
    BY <2>1, InSound DEF In
  <2>3. s \in States /\ s.type = "RenewAccepted" /\ s.tx = BufferTx(NextIdx(p), Other(p))
    BY <1>1, <1>2, <1>3, <1>4, <2>2
  <2>4. Store(p, [channel[p] EXCEPT !.state = s])
    BY <1>6, Zenon DEF accept_renew_offer, accept_channel_renewal
  <2> HIDE DEF s
  <2>5. Restated(p, s)
    BY <2>2, <2>4, RestatedBy
  <2> QED
    BY <2>1, <2>3, <2>5
<1>7. ASSUME on_settle_accept(p)
      PROVE  /\ In(p, {"SettledOffered"}) /\ Head(net[p]).idx = NextIdx(p)
             /\ \E s \in States : /\ s.type = "SettledConfirmed" /\ s.tx = SettleTx(NextIdx(p), p)
                                  /\ Restated(p, s)
  <2> DEFINE s == State("SettledConfirmed", SettleTx(NextIdx(p), p), TRUE)
  <2>1. In(p, {"SettledOffered"}) /\ Head(net[p]).idx = NextIdx(p)
    BY <1>7, ReceiveMeans DEF on_settle_accept
  <2>2. NextIdx(p) \in Nat /\ Open(p)
    BY <2>1, InSound DEF In
  <2>3. s \in States /\ s.type = "SettledConfirmed" /\ s.tx = SettleTx(NextIdx(p), p)
    BY <1>2, <1>3, <1>4, <2>2
  <2>4. Store(p, Reveal([channel[p] EXCEPT !.state = s]))
    BY <1>7, Zenon DEF on_settle_accept, settle_channel_confirm
  <2> HIDE DEF s
  <2>5. Restated(p, s)
    BY <2>2, <2>4, RestatedBy
  <2> QED
    BY <2>1, <2>3, <2>5
<1>8. ASSUME on_renew_accept(p)
      PROVE  /\ In(p, {"RenewOffered"}) /\ Head(net[p]).idx = NextIdx(p)
             /\ \E s \in States : /\ s.type = "RenewConfirmed" /\ s.tx = BufferTx(NextIdx(p), p)
                                  /\ Restated(p, s)
  <2> DEFINE s == State("RenewConfirmed", BufferTx(NextIdx(p), p), TRUE)
  <2>1. In(p, {"RenewOffered"}) /\ Head(net[p]).idx = NextIdx(p)
    BY <1>8, ReceiveMeans DEF on_renew_accept
  <2>2. NextIdx(p) \in Nat /\ Open(p)
    BY <2>1, InSound DEF In
  <2>3. s \in States /\ s.type = "RenewConfirmed" /\ s.tx = BufferTx(NextIdx(p), p)
    BY <1>2, <1>3, <1>4, <2>2
  <2>4. Store(p, [channel[p] EXCEPT !.state = s])
    BY <1>8, Zenon DEF on_renew_accept, verify_renew_accept_and_confirm
  <2> HIDE DEF s
  <2>5. Restated(p, s)
    BY <2>2, <2>4, RestatedBy
  <2> QED
    BY <2>1, <2>3, <2>5
<1> QED
  BY <1>5, <1>6, <1>7, <1>8
\* The channel is stored, with its secret sent or not.
StoredAs(p, c) == Store(p, c) \/ \E revealed : Store(p, [c EXCEPT !.revealed = revealed])

\* An update is complete on this side.
Arrives(p, from, to) ==
    /\ In(p, {from})
    /\ channel'[p].status = "Signed" /\ channel'[p].state.type = to
    /\ channel'[p].state.tx = channel[p].state.tx
    /\ channel'[p].update_idx = channel[p].update_idx + 1
    /\ channel'[p].counter_point = channel[p].update_idx + 1

\* The answer to a confirmed renewal.
Finalizes(p) ==
    /\ In(p, {"RenewAccepted"})
    /\ channel'[p].status = "Signed" /\ channel'[p].state.type = "RenewFinalized"
    /\ channel'[p].state.tx = channel[p].state.tx
    /\ channel'[p].update_idx = channel[p].update_idx

\* What is stored of a channel.
LEMMA StoredParts ==
    ASSUME TypeOK, NEW p \in Parties, NEW c \in Channels, StoredAs(p, c)
    PROVE  /\ channel'[p].status = "Signed" /\ channel'[p].state = c.state
           /\ channel'[p].update_idx = c.update_idx /\ channel'[p].counter_point = c.counter_point
           /\ channel'[p].roll_back = c.roll_back
<1>1. channel'[p] = c \/ \E revealed : channel'[p] = [c EXCEPT !.revealed = revealed]
  BY WatchStep DEF StoredAs
<1>2. ASSUME NEW revealed
      PROVE  LET d == [c EXCEPT !.revealed = revealed] IN
             /\ d.status = "Signed" /\ d.state = c.state
             /\ d.update_idx = c.update_idx /\ d.counter_point = c.counter_point
             /\ d.roll_back = c.roll_back
  BY DEF Channels
<1>3. c.status = "Signed"
  BY ChannelParts
<1> QED
  BY <1>1, <1>2, <1>3

\* The points of a channel that arrives.
LEMMA PointParts ==
    ASSUME NEW c \in Channels
    PROVE  /\ settle_channel_on_finalize(c).counter_point = c.update_idx + 1
           /\ settle_channel_finalize(c).counter_point = c.update_idx + 1
           /\ renew_channel_on_finalize(c).counter_point = c.update_idx + 1
           /\ renew_channel_on_revoke(c).counter_point = c.update_idx + 1
<1>1. ASSUME NEW b \in Channels, NEW s
      PROVE  /\ Advance(b, s).counter_point = b.update_idx + 1
             /\ [Advance(b, s) EXCEPT !.roll_back = None].counter_point = b.update_idx + 1
  BY DEF Advance, Channels
<1>2. Reveal(c) \in Channels /\ Reveal(c).update_idx = c.update_idx
  BY RevealParts
<1>3. settle_channel_on_finalize(c).counter_point = c.update_idx + 1
  BY <1>1, Zenon DEF settle_channel_on_finalize
<1>4. settle_channel_finalize(c).counter_point = Reveal(c).update_idx + 1
  BY <1>1, <1>2, Zenon DEF settle_channel_finalize, settle_channel_on_finalize
<1>5. renew_channel_on_finalize(c).counter_point = Reveal(c).update_idx + 1
  BY <1>1, <1>2, Zenon DEF renew_channel_on_finalize
<1>6. renew_channel_on_revoke(c).counter_point = c.update_idx + 1
  BY <1>1, Zenon DEF renew_channel_on_revoke
<1> QED
  BY <1>2, <1>3, <1>4, <1>5, <1>6

\* The steps that finish an update, and those that end inside such a handler.
LEMMA FinishMoves ==
    ASSUME TypeOK, StoresOK, NEW p \in Parties
    PROVE  /\ Receive(p, "SettleConfirm") /\ StoredAs(p, settle_channel_finalize(channel[p])) =>
                Arrives(p, "SettledAccepted", "Settled")
           /\ Receive(p, "SettleFinalize") /\ StoredAs(p, settle_channel_on_finalize(channel[p])) =>
                Arrives(p, "SettledConfirmed", "Settled")
           /\ Receive(p, "RenewConfirm") /\ StoredAs(p, verify_renew_confirm_and_finalize(channel[p])) =>
                Finalizes(p)
           /\ Receive(p, "RenewFinalize") /\ StoredAs(p, renew_channel_on_finalize(channel[p])) =>
                Arrives(p, "RenewConfirmed", "Established")
           /\ Receive(p, "RenewRevoke") /\ StoredAs(p, renew_channel_on_revoke(channel[p])) =>
                Arrives(p, "RenewFinalized", "Established")
<1> DEFINE c == channel[p]
<1>1. ASSUME NEW types, In(p, types) PROVE Sound(c) /\ c \in Channels /\ c.state.type \in types
  BY <1>1, InSound
<1>2. ASSUME NEW d, Sound(d), StoredAs(p, d)
      PROVE  /\ channel'[p].status = "Signed" /\ channel'[p].state = d.state
             /\ channel'[p].update_idx = d.update_idx /\ channel'[p].counter_point = d.counter_point
  BY <1>2, StoredParts DEF Sound
<1>3. ASSUME Receive(p, "SettleConfirm"), StoredAs(p, settle_channel_finalize(c))
      PROVE  Arrives(p, "SettledAccepted", "Settled")
  <2>1. In(p, {"SettledAccepted"})
    BY <1>3, ReceiveMeans
  <2> QED
    BY <1>1, <1>2, <1>3, <2>1, SettleSound, PointParts DEF Arrives
<1>4. ASSUME Receive(p, "SettleFinalize"), StoredAs(p, settle_channel_on_finalize(c))
      PROVE  Arrives(p, "SettledConfirmed", "Settled")
  <2>1. In(p, {"SettledConfirmed"})
    BY <1>4, ReceiveMeans
  <2> QED
    BY <1>1, <1>2, <1>4, <2>1, SettleSound, PointParts DEF Arrives
<1>5. ASSUME Receive(p, "RenewConfirm"), StoredAs(p, verify_renew_confirm_and_finalize(c))
      PROVE  Finalizes(p)
  <2>1. In(p, {"RenewAccepted"})
    BY <1>5, ReceiveMeans
  <2> QED
    BY <1>1, <1>2, <1>5, <2>1, FinalizeSound DEF Finalizes
<1>6. ASSUME Receive(p, "RenewFinalize"), StoredAs(p, renew_channel_on_finalize(c))
      PROVE  Arrives(p, "RenewConfirmed", "Established")
  <2>1. In(p, {"RenewConfirmed"})
    BY <1>6, ReceiveMeans
  <2> QED
    BY <1>1, <1>2, <1>6, <2>1, RenewSound, PointParts DEF Arrives
<1>7. ASSUME Receive(p, "RenewRevoke"), StoredAs(p, renew_channel_on_revoke(c))
      PROVE  Arrives(p, "RenewFinalized", "Established")
  <2>1. In(p, {"RenewFinalized"})
    BY <1>7, ReceiveMeans
  <2> QED
    BY <1>1, <1>2, <1>7, <2>1, RenewSound, PointParts DEF Arrives
<1> QED
  BY <1>3, <1>4, <1>5, <1>6, <1>7

\* What a node that ends inside a handler has stored, message by message.
LEMMA CrashMoves ==
    ASSUME TypeOK, StoresOK, NEW p \in Parties, CrashAfterStore(p)
    PROVE  \/ /\ channel[p].status \in Setup
              /\ \E flag \in BOOLEAN : StoredAs(p, SignedChannel(flag))
           \/ Receive(p, "SettleConfirm") /\ Arrives(p, "SettledAccepted", "Settled")
           \/ Receive(p, "SettleFinalize") /\ Arrives(p, "SettledConfirmed", "Settled")
           \/ Receive(p, "RenewConfirm") /\ Finalizes(p)
           \/ Receive(p, "RenewFinalize") /\ Arrives(p, "RenewConfirmed", "Established")
<1>1. StoredAs(p, StoredFirst(p))
  BY DEF CrashAfterStore, StoredAs
<1>2. \E type \in {"AcceptChannel", "SignChannel", "SettleConfirm", "SettleFinalize",
                   "RenewConfirm", "RenewFinalize"} : Receive(p, type)
  BY DEF CrashAfterStore, Superseding
<1>3. CASE Receive(p, "AcceptChannel") \/ Receive(p, "SignChannel")
  <2>1. channel[p].status \in Setup
    BY <1>3, ReceiveMeans DEF Setup
  <2>2. StoredFirst(p) = SignedChannel(TRUE) \/ StoredFirst(p) = SignedChannel(FALSE)
    BY <1>3, StoredFirstIs DEF verify_and_sign_accepted_channel, verify_signed_channel
  <2> QED
    BY <1>1, <2>1, <2>2
<1>4. CASE Receive(p, "SettleConfirm")
  BY <1>1, <1>4, StoredFirstIs, FinishMoves
<1>5. CASE Receive(p, "SettleFinalize")
  BY <1>1, <1>5, StoredFirstIs, FinishMoves
<1>6. CASE Receive(p, "RenewConfirm")
  BY <1>1, <1>6, StoredFirstIs, FinishMoves
<1>7. CASE Receive(p, "RenewFinalize")
  BY <1>1, <1>7, StoredFirstIs, FinishMoves
<1> QED
  BY <1>2, <1>3, <1>4, <1>5, <1>6, <1>7
\* Proposals, made, received and undone, and the answers that sign an update.
LEMMA ProposalSteps ==
    ASSUME TypeOK, StoresOK, NEW p \in Parties,
           \/ settle_offer(p) \/ renew_offer(p) \/ on_settle_offer(p) \/ on_renew_offer(p)
           \/ reject_settle_offer(p) \/ reject_renew_offer(p) \/ (Open(p) /\ on_reject(p))
           \/ accept_settle_offer(p) \/ accept_renew_offer(p) \/ on_settle_accept(p) \/ on_renew_accept(p)
    PROVE  StepOf(p)
<1> DEFINE c == channel[p]
           Working == Stable \cup Proposed \cup {"SettledAccepted", "SettledConfirmed", "RenewAccepted", "RenewConfirmed"}
<1>1. Frame(p)
  BY FrameStep DEF settle_offer, renew_offer, on_settle_offer, on_renew_offer, reject_settle_offer,
     reject_renew_offer, on_reject, accept_settle_offer, accept_renew_offer, on_settle_accept, on_renew_accept
<1>2. spend' = spend /\ saved'[p] = saved[p]
  BY WatchStep DEF settle_offer, renew_offer, on_settle_offer, on_renew_offer, reject_settle_offer,
     reject_renew_offer, on_reject, accept_settle_offer, accept_renew_offer, on_settle_accept, on_renew_accept
<1>3. \/ In(p, Proposed) /\ UNCHANGED channel
      \/ In(p, Stable \cup Proposed) /\ \E s : s.type \in Working /\ Restated(p, s)
  <2>1. ASSUME NEW types, In(p, types), types \subseteq Stable \cup Proposed
        PROVE  In(p, Stable \cup Proposed)
    BY <2>1 DEF In
  <2>2. {"SettledReceived"} \subseteq Proposed /\ {"RenewOffered"} \subseteq Proposed /\ {"SettledOffered"} \subseteq Proposed
    BY DEF Proposed
  <2>3. CASE settle_offer(p) \/ renew_offer(p) \/ on_settle_offer(p) \/ on_renew_offer(p)
    BY <2>1, <2>3, ProposalMoves
  <2>4. CASE reject_settle_offer(p) \/ reject_renew_offer(p) \/ (Open(p) /\ on_reject(p))
    BY <2>1, <2>4, RejectMoves
  <2>5. CASE accept_settle_offer(p) \/ accept_renew_offer(p) \/ on_settle_accept(p) \/ on_renew_accept(p)
    BY <2>1, <2>2, <2>5, SigningMoves
  <2> QED
    BY <2>3, <2>4, <2>5
<1>4. In(p, Stable \cup Proposed)
  BY <1>3 DEF In
<1>5. /\ c.status = "Signed" /\ c.state.type \in Stable \cup Proposed /\ c.update_idx \in Nat
      /\ NextIdx(p) \in Nat /\ NextIdx(p) = c.update_idx + 1
  BY <1>4, InSound DEF In, Open
<1>6. /\ channel'[p].status = "Signed" /\ channel'[p].update_idx = c.update_idx
      /\ channel'[p].state.type \in Working
  <2>1. CASE UNCHANGED channel
    BY <1>5, <2>1
  <2>2. CASE \E s : s.type \in Working /\ Restated(p, s)
    BY <2>2 DEF Restated
  <2> QED
    BY <1>3, <2>1, <2>2
<1>7. \A t \in Working : t \notin Ending /\ t # "RenewFinalized"
  BY DEF Stable, Proposed, Ending
<1>8. \/ watch'[p] = watch[p]
      \/ \E tx \in Txs : /\ IsUpdateTx(tx, c.update_idx + 1)
                         /\ watch'[p] = add_tx(watch[p], tx, "SettleTx", 0, FALSE)
  <2>1. CASE \/ settle_offer(p) \/ renew_offer(p) \/ on_settle_offer(p) \/ on_renew_offer(p)
             \/ reject_settle_offer(p) \/ reject_renew_offer(p) \/ (Open(p) /\ on_reject(p))
             \/ accept_renew_offer(p) \/ on_renew_accept(p)
    BY <2>1, WatchStep DEF settle_offer, renew_offer, on_settle_offer, on_renew_offer, reject_settle_offer,
       reject_renew_offer, on_reject, accept_renew_offer, on_renew_accept
  <2>2. ASSUME NEW q \in Parties, WatchFrom(p, add_tx(watch[p], SettleTx(NextIdx(p), q), "SettleTx", 0, FALSE))
        PROVE  \E tx \in Txs : /\ IsUpdateTx(tx, c.update_idx + 1)
                               /\ watch'[p] = add_tx(watch[p], tx, "SettleTx", 0, FALSE)
    <3>1. IsUpdateTx(SettleTx(NextIdx(p), q), c.update_idx + 1) /\ SettleTx(NextIdx(p), q) \in Txs
      BY <1>5, TxParts DEF IsUpdateTx
    <3>2. watch'[p] = add_tx(watch[p], SettleTx(NextIdx(p), q), "SettleTx", 0, FALSE)
      BY <2>2, WatchStep
    <3> QED
      BY <3>1, <3>2
  <2>3. CASE accept_settle_offer(p)
    BY <2>2, <2>3, OtherIs DEF accept_settle_offer
  <2>4. CASE on_settle_accept(p)
    BY <2>2, <2>4 DEF on_settle_accept
  <2> QED
    BY <2>1, <2>3, <2>4
<1>9. Reach(channel'[p]) = Reach(c) /\ c.state.type \notin Ending /\ c.state.type # "RenewFinalized"
  BY <1>5, <1>6, <1>7 DEF Reach
<1> HIDE DEF Working
<1> QED
  BY <1>1, <1>2, <1>5, <1>6, <1>7, <1>8, <1>9 DEF StepOf, Works, Open

\* The steps that finish an update.
LEMMA FinishSteps ==
    ASSUME TypeOK, StoresOK, NEW p \in Parties,
           \/ on_settle_confirm(p) \/ on_settle_finalize(p) \/ on_renew_confirm(p)
           \/ on_renew_finalize(p) \/ on_renew_revoke(p) \/ (Open(p) /\ CrashAfterStore(p))
    PROVE  StepOf(p)
<1> DEFINE c == channel[p]
<1>1. Frame(p)
  BY FrameStep DEF on_settle_confirm, on_settle_finalize, on_renew_confirm, on_renew_finalize,
     on_renew_revoke, CrashAfterStore, Reload, WatchFrom
<1>2. spend' = spend
  BY DEF on_settle_confirm, on_settle_finalize, on_renew_confirm, on_renew_finalize,
     on_renew_revoke, CrashAfterStore
<1>3. \/ on_settle_confirm(p) /\ Arrives(p, "SettledAccepted", "Settled")
      \/ on_settle_finalize(p) /\ Arrives(p, "SettledConfirmed", "Settled")
      \/ on_renew_confirm(p) /\ Finalizes(p)
      \/ on_renew_finalize(p) /\ Arrives(p, "RenewConfirmed", "Established")
      \/ on_renew_revoke(p) /\ Arrives(p, "RenewFinalized", "Established")
      \/ CrashAfterStore(p) /\ (\/ Arrives(p, "SettledAccepted", "Settled")
                                \/ Arrives(p, "SettledConfirmed", "Settled")
                                \/ Finalizes(p) \/ Arrives(p, "RenewConfirmed", "Established"))
  <2>1. CASE Open(p) /\ CrashAfterStore(p)
    <3>1. channel[p].status \notin Setup
      BY <2>1 DEF Open, Setup
    <3> QED
      BY <2>1, <3>1, CrashMoves
  <2> QED
    BY <2>1, FinishMoves DEF on_settle_confirm, on_settle_finalize, on_renew_confirm,
       on_renew_finalize, on_renew_revoke, StoredAs
<1>4. In(p, {"SettledAccepted", "SettledConfirmed", "RenewAccepted", "RenewConfirmed", "RenewFinalized"})
  BY <1>3 DEF Arrives, Finalizes, In
<1>5. /\ Sound(c) /\ c.status = "Signed" /\ c.update_idx \in Nat /\ c \in Channels
      /\ c.state.type \in {"SettledAccepted", "SettledConfirmed", "RenewAccepted", "RenewConfirmed", "RenewFinalized"}
  BY <1>4, InSound DEF In, Open
<1>6. /\ channel'[p].status = "Signed" /\ channel'[p].state.type \notin Ending
      /\ c.state.type \notin Ending
      /\ on_renew_revoke(p) => Reach(channel'[p]) = Reach(c)
      /\ ~on_renew_revoke(p) => Reach(channel'[p]) = Reach(c) + 1 /\ Reach(c) = c.update_idx
  <2>1. CASE on_settle_confirm(p) \/ on_settle_finalize(p) \/ on_renew_finalize(p) \/ on_renew_confirm(p)
             \/ CrashAfterStore(p)
    <3>1. ~on_renew_revoke(p)
      BY <2>1, ReceiveMeans DEF on_settle_confirm, on_settle_finalize, on_renew_finalize, on_renew_confirm,
         on_renew_revoke, CrashAfterStore, Superseding, Receive
    <3>2. \/ Arrives(p, "SettledAccepted", "Settled") \/ Arrives(p, "SettledConfirmed", "Settled")
          \/ Finalizes(p) \/ Arrives(p, "RenewConfirmed", "Established")
      BY <1>3, <3>1
    <3> QED
      BY <1>5, <3>1, <3>2 DEF Arrives, Finalizes, In, Ending, Reach
  <2>2. CASE on_renew_revoke(p)
    <3>1. c.state.type = "RenewFinalized"
      BY <2>2, ReceiveMeans DEF on_renew_revoke, In
    <3>2. Arrives(p, "RenewFinalized", "Established")
      BY <1>3, <3>1 DEF Arrives, Finalizes, In
    <3> QED
      BY <1>5, <2>2, <3>1, <3>2 DEF Arrives, Ending, Reach
  <2> QED
    BY <1>3, <2>1, <2>2
<1>7. c.state.type # "RenewFinalized" =>
         /\ IsUpdateTx(c.roll_back.tx, c.update_idx) /\ c.roll_back.tx \in Txs
         /\ c.roll_back \in States /\ c.roll_back.flag \in BOOLEAN
         /\ IsUpdateTx(c.state.tx, c.update_idx + 1) /\ c.state.tx \in Txs
  <2>1. c.roll_back \in States => c.roll_back.flag \in BOOLEAN
    BY DEF States
  <2> QED
    BY <1>5, <2>1, TypesDiffer, ChannelParts DEF Sound, Fits, IsUpdateTx
<1>8. CASE on_renew_revoke(p)
  <2>1. watch'[p] = watch[p] /\ saved'[p] = saved[p]
    BY <1>8, WatchStep DEF on_renew_revoke
  <2> QED
    BY <1>1, <1>2, <1>5, <1>6, <1>8, <2>1 DEF StepOf, Works, Open
<1>9. CASE CrashAfterStore(p)
  <2>1. env.crashes /\ watch'[p] = saved[p] /\ saved'[p] = saved[p]
    BY <1>9, WatchStep DEF CrashAfterStore
  <2> QED
    BY <1>1, <1>2, <1>5, <1>6, <2>1 DEF StepOf, Works, Open
<1>10. ASSUME ~on_renew_revoke(p), NEW w \in SUBSET Watches, NEW tx \in Txs, NEW flag \in BOOLEAN,
              \/ w = watch[p]
              \/ \E next \in Txs : /\ IsUpdateTx(next, Reach(c) + 1)
                                   /\ w = add_tx(watch[p], next, "BufferTx", 0, FALSE),
              IsUpdateTx(tx, Reach(c)), watch'[p] = AddRevoked(w, tx, Reach(c), flag),
              saved'[p] = watch'[p]
       PROVE  StepOf(p)
  BY <1>1, <1>2, <1>5, <1>6, <1>10 DEF StepOf, Works, Open
<1>11. CASE on_settle_confirm(p) \/ on_settle_finalize(p)
  <2>1. c.state.type # "RenewFinalized" /\ ~on_renew_revoke(p)
    BY <1>11, ReceiveMeans DEF on_settle_confirm, on_settle_finalize, on_renew_revoke, In, Receive
  <2>2. watch'[p] = AddRevoked(watch[p], c.roll_back.tx, c.update_idx, c.roll_back.flag)
        /\ saved'[p] = watch'[p]
    BY <1>11, WatchStep DEF on_settle_confirm, on_settle_finalize, RevokeEstablished
  <2>3. watch[p] \in SUBSET Watches
    BY DEF TypeOK
  <2> QED
    BY <1>6, <1>7, <1>10, <2>1, <2>2, <2>3
<1>12. CASE on_renew_confirm(p) \/ on_renew_finalize(p)
  <2> DEFINE w == add_tx(watch[p], c.state.tx, "BufferTx", 0, FALSE)
  <2>1. c.state.type # "RenewFinalized" /\ ~on_renew_revoke(p)
    BY <1>12, ReceiveMeans DEF on_renew_confirm, on_renew_finalize, on_renew_revoke, In, Receive
  <2>2. watch'[p] = AddRevoked(w, c.roll_back.tx, c.update_idx, FALSE) /\ saved'[p] = watch'[p]
    BY <1>12, WatchStep DEF on_renew_confirm, on_renew_finalize, Supersede
  <2>3. w \in SUBSET Watches
    <3>1. watch[p] \in SUBSET Watches
      BY DEF TypeOK
    <3>2. /\ [tx |-> c.state.tx, type |-> "BufferTx", idx |-> 0, is_offer |-> FALSE] \in Watches
          /\ [tx |-> c.state.tx, type |-> "Cet", idx |-> 0, is_offer |-> FALSE] \in Watches
      BY <1>7, <2>1 DEF Watches
    <3> QED
      BY <3>1, <3>2 DEF add_tx
  <2> HIDE DEF w
  <2>4. FALSE \in BOOLEAN
    OBVIOUS
  <2>5. \E next \in Txs : /\ IsUpdateTx(next, Reach(c) + 1)
                          /\ w = add_tx(watch[p], next, "BufferTx", 0, FALSE)
    BY <1>6, <1>7, <2>1 DEF w
  <2> QED
    BY <1>6, <1>7, <1>10, <2>1, <2>2, <2>3, <2>4, <2>5
<1> QED
  BY <1>8, <1>9, <1>11, <1>12
\* A settlement that fails after the watch has changed.
LEMMA FailSteps ==
    ASSUME TypeOK, StoresOK, NEW p \in Parties, fail_settlement(p)
    PROVE  StepOf(p)
<1> DEFINE c == channel[p]
<1>1. Frame(p)
  BY FrameStep DEF fail_settlement
<1>2. In(p, {"SettledAccepted", "SettledConfirmed"})
  BY DEF fail_settlement, UnconfirmedSettlement, Awaits, In
<1>3. /\ Sound(c) /\ c.status = "Signed" /\ c \in Channels
      /\ c.state.type \in {"SettledAccepted", "SettledConfirmed"}
  BY <1>2, InSound DEF In, Open
<1>4. c.state.type \notin Ending /\ Reach(c) = c.update_idx
  BY <1>3 DEF Ending, Reach
<1>5. /\ IsUpdateTx(c.roll_back.tx, c.update_idx) /\ c.roll_back.tx \in Txs
      /\ c.roll_back \in States /\ c.roll_back.flag \in BOOLEAN
  <2>1. c.roll_back \in States => c.roll_back.flag \in BOOLEAN
    BY DEF States
  <2> QED
    BY <1>3, <2>1, TypesDiffer, ChannelParts DEF Sound, Fits, IsUpdateTx
<1>6. /\ watch'[p] = AddRevoked(watch[p], c.roll_back.tx, c.update_idx, c.roll_back.flag)
      /\ saved'[p] = saved[p] /\ spend' = spend /\ channel'[p] = c
  BY WatchStep DEF fail_settlement, RevokeEstablished
<1> HIDE DEF c
<1> QED
  BY <1>1, <1>3, <1>4, <1>5, <1>6 DEF StepOf, Works, Open, c

\* The setup, ended inside a handler; an offer of the setup rejected.
LEMMA SetupEnds ==
    ASSUME TypeOK, StoresOK, NEW p \in Parties, ~Open(p), on_reject(p) \/ CrashAfterStore(p)
    PROVE  StepOf(p)
<1>1. Frame(p)
  BY FrameStep DEF on_reject, CrashAfterStore, Reload, WatchFrom
<1>2. CASE on_reject(p)
  <2>1. channel[p].status = "Offered" /\ Become(p, "Cancelled") /\ UNCHANGED <<watch, saved, spend>>
    BY <1>2 DEF on_reject
  <2>2. channel'[p].status = "Cancelled" /\ watch'[p] = watch[p] /\ saved'[p] = saved[p] /\ spend' = spend
    BY <2>1, WatchStep
  <2> QED
    BY <1>1, <2>1, <2>2 DEF StepOf, SetsUp, Setup
<1>3. CASE CrashAfterStore(p)
  <2>1. watch'[p] = saved[p] /\ saved'[p] = saved[p] /\ spend' = spend
    BY <1>3, WatchStep DEF CrashAfterStore
  <2>2. PICK flag \in BOOLEAN : StoredAs(p, SignedChannel(flag))
    BY <1>3, CrashMoves DEF Arrives, Finalizes, In
  <2>3. channel[p].status \in Setup
    BY <1>3, CrashMoves DEF Arrives, Finalizes, In
  <2>4. SignedChannel(flag) \in Channels
    BY SetupSound DEF Sound
  <2>5. SignedChannel(flag).state.type = "Established" /\ SignedChannel(flag).update_idx = 0
    BY DEF SignedChannel, State
  <2>6. /\ channel'[p].status = "Signed" /\ channel'[p].state.type = "Established"
        /\ channel'[p].update_idx = 0
    BY <2>2, <2>4, <2>5, StoredParts
  <2> QED
    BY <1>1, <2>1, <2>3, <2>6 DEF StepOf, SetsUp
<1> QED
  BY <1>2, <1>3

\* A forced close.
LEMMA ForceSteps ==
    ASSUME TypeOK, StoresOK, NEW p \in Parties, force_close_channel(p) \/ check_for_timed_out_channels(p)
    PROVE  StepOf(p) /\ Closes(p)
<1> DEFINE c == ToClose(p)
           tx == c.state.tx
<1>1. Open(p) /\ force_close_channel_internal(p)
  BY DEF force_close_channel, check_for_timed_out_channels, In
<1>2. c.state.type \in Closable => tx \in Txs
  BY <1>1, ToCloseParts
<1>3. \/ /\ Become(p, "NoRollback") /\ UNCHANGED <<watch, saved, spend>>
      \/ /\ c.state.type \in {"Established", "RenewFinalized"} /\ send_transaction(p, tx)
         /\ Store(p, initiate_unilateral_close(c))
         /\ WatchFrom(p, remove_tx(watch[p], tx)) /\ Persist(p)
      \/ /\ c.state.type = "Settled" /\ send_transaction(p, tx)
         /\ Become(p, "Closed") /\ cleanup_channel(p) /\ UNCHANGED saved
  BY <1>1, Zenon DEF force_close_channel_internal
<1> HIDE DEF c, tx
<1>4. Frame(p)
  BY <1>3, FrameStep DEF cleanup_channel
<1>5. CASE Become(p, "NoRollback") /\ UNCHANGED <<watch, saved, spend>>
  <2>1. channel'[p].status = "NoRollback" /\ watch'[p] = watch[p] /\ saved'[p] = saved[p]
    BY <1>5, WatchStep
  <2> QED
    BY <1>1, <1>4, <1>5, <2>1 DEF StepOf, Closes, Ends, Spends, Gone
<1>6. CASE /\ c.state.type \in {"Established", "RenewFinalized"} /\ send_transaction(p, tx)
           /\ Store(p, initiate_unilateral_close(c))
           /\ WatchFrom(p, remove_tx(watch[p], tx)) /\ Persist(p)
  <2> DEFINE d == initiate_unilateral_close(c)
  <2>1. Sound(d) /\ d.state.type = "Closing" /\ d.state.flag = TRUE
    BY <1>1, <1>6, InitiateSound DEF c
  <2>2. channel'[p] = d /\ watch'[p] = remove_tx(watch[p], tx) /\ saved'[p] = watch'[p]
    BY <1>6, WatchStep
  <2>3. Spends(p) /\ spend' # None /\ spend'.tx = tx
    BY <1>2, <1>6, SendStep DEF Closable
  <2> HIDE DEF d
  <2>4. d.status = "Signed"
    BY <2>1, ChannelParts DEF Sound
  <2> QED
    BY <1>1, <1>4, <2>1, <2>2, <2>3, <2>4 DEF StepOf, Closes, Forces, Open
<1>7. CASE /\ c.state.type = "Settled" /\ send_transaction(p, tx)
           /\ Become(p, "Closed") /\ cleanup_channel(p) /\ UNCHANGED saved
  <2>1. channel'[p].status = "Closed" /\ watch'[p] = {} /\ saved'[p] = saved[p]
    BY <1>7, WatchStep DEF cleanup_channel
  <2>2. Spends(p)
    BY <1>2, <1>7, SendStep DEF Closable
  <2> QED
    BY <1>1, <1>4, <2>1, <2>2 DEF StepOf, Closes, Ends, Gone
<1> QED
  BY <1>3, <1>5, <1>6, <1>7

\* Closing together.
LEMMA CloseSteps ==
    ASSUME TypeOK, StoresOK, NEW p \in Parties,
           offer_collaborative_close(p) \/ on_collaborative_close_offer(p) \/ accept_collaborative_close(p)
    PROVE  StepOf(p) /\ Closes(p)
<1>1. Frame(p)
  BY FrameStep DEF offer_collaborative_close, on_collaborative_close_offer, accept_collaborative_close
<1>2. ASSUME NEW s, s.type = "CollaborativeCloseOffered", Open(p), Store(p, Propose(channel[p], s))
      PROVE  Open(p)' /\ channel'[p].state.type = "CollaborativeCloseOffered"
  BY <1>2, RestatedBy DEF Restated, Open
<1>3. ASSUME NEW tx, NEW flag
      PROVE  State("CollaborativeCloseOffered", tx, flag).type = "CollaborativeCloseOffered"
  BY DEF State
<1>4. CASE offer_collaborative_close(p)
  <2>1. Open(p) /\ Open(p)' /\ channel'[p].state.type = "CollaborativeCloseOffered"
    BY <1>2, <1>3, <1>4 DEF offer_collaborative_close, updater_offer_collaborative_close, In
  <2>2. /\ watch'[p] = add_tx(watch[p], CloseTx(p), "CollaborativeClose", 0, FALSE)
        /\ saved'[p] = watch'[p] /\ spend' = spend
    BY <1>4, WatchStep DEF offer_collaborative_close
  <2> QED
    BY <1>1, <2>1, <2>2 DEF StepOf, Closes, OffersClose
<1>5. CASE on_collaborative_close_offer(p)
  <2>1. Open(p)
    BY <1>5, ReceiveMeans DEF on_collaborative_close_offer
  <2>2. Open(p)' /\ channel'[p].state.type = "CollaborativeCloseOffered"
    BY <1>2, <1>3, <1>5, <2>1 DEF on_collaborative_close_offer, updater_on_collaborative_close_offer
  <2>3. watch'[p] = watch[p] /\ saved'[p] = saved[p] /\ spend' = spend
    BY <1>5, WatchStep DEF on_collaborative_close_offer
  <2> QED
    BY <1>1, <2>1, <2>2, <2>3 DEF StepOf, Closes, OffersClose
<1>6. CASE accept_collaborative_close(p)
  <2>1. /\ In(p, {"CollaborativeCloseOffered"}) /\ spend = None
        /\ spend' = [tx |-> channel[p].state.tx, by |-> p]
    BY <1>6 DEF accept_collaborative_close, AcceptsClose
  <2>2. channel[p].state.tx \in Txs /\ channel[p].state.tx.type = "close" /\ Open(p)
    BY <2>1, InSound DEF Sound, Fits, In
  <2>3. Spends(p) /\ spend' # None /\ spend'.tx.type = "close"
    BY <2>1, <2>2, NoneAssumption DEF Spends
  <2>4. channel'[p].status = "CollaborativelyClosed" /\ watch'[p] = watch[p] /\ saved'[p] = saved[p]
    BY <1>6, WatchStep DEF accept_collaborative_close
  <2> QED
    BY <1>1, <2>2, <2>3, <2>4 DEF StepOf, Closes, Ends, Gone
<1> QED
  BY <1>4, <1>5, <1>6

\* A call that ends between storing the channel and the monitor.
LEMMA CallSteps ==
    ASSUME TypeOK, StoresOK, NEW p \in Parties, CrashInCall(p)
    PROVE  StepOf(p) /\ Closes(p)
<1>1. Frame(p)
  BY FrameStep DEF CrashInCall, Reload, WatchFrom
<1>2. env.crashes /\ watch'[p] = saved[p] /\ saved'[p] = saved[p]
  BY WatchStep DEF CrashInCall
<1>3. CASE /\ In(p, env.closeFrom) /\ Store(p, updater_offer_collaborative_close(channel[p], p))
           /\ spend' = spend
  <2> DEFINE s == State("CollaborativeCloseOffered", CloseTx(p), TRUE)
  <2>1. s.type = "CollaborativeCloseOffered"
    BY DEF State
  <2>2. Open(p) /\ Store(p, Propose(channel[p], s))
    BY <1>3 DEF updater_offer_collaborative_close, In
  <2> HIDE DEF s
  <2>3. Open(p)' /\ channel'[p].state.type = "CollaborativeCloseOffered"
    BY <2>1, <2>2, RestatedBy DEF Restated, Open
  <2> QED
    BY <1>1, <1>2, <1>3, <2>2, <2>3 DEF StepOf, Closes, OffersClose
<1>4. CASE /\ Open(p) /\ ToClose(p).state.type \in {"Established", "RenewFinalized"}
           /\ send_transaction(p, ToClose(p).state.tx)
           /\ Store(p, initiate_unilateral_close(ToClose(p)))
  <2> DEFINE d == initiate_unilateral_close(ToClose(p))
  <2>1. Sound(d) /\ d.state.type = "Closing" /\ d.state.flag = TRUE
    BY <1>4, InitiateSound
  <2>2. channel'[p] = d
    BY <1>4, WatchStep
  <2>3. ToClose(p).state.tx \in Txs
    BY <1>4, ToCloseParts DEF Closable
  <2>4. Spends(p) /\ spend' # None
    BY <1>4, <2>3, SendStep
  <2> HIDE DEF d
  <2>5. d.status = "Signed"
    BY <2>1, ChannelParts DEF Sound
  <2> QED
    BY <1>1, <1>2, <1>4, <2>1, <2>2, <2>4, <2>5 DEF StepOf, Closes, Forces, Open
<1> QED
  BY <1>3, <1>4 DEF CrashInCall, ClosesAlone

\* What a node does about a transaction it finds on the chain.
LEMMA ChainSteps ==
    ASSUME TypeOK, StoresOK, NEW p \in Parties,
           try_finalize_closing_established_channel(p) \/ process_watched_txs(p)
    PROVE  StepOf(p) /\ Closes(p)
<1>1. Open(p) /\ spend # None /\ spend' = spend
  BY DEF try_finalize_closing_established_channel, process_watched_txs, SeeBufferTx, SeeRevoked,
     SeeCollaborativeClose, SeeSettleTx, SeeCet, Confirmed, In
<1>2. ASSUME NEW type, Confirmed(p, type) # {} PROVE Finds(p, type)
  BY <1>2 DEF Confirmed, Finds
<1>3. CASE SeeBufferTx(p)
  <2> DEFINE s == [type |-> "Closing", tx |-> spend.tx, flag |-> FALSE, contract |-> get_contract_id(channel[p])]
  <2>1. s.type = "Closing" /\ s.flag = FALSE
    OBVIOUS
  <2>2. Become(p, "NoContractId") \/ Store(p, Propose(channel[p], s))
    BY <1>3, Zenon DEF SeeBufferTx
  <2>3. watch'[p] = watch[p] /\ saved'[p] = saved[p]
    BY <1>3, WatchStep DEF SeeBufferTx
  <2>4. Finds(p, "BufferTx")
    BY <1>2, <1>3 DEF SeeBufferTx
  <2> HIDE DEF s
  <2>5. Frame(p)
    BY <1>3, <2>2, FrameStep DEF SeeBufferTx
  <2>6. CASE Become(p, "NoContractId")
    <3>1. channel'[p].status = "NoContractId"
      BY <2>6, WatchStep
    <3> QED
      BY <1>1, <2>3, <2>5, <3>1 DEF StepOf, Closes, Ends, Gone, Spends
  <2>7. CASE Store(p, Propose(channel[p], s))
    <3>1. Restated(p, s)
      BY <1>1, <2>7, RestatedBy
    <3>2. Open(p)' /\ channel'[p].state.type = "Closing" /\ channel'[p].state.flag = FALSE
      BY <2>1, <3>1 DEF Restated, Open
    <3> QED
      BY <1>1, <2>3, <2>4, <2>5, <3>2 DEF StepOf, Closes, SeesBuffer, Finds
  <2> QED
    BY <2>2, <2>6, <2>7
<1>4. ASSUME ~SeeBufferTx(p)
      PROVE  /\ Frame(p) /\ watch'[p] \in {watch[p], {}} /\ saved'[p] \in {saved[p], watch'[p]}
  <2>1. CASE try_finalize_closing_established_channel(p)
    BY <2>1, FrameStep, WatchStep DEF try_finalize_closing_established_channel, cleanup_channel
  <2>2. CASE SeeRevoked(p)
    BY <2>2, FrameStep, WatchStep DEF SeeRevoked, cleanup_channel
  <2>3. CASE SeeCollaborativeClose(p) \/ SeeSettleTx(p) \/ SeeCet(p)
    BY <2>3, FrameStep, WatchStep DEF SeeCollaborativeClose, SeeSettleTx, SeeCet, cleanup_channel
  <2> QED
    BY <1>4, <2>1, <2>2, <2>3 DEF process_watched_txs
<1>5. channel[p].state.type = "Closing" => channel[p].state.flag \in BOOLEAN
  <2>1. channel[p] \in Channels
    BY <1>1 DEF StoresOK, ChannelInv, Sound
  <2> QED
    BY <2>1, ChannelParts
<1>6. ASSUME ~SeeBufferTx(p)
      PROVE  /\ channel'[p].status \in Gone
             /\ channel'[p].status = "CollaborativelyClosed" => Finds(p, "CollaborativeClose")
             /\ channel'[p].status = "ClosedPunished" => spend.by # p
             /\ channel'[p].status = "CounterClosed" =>
                  Finds(p, "SettleTx") \/ (channel[p].state.type = "Closing" /\ channel[p].state.flag = FALSE)
  <2>1. CASE try_finalize_closing_established_channel(p)
    <3>1. /\ channel[p].state.type = "Closing"
          /\ channel'[p].status = IF channel[p].state.flag THEN "Closed" ELSE "CounterClosed"
      BY <2>1, WatchStep DEF try_finalize_closing_established_channel, In
    <3> QED
      BY <1>5, <3>1 DEF Gone
  <2>2. CASE SeeRevoked(p)
    <3>1. channel'[p].status = "NoSecret" \/ (channel'[p].status = "ClosedPunished" /\ spend.by # p)
      BY <2>2, WatchStep DEF SeeRevoked
    <3> QED
      BY <3>1 DEF Gone
  <2>3. CASE SeeCollaborativeClose(p)
    <3>1. channel'[p].status = "CollaborativelyClosed" /\ Finds(p, "CollaborativeClose")
      BY <1>2, <2>3, WatchStep DEF SeeCollaborativeClose
    <3> QED
      BY <3>1 DEF Gone
  <2>4. CASE SeeSettleTx(p)
    <3>1. channel'[p].status = "CounterClosed" /\ Finds(p, "SettleTx")
      BY <1>2, <2>4, WatchStep DEF SeeSettleTx
    <3> QED
      BY <3>1 DEF Gone
  <2>5. CASE SeeCet(p)
    <3>1. channel'[p].status = IF In(p, {"Closing"}) /\ ~channel[p].state.flag THEN "CounterClosed" ELSE "Closed"
      BY <2>5, WatchStep DEF SeeCet
    <3> QED
      BY <1>5, <3>1 DEF Gone, In
  <2> QED
    BY <1>6, <2>1, <2>2, <2>3, <2>4, <2>5 DEF process_watched_txs
<1> QED
  BY <1>1, <1>3, <1>4, <1>6 DEF StepOf, Closes, Ends, Spends

\* Every step is one of these.
LEMMA EveryStep ==
    ASSUME TypeOK, StoresOK, Next
    PROVE  \E p \in Parties : StepOf(p)
<1>1. PICK p \in Parties :
        \/ Calls(p) \/ Answers(p) \/ on_dlc_message(p) \/ channel_checks(p)
        \/ Restart(p) \/ CrashAfterSend(p) \/ CrashAfterStore(p) \/ Lose(p)
        \/ CrashInCall(p) \/ check_signed_contracts(p)
  BY Zenon DEF Next
<1>2. StepOf(p)
  <2>1. CASE Calls(p)
    BY <2>1, SetupSteps, ProposalSteps, CloseSteps, ForceSteps DEF Calls
  <2>2. CASE Answers(p)
    BY <2>2, SetupSteps, ProposalSteps, CloseSteps DEF Answers
  <2>3. CASE on_dlc_message(p)
    BY <2>3, SetupSteps, ProposalSteps, FinishSteps, FailSteps, CloseSteps, SetupEnds, RestingSteps
       DEF on_dlc_message
  <2>4. CASE channel_checks(p)
    BY <2>4, ChainSteps, ForceSteps, RestingSteps DEF channel_checks
  <2>5. CASE Restart(p) \/ CrashAfterSend(p) \/ Lose(p) \/ check_signed_contracts(p)
    BY <2>5, RestingSteps
  <2>6. CASE CrashAfterStore(p)
    BY <2>6, FinishSteps, SetupEnds
  <2>7. CASE CrashInCall(p)
    BY <2>7, CallSteps
  <2> QED
    BY <1>1, <2>1, <2>2, <2>3, <2>4, <2>5, <2>6, <2>7
<1> QED
  BY <1>2
----------------------------------------------------------------------------
(* Types, and the way out of the channel.                                  *)

\* Watching a transaction.
LEMMA AddType ==
    ASSUME NEW w \in SUBSET Watches, NEW tx \in Txs,
           NEW type \in {"BufferTx", "SettleTx", "CollaborativeClose", "Cet", "Revoked"},
           NEW idx \in Nat, NEW is_offer \in BOOLEAN
    PROVE  add_tx(w, tx, type, idx, is_offer) \in SUBSET Watches
<1>1. /\ [tx |-> tx, type |-> type, idx |-> idx, is_offer |-> is_offer] \in Watches
      /\ [tx |-> tx, type |-> "Cet", idx |-> 0, is_offer |-> FALSE] \in Watches
  BY DEF Watches
<1> QED
  BY <1>1 DEF add_tx

\* The monitors keep their type.
LEMMA WatchType ==
    ASSUME TypeOK, StoresOK, NEW p \in Parties, StepOf(p)
    PROVE  watch' \in [Parties -> SUBSET Watches] /\ saved' \in [Parties -> SUBSET Watches]
<1>1. watch[p] \in SUBSET Watches /\ saved[p] \in SUBSET Watches
  BY DEF TypeOK
<1>2. Offerer \in Parties /\ BufferTx(0, Offerer) \in Txs /\ CloseTx(p) \in Txs
  BY PartiesAssumption, TxParts DEF IsUpdateTx
<1>3. add_tx(watch[p], BufferTx(0, Offerer), "BufferTx", 0, FALSE) \in SUBSET Watches
  BY <1>1, <1>2, AddType
<1>4. add_tx(watch[p], CloseTx(p), "CollaborativeClose", 0, FALSE) \in SUBSET Watches
  BY <1>1, <1>2, AddType
<1>5. \A tx : remove_tx(watch[p], tx) \in SUBSET Watches
  BY <1>1 DEF remove_tx
<1>6. \A tx \in Txs : add_tx(watch[p], tx, "SettleTx", 0, FALSE) \in SUBSET Watches
  BY <1>1, AddType
<1>7. Open(p) => Reach(channel[p]) \in Nat
  <2>1. Open(p) => channel[p] \in Channels
    BY DEF StoresOK, ChannelInv, Sound
  <2> QED
    BY <2>1, ChannelParts DEF Reach
<1>8. \A w \in SUBSET Watches, tx \in Txs, idx \in Nat, flag \in BOOLEAN :
         AddRevoked(w, tx, idx, flag) \in SUBSET Watches
  BY AddType DEF AddRevoked
<1>9. watch'[p] \in SUBSET Watches /\ saved'[p] \in SUBSET Watches
  <2>1. CASE Rests(p)
    BY <1>1, <2>1 DEF Rests
  <2>2. CASE SetsUp(p)
    BY <1>1, <1>3, <2>2 DEF SetsUp
  <2>3. CASE Works(p)
    <3>1. CASE saved'[p] = saved[p] /\ watch'[p] = watch[p]
      BY <1>1, <3>1
    <3>2. CASE /\ saved'[p] = saved[p]
               /\ \E tx \in Txs : watch'[p] = add_tx(watch[p], tx, "SettleTx", 0, FALSE)
      BY <1>1, <1>6, <3>2
    <3>3. CASE /\ saved'[p] = watch'[p]
               /\ \E w \in SUBSET Watches, tx \in Txs, flag \in BOOLEAN :
                     watch'[p] = AddRevoked(w, tx, Reach(channel[p]), flag)
      <4>1. Reach(channel[p]) \in Nat
        BY <1>7, <2>3 DEF Works
      <4> QED
        BY <1>8, <3>3, <4>1
    <3>4. CASE watch'[p] = saved[p] /\ saved'[p] = saved[p]
      BY <1>1, <3>4
    <3>5. CASE /\ saved'[p] = saved[p]
               /\ \E tx \in Txs, flag \in BOOLEAN : watch'[p] = AddRevoked(watch[p], tx, Reach(channel[p]), flag)
      <4>1. Reach(channel[p]) \in Nat
        BY <1>7, <2>3 DEF Works
      <4> QED
        BY <1>1, <1>8, <3>5, <4>1
    <3> QED
      BY <2>3, <3>1, <3>2, <3>3, <3>4, <3>5 DEF Works
  <2>4. CASE OffersClose(p)
    BY <1>1, <1>4, <2>4 DEF OffersClose
  <2>5. CASE SeesBuffer(p)
    BY <1>1, <2>5 DEF SeesBuffer
  <2>6. CASE Forces(p)
    BY <1>1, <1>5, <2>6 DEF Forces
  <2>7. CASE Ends(p)
    BY <1>1, <2>7 DEF Ends
  <2> QED
    BY <2>1, <2>2, <2>3, <2>4, <2>5, <2>6, <2>7 DEF StepOf
<1>10. \A q \in Parties : watch'[q] \in SUBSET Watches /\ saved'[q] \in SUBSET Watches
  BY <1>9 DEF StepOf, Frame, TypeOK
<1>11. watch' = [r \in Parties |-> watch'[r]] /\ saved' = [r \in Parties |-> saved'[r]]
  BY DEF StepOf, Frame
<1> QED
  BY <1>10, <1>11

\* What a step does to the fund transaction and to the output of the one that spends it.
LEMMA ChainStep ==
    ASSUME TypeOK, Next
    PROVE  /\ \/ funded' = funded
              \/ funded' = TRUE /\ \E q \in Parties : Receive(q, "SignChannel")
           /\ output' \in {output, "cet", "punish"}
<1>1. PICK q \in Parties :
        \/ Calls(q) \/ Answers(q) \/ on_dlc_message(q) \/ channel_checks(q)
        \/ Restart(q) \/ CrashAfterSend(q) \/ CrashAfterStore(q) \/ Lose(q)
        \/ CrashInCall(q) \/ check_signed_contracts(q)
  BY Zenon DEF Next
<1>2. /\ funded' = funded \/ (funded' = TRUE /\ Receive(q, "SignChannel"))
      /\ output' \in {output, "cet", "punish"}
  <2>1. CASE Calls(q)
    BY <2>1 DEF Calls, offer_channel, settle_offer, renew_offer, offer_collaborative_close, force_close_channel
  <2>2. CASE Answers(q)
    BY <2>2 DEF Answers, accept_channel, reject_channel, accept_settle_offer, reject_settle_offer,
       accept_renew_offer, reject_renew_offer, accept_collaborative_close
  <2>3. CASE on_dlc_message(q)
    BY <2>3 DEF on_dlc_message, on_offer_channel, on_accept_channel, on_sign_channel, on_settle_offer,
       on_settle_accept, on_settle_confirm, on_settle_finalize, on_renew_offer, on_renew_accept,
       on_renew_confirm, on_renew_finalize, on_renew_revoke, on_collaborative_close_offer, on_reject,
       fail_settlement, Ignore
  <2>4. CASE channel_checks(q)
    BY <2>4 DEF channel_checks, try_finalize_closing_established_channel, check_for_timed_out_channels,
       process_watched_txs, SeeBufferTx, SeeRevoked, SeeCollaborativeClose, SeeSettleTx, SeeCet,
       check_for_watched_tx
  <2>5. CASE Restart(q) \/ CrashAfterSend(q) \/ Lose(q) \/ CrashInCall(q) \/ check_signed_contracts(q)
    BY <2>5 DEF Restart, CrashAfterSend, Lose, CrashInCall, check_signed_contracts
  <2>6. CASE CrashAfterStore(q)
    <3>1. /\ funded' = (funded \/ Receive(q, "SignChannel")) /\ output' = output
          /\ funded \in BOOLEAN /\ Receive(q, "SignChannel") \in BOOLEAN
      BY <2>6 DEF CrashAfterStore, TypeOK, Receive
    <3> QED
      BY <3>1
  <2> QED
    BY <1>1, <2>1, <2>2, <2>3, <2>4, <2>5, <2>6
<1> QED
  BY <1>2

\* The chain keeps its type.
LEMMA ChainType ==
    ASSUME TypeOK, StoresOK, Next, NEW p \in Parties, StepOf(p)
    PROVE  /\ spend' \in [tx : Txs, by : Parties] \cup {None} /\ funded' \in BOOLEAN
           /\ output' \in {None, "cet", "punish"} /\ env' \in Environments /\ confirmed' \subseteq Parties
<1>1. spend' = spend \/ Spends(p)
  BY DEF StepOf, Rests, SetsUp, Works, OffersClose, SeesBuffer, Forces, Ends
<1>2. spend' \in [tx : Txs, by : Parties] \cup {None}
  BY <1>1 DEF TypeOK, Spends
<1>3. env' \in Environments
  BY DEF TypeOK, Next
<1>4. funded' \in BOOLEAN /\ output' \in {None, "cet", "punish"}
  BY ChainStep DEF TypeOK
<1>5. confirmed' = confirmed \/ \E q \in Parties : confirmed' = confirmed \cup {q}
  BY Zenon DEF Next, check_signed_contracts
<1>6. confirmed' \subseteq Parties
  BY <1>5 DEF TypeOK
<1> QED
  BY <1>2, <1>3, <1>4, <1>6

\* Types and sound stores, together.
LEMMA TypeStep ==
    TypeOK /\ StoresOK /\ [Next]_vars => (TypeOK /\ StoresOK)'
<1> SUFFICES ASSUME TypeOK, StoresOK, [Next]_vars PROVE (TypeOK /\ StoresOK)'
  OBVIOUS
<1>1. CASE Next
  <2>1. PICK p \in Parties : StepOf(p)
    BY <1>1, EveryStep
  <2>2. StoresOK'
    BY <1>1, StoresStep
  <2>3. NetType'
    BY <1>1, SentNet
  <2> QED
    BY <1>1, <2>1, <2>2, <2>3, WatchType, ChainType DEF TypeOK, StoresOK, StoreType, NetType
<1>2. CASE UNCHANGED vars
  BY <1>2 DEF vars, TypeOK, StoresOK, StoreType, ChannelInv, Open
<1> QED
  BY <1>1, <1>2

\* The initial state.
LEMMA TypeInit ==
    Init => TypeOK /\ StoresOK
<1> SUFFICES ASSUME Init PROVE TypeOK /\ StoresOK
  OBVIOUS
<1>1. channel \in [Parties -> Channels \cup [status : Gone \cup Setup]]
  BY DEF Init, Setup
<1>2. \A p \in Parties : ~Open(p)
  BY DEF Init, Open
<1>3. net \in [Parties -> Seq(Messages)]
  BY DEF Init
<1> QED
  BY <1>1, <1>2, <1>3 DEF Init, TypeOK, StoresOK, StoreType, ChannelInv

\* The invariant the other theorems build on.
THEOREM ChannelsAreSound == Spec => [](TypeOK /\ StoresOK)
<1>1. Init => TypeOK /\ StoresOK
  BY TypeInit
<1>2. (TypeOK /\ StoresOK) /\ [Next]_vars => (TypeOK /\ StoresOK)'
  BY TypeStep
<1> QED
  BY <1>1, <1>2, PTL DEF Spec

(***************************************************************************)
(* The stores, monitors, messages and the chain keep their types: no       *)
(* handler stores a channel without the fields its state needs.            *)
(***************************************************************************)
THEOREM TypeCorrect == Spec => []TypeOK
BY ChannelsAreSound, PTL

\* A sound channel has a transaction that its node has not revoked.
LEMMA WayOut ==
    StoresOK => CanCloseUnrevoked
<1> SUFFICES ASSUME StoresOK, NEW p \in Parties, Open(p), ~In(p, {"Closing"}),
                    ~RolledBackIn(p, Pending \cup {"Closing"})
             PROVE  \E tx \in HeldTxs(p) : tx.idx \notin channel[p].revealed
  BY DEF CanCloseUnrevoked
<1> DEFINE c == channel[p]
           u == c.update_idx
<1>1. /\ Sound(c) /\ c \in Channels /\ u \in Nat /\ c.state.type \in StateTypes
      /\ c.state # None /\ c.state.type # "Closing"
  BY ChannelParts, NoneAssumption DEF StoresOK, ChannelInv, Sound, In
<1>2. c.roll_back # None => c.roll_back.type \in Stable \cup {"RenewFinalized"}
  BY <1>1, ChannelParts, TypesDiffer DEF RolledBackIn
<1>3. u + 1 \notin c.revealed
  BY <1>1 DEF Sound
<1>4. Signed = Stable \cup {"SettledConfirmed", "RenewFinalized"}
  BY DEF Signed, Stable
<1>5. ASSUME NEW s \in {c.state, c.roll_back}, s # None, s.type \in Signed, s.tx.idx \notin c.revealed
      PROVE  \E tx \in HeldTxs(p) : tx.idx \notin c.revealed
  <2>1. s.tx \in HeldTxs(p)
    BY <1>5 DEF HeldTxs
  <2> QED
    BY <1>5, <2>1
<1>6. ASSUME NEW s \in {c.state, c.roll_back}, s # None, s.type \in Signed, Fits(s, u, c.revealed)
      PROVE  \E tx \in HeldTxs(p) : tx.idx \notin c.revealed
  <2>1. CASE s.type \in Stable
    BY <1>5, <1>6, <2>1, TypesDiffer DEF Fits, IsUpdateTx
  <2>2. CASE s.type \in {"SettledConfirmed", "RenewFinalized"}
    BY <1>3, <1>5, <1>6, <2>2 DEF Fits, IsUpdateTx, Ahead
  <2> QED
    BY <1>4, <1>6, <2>1, <2>2
<1>7. CASE c.state.type \in Signed
  BY <1>1, <1>6, <1>7 DEF Sound
<1>8. CASE c.state.type = "CollaborativeCloseOffered"
  BY <1>1, <1>2, <1>4, <1>6, <1>8, TypesDiffer DEF Sound
<1>9. CASE c.state.type \in Pending \ {"CollaborativeCloseOffered", "SettledConfirmed"}
  <2>1. /\ c.roll_back # None /\ c.roll_back.type \in Stable /\ c.roll_back.tx.idx = u
        /\ u \notin c.revealed
    BY <1>1, <1>9, TypesDiffer DEF Sound, Fits, IsUpdateTx, Unrevoked
  <2> QED
    BY <1>4, <1>5, <2>1
<1> QED
  BY <1>1, <1>4, <1>7, <1>8, <1>9, TypesDiffer

(***************************************************************************)
(* Whatever the order of proposals, answers, crashes and restarts, a node  *)
(* that has not begun to close holds a transaction signed by the other     *)
(* party that spends the fund output and that it has not revoked: every    *)
(* handler sends a secret only with the replacement stored.                *)
(***************************************************************************)
THEOREM NeverWithoutAWayOut == Spec => []CanCloseUnrevoked
<1>1. TypeOK /\ StoresOK => CanCloseUnrevoked
  BY WayOut
<1> QED
  BY <1>1, ChannelsAreSound, PTL
----------------------------------------------------------------------------
(* The setup.                                                              *)

\* A node that has a signed channel never returns to the setup.
LEMMA LeavesSetup ==
    ASSUME NEW p \in Parties, StepOf(p), NEW q \in Parties, channel[q].status \notin Setup
    PROVE  channel'[q].status \notin Setup
<1>1. "Signed" \notin Setup /\ Gone \cap Setup = {}
  BY DEF Setup, Gone
<1>2. CASE q # p
  BY <1>2 DEF StepOf, Frame
<1>3. CASE q = p
  BY <1>1, <1>3 DEF StepOf, Rests, SetsUp, Works, OffersClose, SeesBuffer, Forces, Ends, Open
<1> QED
  BY <1>2, <1>3

\* Every step keeps the order of the setup.
LEMMA FundedStep ==
    TypeOK /\ StoresOK /\ FundedInv /\ [Next]_vars => FundedInv'
<1> SUFFICES ASSUME TypeOK, StoresOK, FundedInv, [Next]_vars PROVE FundedInv'
  OBVIOUS
<1>1. CASE Next
  <2>1. PICK p \in Parties : StepOf(p)
    BY <1>1, EveryStep
  <2>2. Offerer \in Parties /\ NetType
    BY PartiesAssumption DEF TypeOK, NetType
  <2>3. channel[Offerer].status \notin Setup => channel'[Offerer].status \notin Setup
    BY <2>1, <2>2, LeavesSetup
  <2>4. ASSUME NEW q \in Parties, NEW type, Receive(q, type)
        PROVE  \E m \in Carried(q) : m.type = type
    BY <2>2, <2>4, ReceiveMeans, HeadCarried
  <2>5. \A q \in Parties : Receive(q, "AcceptChannel") => q = Offerer
    BY <2>4 DEF FundedInv
  <2>6. ASSUME NEW q \in Parties, NEW m \in Carried(q)'
        PROVE  /\ m.type = "AcceptChannel" => q = Offerer
               /\ m.type = "SignChannel" => channel'[Offerer].status \notin Setup
    <3>1. CASE m \in Carried(q)
      BY <2>3, <3>1 DEF FundedInv
    <3>2. CASE m \notin Carried(q)
      <4>1. m.type = "AcceptChannel" => q = Offerer
        BY <1>1, <2>6, <3>2, SentNet
      <4>2. m.type = "SignChannel" =>
              \E r \in Parties : Receive(r, "AcceptChannel") /\ channel'[r].status = "Signed"
        BY <1>1, <2>6, <3>2, SentNet
      <4>3. "Signed" \notin Setup
        BY DEF Setup
      <4> QED
        BY <2>5, <4>1, <4>2, <4>3
    <3> QED
      BY <3>1, <3>2
  <2>7. FundedWhenBothSigned'
    <3>1. CASE funded' = funded
      BY <2>3, <3>1 DEF FundedInv, FundedWhenBothSigned
    <3>2. CASE \E q \in Parties : Receive(q, "SignChannel")
      BY <2>3, <2>4, <3>2 DEF FundedInv, FundedWhenBothSigned
    <3> QED
      BY <1>1, <3>1, <3>2, ChainStep
  <2> QED
    BY <2>6, <2>7 DEF FundedInv
<1>2. CASE UNCHANGED vars
  BY <1>2 DEF vars, FundedInv, FundedWhenBothSigned, Carried
<1> QED
  BY <1>1, <1>2

(***************************************************************************)
(* on_sign_channel sends the fund transaction only after the offering node *)
(* has stored its signed channel, whatever was forged, lost or repeated.   *)
(***************************************************************************)
THEOREM FundsAreLockedLast == Spec => []FundedWhenBothSigned
<1>1. Init => FundedInv
  <2>1. Init => \A q \in Parties : Carried(q) = {}
    BY DEF Init, Carried
  <2> QED
    BY <2>1 DEF Init, FundedInv, FundedWhenBothSigned
<1>2. TypeOK /\ StoresOK /\ FundedInv /\ [Next]_vars => FundedInv'
  BY FundedStep
<1>3. FundedInv => FundedWhenBothSigned
  BY DEF FundedInv
<1> QED
  BY <1>1, <1>2, <1>3, ChannelsAreSound, PTL DEF Spec

----------------------------------------------------------------------------
(* The monitors.                                                           *)

\* An entry that will answer the transaction of update k with its punishment.
IsRevoked(e, k) == e.type = "Revoked" /\ e.idx = k /\ IsUpdateTx(e.tx, k)
Covers(w, n) == \A k \in 0 .. (n - 1) : \E e \in w : IsRevoked(e, k)

\* In memory and in the store, so that a restart does not lose it.
WatchedInv ==
    ~env.crashes => \A p \in Parties :
        Open(p) /\ channel[p].state.type \notin Ending =>
            Covers(watch[p], Reach(channel[p])) /\ Covers(saved[p], Reach(channel[p]))

\* Watching another transaction keeps the revoked ones.
LEMMA CoversAdd ==
    ASSUME NEW w, NEW n \in Nat, Covers(w, n), NEW tx, NEW j \in Nat, IsUpdateTx(tx, j), j >= n,
           NEW type, NEW idx, NEW flag
    PROVE  Covers(add_tx(w, tx, type, idx, flag), n)
<1> SUFFICES ASSUME NEW k \in 0 .. (n - 1)
             PROVE  \E e \in add_tx(w, tx, type, idx, flag) : IsRevoked(e, k)
  BY DEF Covers
<1>1. PICK e \in w : IsRevoked(e, k)
  BY DEF Covers
<1>2. e.tx # tx
  BY <1>1 DEF IsRevoked, IsUpdateTx
<1>3. e \in add_tx(w, tx, type, idx, flag)
  BY <1>2 DEF add_tx
<1> QED
  BY <1>1, <1>3

\* Revoking the next one extends them.
LEMMA CoversRevoke ==
    ASSUME NEW w, NEW n \in Nat, Covers(w, n), NEW tx, IsUpdateTx(tx, n), NEW flag
    PROVE  Covers(AddRevoked(w, tx, n, flag), n + 1)
<1> DEFINE v == AddRevoked(w, tx, n, flag)
<1>1. v = add_tx(w, tx, "Revoked", n, flag)
  BY DEF AddRevoked
<1>2. Covers(v, n)
  BY <1>1, CoversAdd
<1>3. [tx |-> tx, type |-> "Revoked", idx |-> n, is_offer |-> flag] \in v
  BY <1>1 DEF add_tx
<1>4. IsRevoked([tx |-> tx, type |-> "Revoked", idx |-> n, is_offer |-> flag], n)
  BY DEF IsRevoked
<1> HIDE DEF v
<1>5. ASSUME NEW k \in 0 .. n PROVE \E e \in v : IsRevoked(e, k)
  <2>1. CASE k = n
    BY <1>3, <1>4, <2>1
  <2>2. CASE k # n
    <3>1. k \in 0 .. (n - 1)
      BY <1>5, <2>2
    <3> QED
      BY <1>2, <3>1 DEF Covers
  <2> QED
    BY <2>1, <2>2
<1>6. (n + 1) - 1 = n
  OBVIOUS
<1> QED
  BY <1>5, <1>6 DEF Covers, v

\* Every step keeps the earlier updates watched.
LEMMA WatchedStep ==
    TypeOK /\ StoresOK /\ WatchedInv /\ [Next]_vars => WatchedInv'
<1> SUFFICES ASSUME TypeOK, StoresOK, WatchedInv, [Next]_vars PROVE WatchedInv'
  OBVIOUS
<1>1. CASE Next
  <2>1. PICK p \in Parties : StepOf(p)
    BY <1>1, EveryStep
  <2>2. env' = env
    BY <1>1 DEF Next
  <2>3. ASSUME ~env.crashes, NEW q \in Parties, Open(q)', channel'[q].state.type \notin Ending
        PROVE  /\ Covers(watch'[q], Reach(channel'[q])) /\ Covers(saved'[q], Reach(channel'[q]))
    <3>1. CASE q # p
      BY <2>1, <2>3, <3>1 DEF StepOf, Frame, WatchedInv, Open
    <3>2. CASE q = p /\ Rests(p)
      <4>1. channel'[p] = channel[p] /\ Open(p) /\ channel[p].state.type \notin Ending
        BY <2>3, <3>2 DEF Rests, Open
      <4>2. Covers(watch[p], Reach(channel[p])) /\ Covers(saved[p], Reach(channel[p]))
        BY <2>3, <4>1 DEF WatchedInv
      <4> QED
        BY <3>2, <4>1, <4>2 DEF Rests
    <3>3. CASE q = p /\ SetsUp(p)
      <4>1. channel'[p].status \notin Setup /\ "Signed" \notin Setup
        BY <2>3, <3>3 DEF Open, Setup
      <4>2. Reach(channel'[p]) = 0
        BY <3>3, <4>1 DEF SetsUp, Reach
      <4>3. 0 .. (0 - 1) = {}
        OBVIOUS
      <4> QED
        BY <3>3, <4>2, <4>3 DEF Covers
    <3>4. CASE q = p /\ Works(p)
      <4> DEFINE n == Reach(channel[p])
      <4>1. Covers(watch[p], n) /\ Covers(saved[p], n)
        BY <2>3, <3>4 DEF Works, WatchedInv
      <4>2. n \in Nat /\ (channel[p].state.type # "RenewFinalized" => n = channel[p].update_idx)
        <5>1. channel[p] \in Channels
          BY <3>4 DEF Works, StoresOK, ChannelInv, Sound
        <5> QED
          BY <5>1, ChannelParts DEF Reach
      <4>3. CASE Reach(channel'[p]) = n /\ saved'[p] = saved[p] /\ watch'[p] = watch[p]
        BY <3>4, <4>1, <4>3
      <4>4. CASE /\ Reach(channel'[p]) = n /\ saved'[p] = saved[p]
                 /\ \E tx \in Txs : /\ IsUpdateTx(tx, channel[p].update_idx + 1)
                                    /\ channel[p].state.type # "RenewFinalized"
                                    /\ watch'[p] = add_tx(watch[p], tx, "SettleTx", 0, FALSE)
        <5>1. PICK tx \in Txs : /\ IsUpdateTx(tx, n + 1)
                                /\ watch'[p] = add_tx(watch[p], tx, "SettleTx", 0, FALSE)
          BY <4>2, <4>4
        <5> HIDE DEF n
        <5>2. n + 1 \in Nat /\ n + 1 >= n
          BY <4>2
        <5>3. Covers(watch'[p], n)
          BY <4>1, <4>2, <5>1, <5>2, CoversAdd
        <5> QED
          BY <3>4, <4>1, <4>4, <5>3
      <4>4a. CASE /\ Reach(channel'[p]) = n /\ saved'[p] = saved[p]
                 /\ \E tx \in Txs, flag \in BOOLEAN :
                       IsUpdateTx(tx, n) /\ watch'[p] = AddRevoked(watch[p], tx, n, flag)
        <5>1. PICK tx \in Txs, flag \in BOOLEAN :
                     IsUpdateTx(tx, n) /\ watch'[p] = add_tx(watch[p], tx, "Revoked", n, flag)
          BY <4>4a DEF AddRevoked
        <5> HIDE DEF n
        <5>2. Covers(watch'[p], n)
          BY <4>1, <4>2, <5>1, CoversAdd
        <5> QED
          BY <3>4, <4>1, <4>4a, <5>2
      <4>5. CASE /\ Reach(channel'[p]) = n + 1
                 /\ \E w \in SUBSET Watches, tx \in Txs, flag \in BOOLEAN :
                       /\ \/ w = watch[p]
                          \/ \E next \in Txs : /\ IsUpdateTx(next, n + 1)
                                               /\ w = add_tx(watch[p], next, "BufferTx", 0, FALSE)
                       /\ IsUpdateTx(tx, n)
                       /\ watch'[p] = AddRevoked(w, tx, n, flag)
                 /\ saved'[p] = watch'[p]
        <5>1. PICK w \in SUBSET Watches, tx \in Txs, flag \in BOOLEAN :
                       /\ \/ w = watch[p]
                          \/ \E next \in Txs : /\ IsUpdateTx(next, n + 1)
                                               /\ w = add_tx(watch[p], next, "BufferTx", 0, FALSE)
                       /\ IsUpdateTx(tx, n)
                       /\ watch'[p] = AddRevoked(w, tx, n, flag)
          BY <4>5
        <5> HIDE DEF n
        <5>2. n + 1 \in Nat /\ n + 1 >= n
          BY <4>2
        <5>3. Covers(w, n)
          BY <4>1, <4>2, <5>1, <5>2, CoversAdd
        <5>4. Covers(watch'[p], n + 1)
          BY <4>2, <5>1, <5>3, CoversRevoke
        <5> QED
          BY <3>4, <4>5, <5>4
      <4> QED
        BY <2>3, <3>4, <4>3, <4>4, <4>4a, <4>5 DEF Works
    <3>5. CASE q = p /\ (OffersClose(p) \/ SeesBuffer(p) \/ Forces(p))
      BY <2>3, <3>5 DEF OffersClose, SeesBuffer, Forces, Ending
    <3>6. CASE q = p /\ Ends(p)
      BY <2>3, <3>6 DEF Ends, Open, Gone
    <3> QED
      BY <2>1, <3>1, <3>2, <3>3, <3>4, <3>5, <3>6 DEF StepOf
  <2> QED
    BY <2>2, <2>3 DEF WatchedInv
<1>2. CASE UNCHANGED vars
  BY <1>2 DEF vars, WatchedInv, Open
<1> QED
  BY <1>1, <1>2

(***************************************************************************)
(* A node in a stable state holds the other party's secret of every        *)
(* earlier update and watches each one's transaction as a revoked one,     *)
(* through any number of updates, lost messages and restarts.              *)
(***************************************************************************)
THEOREM RevokedIsWatched == Spec => []OldUpdatesAreWatched
<1>1. Init => WatchedInv
  BY DEF Init, WatchedInv, Open
<1>2. TypeOK /\ StoresOK /\ WatchedInv /\ [Next]_vars => WatchedInv'
  BY WatchedStep
<1>3. StoresOK /\ WatchedInv => OldUpdatesAreWatched
  <2> SUFFICES ASSUME StoresOK, WatchedInv, NEW p \in Parties, In(p, Stable),
                      NEW k \in 0 .. (channel[p].update_idx - 1)
               PROVE  /\ k \in channel[p].secrets
                      /\ \/ \E e \in watch[p] : e.type = "Revoked" /\ e.idx = k /\ e.tx.idx = k
                         \/ env.crashes
    BY Zenon DEF OldUpdatesAreWatched
  <2>1. Sound(channel[p]) /\ channel[p].state.type \in Stable /\ Open(p)
    BY InSound DEF In
  <2>2. k \in channel[p].secrets
    BY <2>1 DEF Sound
  <2>3. channel[p].state.type \notin Ending /\ Reach(channel[p]) = channel[p].update_idx
    BY <2>1 DEF Stable, Ending, Reach
  <2>4. CASE ~env.crashes
    <3>1. Covers(watch[p], channel[p].update_idx)
      BY <2>1, <2>3, <2>4 DEF WatchedInv
    <3> QED
      BY <2>2, <3>1 DEF Covers, IsRevoked, IsUpdateTx
  <2> QED
    BY <2>2, <2>4
<1> QED
  BY <1>1, <1>2, <1>3, ChannelsAreSound, PTL DEF Spec
----------------------------------------------------------------------------
(* The end of the channel.                                                 *)

\* What the monitors know of closing transactions; that a node that has published knows it has,
\* and no longer watches for what it published itself; and whose transaction it takes for the other's.
CloseWatched ==
    \A p \in Parties : \A e \in watch[p] \cup saved[p] : e.type = "CollaborativeClose" => e.tx.type = "close"
KnowsOwn ==
    spend # None =>
        /\ channel[spend.by].status \notin Setup
        /\ ~env.crashes /\ Open(spend.by) =>
              /\ channel[spend.by].state.type \in Ending
              /\ \A e \in watch[spend.by] \cup saved[spend.by] :
                    e.tx = spend.tx => e.type \notin {"BufferTx", "SettleTx"}
SawOther ==
    \A p \in Parties : In(p, {"Closing"}) /\ channel[p].state.flag = FALSE =>
        spend # None /\ (spend.by # p \/ env.crashes)
PublishedInv == CloseWatched /\ KnowsOwn /\ SawOther /\ ClosedAsPublished

\* The entries of a monitor after a step.
LEMMA EntryStep ==
    ASSUME NEW p \in Parties, StepOf(p), NEW e \in watch'[p] \cup saved'[p]
    PROVE  \/ e \in watch[p] \cup saved[p]
           \/ e.type = "CollaborativeClose" /\ e.tx = CloseTx(p)
           \/ e.type \in {"BufferTx", "SettleTx", "Cet", "Revoked"} /\ (SetsUp(p) \/ Works(p))
<1>1. \A w, tx : \A x \in add_tx(w, tx, "BufferTx", 0, FALSE) : x \in w \/ x.type \in {"BufferTx", "Cet"}
  BY DEF add_tx
<1>1a. \A w, tx : \A x \in add_tx(w, tx, "SettleTx", 0, FALSE) : x \in w \/ x.type = "SettleTx"
  BY DEF add_tx
<1>1b. \A w, tx, idx, flag : \A x \in add_tx(w, tx, "Revoked", idx, flag) : x \in w \/ x.type = "Revoked"
  BY DEF add_tx
<1>1c. \A w, tx : \A x \in add_tx(w, tx, "CollaborativeClose", 0, FALSE) :
          x \in w \/ (x.type = "CollaborativeClose" /\ x.tx = tx)
  BY DEF add_tx
<1>2. CASE Rests(p)
  BY <1>2 DEF Rests
<1>3. CASE SetsUp(p)
  <2> DEFINE w == add_tx(watch[p], BufferTx(0, Offerer), "BufferTx", 0, FALSE)
  <2>1. \A x \in w : x \in watch[p] \/ x.type \in {"BufferTx", "Cet"}
    BY <1>1
  <2>2. e \in watch[p] \cup saved[p] \cup w
    BY <1>3 DEF SetsUp
  <2> HIDE DEF w
  <2> QED
    BY <1>3, <2>1, <2>2
<1>4. CASE Works(p)
  <2>1. CASE saved'[p] = saved[p] /\ watch'[p] = watch[p]
    BY <2>1
  <2>2. CASE /\ saved'[p] = saved[p]
             /\ \E tx \in Txs : watch'[p] = add_tx(watch[p], tx, "SettleTx", 0, FALSE)
    BY <1>1a, <1>4, <2>2
  <2>3. CASE /\ saved'[p] = watch'[p]
             /\ \E w, tx, flag :
                   /\ w = watch[p] \/ \E next : w = add_tx(watch[p], next, "BufferTx", 0, FALSE)
                   /\ watch'[p] = AddRevoked(w, tx, Reach(channel[p]), flag)
    <3>1. PICK w, tx, flag :
             /\ w = watch[p] \/ \E next : w = add_tx(watch[p], next, "BufferTx", 0, FALSE)
             /\ watch'[p] = add_tx(w, tx, "Revoked", Reach(channel[p]), flag)
      BY <2>3 DEF AddRevoked
    <3>2. e \in w \/ e.type = "Revoked"
      BY <1>1b, <2>3, <3>1
    <3>3. e \in w => e \in watch[p] \/ e.type \in {"BufferTx", "Cet"}
      BY <1>1, <3>1
    <3> QED
      BY <1>4, <3>2, <3>3
  <2>4. CASE watch'[p] = saved[p] /\ saved'[p] = saved[p]
    BY <2>4
  <2>5. CASE /\ saved'[p] = saved[p]
             /\ \E tx, flag : watch'[p] = AddRevoked(watch[p], tx, Reach(channel[p]), flag)
    BY <1>1b, <1>4, <2>5 DEF AddRevoked
  <2> QED
    BY <1>4, <2>1, <2>2, <2>3, <2>4, <2>5, Zenon DEF Works
<1>5. CASE OffersClose(p)
  <2> DEFINE w == add_tx(watch[p], CloseTx(p), "CollaborativeClose", 0, FALSE)
  <2>1. \A x \in w : x \in watch[p] \/ (x.type = "CollaborativeClose" /\ x.tx = CloseTx(p))
    BY <1>1c
  <2>2. e \in watch[p] \cup saved[p] \cup w
    BY <1>5 DEF OffersClose
  <2> HIDE DEF w
  <2> QED
    BY <2>1, <2>2
<1>6. CASE SeesBuffer(p)
  BY <1>6 DEF SeesBuffer
<1>7. CASE Forces(p)
  BY <1>7 DEF Forces, remove_tx
<1>8. CASE Ends(p)
  BY <1>8 DEF Ends
<1> QED
  BY <1>2, <1>3, <1>4, <1>5, <1>6, <1>7, <1>8 DEF StepOf

\* The first transaction that spends the fund output is the last.
LEMMA SpendIsFinal ==
    ASSUME NEW p \in Parties, StepOf(p)
    PROVE  /\ spend # None => spend' = spend
           /\ spend = None /\ spend' # None => spend'.by = p /\ Open(p)
<1>1. spend' = spend \/ (Spends(p) /\ Open(p))
  BY DEF StepOf, Rests, SetsUp, Works, OffersClose, SeesBuffer, Forces, Ends
<1> QED
  BY <1>1 DEF Spends

\* Every step keeps the records of the end in order.
LEMMA PublishedStep ==
    TypeOK /\ StoresOK /\ PublishedInv /\ [Next]_vars => PublishedInv'
<1> SUFFICES ASSUME TypeOK, StoresOK, PublishedInv, [Next]_vars PROVE PublishedInv'
  OBVIOUS
<1>1. CASE Next
  <2>1. PICK p \in Parties : StepOf(p)
    BY <1>1, EveryStep
  <2>2. env' = env
    BY <1>1 DEF Next
  <2>3. \A q \in Parties \ {p} : channel'[q] = channel[q] /\ watch'[q] = watch[q] /\ saved'[q] = saved[q]
    BY <2>1 DEF StepOf, Frame
  <2>4. /\ spend # None => spend' = spend
        /\ spend = None /\ spend' # None => spend'.by = p /\ Open(p)
    BY <2>1, SpendIsFinal
  <2>5. CloseWatched'
    <3>1. ASSUME NEW q \in Parties, NEW e \in watch'[q] \cup saved'[q], e.type = "CollaborativeClose"
          PROVE  e.tx.type = "close"
      <4>1. CASE q # p
        BY <2>3, <3>1, <4>1 DEF PublishedInv, CloseWatched
      <4>2. CASE q = p
        <5>1. e \in watch[p] \cup saved[p] \/ e.tx = CloseTx(p)
          BY <2>1, <3>1, <4>2, EntryStep
        <5> QED
          BY <3>1, <5>1, TxParts DEF PublishedInv, CloseWatched
      <4> QED
        BY <4>1, <4>2
    <3> QED
      BY <3>1 DEF CloseWatched
  <2>6. ASSUME spend # None, ~env.crashes, Open(spend.by)
        PROVE  ~Finds(spend.by, "BufferTx") /\ ~Finds(spend.by, "SettleTx")
    BY <2>6 DEF PublishedInv, KnowsOwn, Finds
  <2>7. SawOther'
    <3>1. ASSUME NEW q \in Parties, In(q, {"Closing"})', channel'[q].state.flag = FALSE
          PROVE  spend' # None /\ (spend'.by # q \/ env.crashes)
      <4>1. CASE q # p
        <5>1. In(q, {"Closing"}) /\ channel[q].state.flag = FALSE
          BY <2>3, <3>1, <4>1 DEF In, Open
        <5> QED
          BY <2>4, <5>1 DEF PublishedInv, SawOther
      <4>2. CASE q = p /\ In(p, {"Closing"}) /\ channel[p].state.flag = FALSE
        BY <2>4, <4>2 DEF PublishedInv, SawOther
      <4>3. CASE q = p /\ ~(In(p, {"Closing"}) /\ channel[p].state.flag = FALSE)
        <5>1. SeesBuffer(p)
          <6>1. channel'[p].state.type = "Closing" /\ channel'[p].status = "Signed"
            BY <3>1, <4>3 DEF In, Open
          <6>2. ~Rests(p)
            BY <3>1, <4>3 DEF Rests, In, Open
          <6>3. ~SetsUp(p) /\ ~Works(p) /\ ~OffersClose(p) /\ ~Ends(p)
            BY <6>1 DEF SetsUp, Works, OffersClose, Ends, Ending, Setup, Gone
          <6>4. ~Forces(p)
            BY <3>1, <4>3 DEF Forces
          <6> QED
            BY <2>1, <6>2, <6>3, <6>4 DEF StepOf
        <5>2. spend # None /\ Finds(p, "BufferTx") /\ Open(p)
          BY <5>1 DEF SeesBuffer, Finds
        <5> QED
          BY <2>4, <2>6, <4>3, <5>2
      <4> QED
        BY <4>1, <4>2, <4>3
    <3> QED
      BY <2>2, <3>1, Zenon DEF SawOther
  <2>8. KnowsOwn'
    <3> SUFFICES ASSUME spend' # None, NEW q, q = spend'.by
                 PROVE  /\ channel'[q].status \notin Setup
                        /\ ~env'.crashes /\ channel'[q].status = "Signed" =>
                             /\ channel'[q].state.type \in Ending
                             /\ \A e \in watch'[q] \cup saved'[q] :
                                   e.tx = spend'.tx => e.type \notin {"BufferTx", "SettleTx"}
      BY DEF KnowsOwn, Open
    <3>1. q \in Parties /\ channel[q].status \notin Setup
      <4>1. CASE spend # None
        BY <2>4, <4>1 DEF PublishedInv, KnowsOwn, TypeOK
      <4>2. CASE spend = None
        BY <2>4, <4>2 DEF Open, Setup
      <4> QED
        BY <4>1, <4>2
    <3>2. channel'[q].status \notin Setup
      BY <2>1, <3>1, LeavesSetup
    <3>3. ASSUME ~env.crashes, channel'[q].status = "Signed"
          PROVE  /\ channel'[q].state.type \in Ending
                 /\ \A e \in watch'[q] \cup saved'[q] : e.tx = spend'.tx => e.type \notin {"BufferTx", "SettleTx"}
      <4>1. CASE q # p
        <5>1. spend # None /\ spend' = spend /\ spend.by = q
          BY <2>4, <4>1
        <5>2. Open(q) /\ channel'[q] = channel[q] /\ watch'[q] = watch[q] /\ saved'[q] = saved[q]
          BY <2>3, <3>1, <3>3, <4>1 DEF Open
        <5> QED
          BY <3>3, <5>1, <5>2 DEF PublishedInv, KnowsOwn
      <4>2. CASE q = p /\ Forces(p)
        <5>1. watch'[p] = remove_tx(watch[p], spend'.tx) /\ saved'[p] = watch'[p]
              /\ channel'[p].state.type = "Closing"
          BY <3>3, <4>2 DEF Forces
        <5>2. \A e \in watch'[p] \cup saved'[p] : e.tx = spend'.tx => e.type = "Cet"
          BY <5>1 DEF remove_tx
        <5> QED
          BY <4>2, <5>1, <5>2 DEF Ending
      <4>3. CASE q = p /\ ~Forces(p)
        <5>1. ~SetsUp(p) /\ ~Ends(p)
          BY <3>1, <3>3, <4>3 DEF SetsUp, Ends, Gone, Open
        <5>2. Open(p)
          BY <2>1, <3>3, <4>3, <5>1 DEF StepOf, Rests, Works, OffersClose, SeesBuffer, Open
        <5>3. spend' = spend
          BY <2>1, <3>3, <4>3, <5>1 DEF StepOf, Rests, Works, OffersClose, SeesBuffer
        <5>4. /\ spend # None /\ spend.by = p /\ channel[p].state.type \in Ending
              /\ \A e \in watch[p] \cup saved[p] : e.tx = spend.tx => e.type \notin {"BufferTx", "SettleTx"}
          BY <3>3, <4>3, <5>2, <5>3 DEF PublishedInv, KnowsOwn
        <5>5. ~Works(p)
          BY <5>4 DEF Works
        <5>6. channel'[p].state.type \in Ending
          BY <2>1, <4>3, <5>1, <5>4, <5>5 DEF StepOf, Rests, OffersClose, SeesBuffer, Ending
        <5>7. \A e \in watch'[p] \cup saved'[p] : e \in watch[p] \cup saved[p] \/ e.type = "CollaborativeClose"
          BY <2>1, <5>1, <5>5, EntryStep
        <5> QED
          BY <4>3, <5>3, <5>4, <5>6, <5>7
      <4> QED
        BY <4>1, <4>2, <4>3
    <3> QED
      BY <2>2, <3>2, <3>3
  <2>9. ClosedAsPublished'
    <3> SUFFICES ASSUME NEW q \in Parties
                 PROVE  /\ channel'[q].status = "CollaborativelyClosed" => spend' # None /\ spend'.tx.type = "close"
                        /\ channel'[q].status = "ClosedPunished" => spend' # None /\ spend'.by # q
                        /\ channel'[q].status = "CounterClosed" => spend' # None /\ (spend'.by # q \/ env'.crashes)
      BY Zenon DEF ClosedAsPublished
    <3>1. CASE channel'[q].status = channel[q].status
      BY <2>2, <2>4, <3>1 DEF PublishedInv, ClosedAsPublished
    <3>2. CASE q = p /\ Ends(p)
      <4>1. channel'[p].status = "CollaborativelyClosed" => spend' # None /\ spend'.tx.type = "close"
        <5>1. Finds(p, "CollaborativeClose") => spend.tx.type = "close"
          BY DEF Finds, PublishedInv, CloseWatched
        <5> QED
          BY <3>2, <5>1 DEF Ends
      <4>2. channel'[p].status = "ClosedPunished" => spend' # None /\ spend'.by # p
        BY <3>2 DEF Ends
      <4>3. channel'[p].status = "CounterClosed" => spend' # None /\ (spend'.by # p \/ env.crashes)
        <5>1. CASE Finds(p, "SettleTx") /\ spend # None /\ spend' = spend /\ Open(p)
          BY <2>6, <5>1
        <5>2. CASE channel[p].state.type = "Closing" /\ channel[p].state.flag = FALSE
          BY <2>4, <3>2, <5>2 DEF PublishedInv, SawOther, In, Ends
        <5> QED
          BY <3>2, <5>1, <5>2 DEF Ends
      <4> QED
        BY <2>2, <3>2, <4>1, <4>2, <4>3
    <3>3. CASE q = p /\ ~Ends(p)
      <4>1. channel'[p].status = channel[p].status \/ channel'[p].status \in Setup \cup {"Signed"}
        BY <2>1, <3>3 DEF StepOf, Rests, SetsUp, Works, OffersClose, SeesBuffer, Forces, Open
      <4>2. CASE channel'[p].status \in Setup \cup {"Signed"}
        BY <3>3, <4>2 DEF Setup
      <4> QED
        BY <3>1, <3>3, <4>1, <4>2
    <3>4. CASE q # p
      BY <2>3, <3>1, <3>4
    <3> QED
      BY <3>2, <3>3, <3>4
  <2> QED
    BY <2>5, <2>7, <2>8, <2>9 DEF PublishedInv
<1>2. CASE UNCHANGED vars
  BY <1>2 DEF vars, PublishedInv, CloseWatched, KnowsOwn, SawOther, ClosedAsPublished, In, Open
<1> QED
  BY <1>1, <1>2

(***************************************************************************)
(* The record a node keeps of the channel's end agrees with the chain: it  *)
(* does not take its own transaction for the other party's, nor a forced   *)
(* close for one that was agreed.                                          *)
(***************************************************************************)
THEOREM RecordsAgreeWithTheChain == Spec => []ClosedAsPublished
<1>1. Init => PublishedInv
  BY DEF Init, PublishedInv, CloseWatched, KnowsOwn, SawOther, ClosedAsPublished, In, Open
<1>2. TypeOK /\ StoresOK /\ PublishedInv /\ [Next]_vars => PublishedInv'
  BY PublishedStep
<1>3. PublishedInv => ClosedAsPublished
  BY DEF PublishedInv
<1> QED
  BY <1>1, <1>2, <1>3, ChannelsAreSound, PTL DEF Spec
----------------------------------------------------------------------------
(* The two nodes together, as long as neither has begun to close.          *)

Live == \A p \in Parties : channel[p].status \in Setup
                           \/ (Open(p) /\ channel[p].state.type \notin Ending)

\* A node whose setup is not complete counts as one with a new channel.
View(p) == IF Open(p) THEN channel[p] ELSE SignedChannel(FALSE)

\* The states a node may still return from, and the stable state it returns to.
Free == Stable \cup Proposed
Base(c) == IF c.state.type \in Stable THEN c.state ELSE c.roll_back

\* The transaction of the next update has one form for each of its two parties.
Shape(p, c) ==
    /\ c.state.type = "SettledAccepted" => c.state.tx = SettleTx(c.update_idx + 1, Other(p))
    /\ c.state.type = "SettledConfirmed" => c.state.tx = SettleTx(c.update_idx + 1, p)
    /\ c.state.type \in {"RenewAccepted", "RenewFinalized"} =>
          c.state.tx = BufferTx(c.update_idx + 1, Other(p))
    /\ c.state.type = "RenewConfirmed" => c.state.tx = BufferTx(c.update_idx + 1, p)
    /\ c.state.type # "RenewFinalized" => c.counter_point = c.update_idx

\* c cannot return any more, and d has completed the update c waits for.
Behind(c, d) ==
    /\ d.update_idx = c.update_idx + 1
    /\ c.state.type \in {"SettledConfirmed", "RenewFinalized"}
    /\ d.state.type \in Free \cup {"SettledAccepted", "RenewAccepted"}
    /\ d.state.type \in Free =>
          /\ Base(d).tx = c.state.tx
          /\ Base(d).type = IF c.state.type = "SettledConfirmed" THEN "Settled" ELSE "Established"

\* At the same update, c's commitments are answered by d's.
Abreast(c, d) ==
    /\ d.update_idx = c.update_idx
    /\ c.state.type \in Free /\ d.state.type \in Free =>
          Base(c).type = Base(d).type /\ Base(c).tx = Base(d).tx
    /\ c.state.type = "SettledConfirmed" => d.state.type = "SettledAccepted"
    /\ c.state.type = "RenewFinalized" => d.state.type = "RenewConfirmed"
    /\ c.state.type = "RenewConfirmed" => d.state.type \in {"RenewAccepted", "RenewFinalized"}

Together(c, d) == Behind(c, d) \/ Behind(d, c) \/ (Abreast(c, d) /\ Abreast(d, c))

\* What a message m on its way to c says of its sender d.
Tells(m, c, d) ==
    /\ m.type = "SettleAccept" =>
          m.idx <= d.update_idx + 1 /\ (m.idx = d.update_idx + 1 => d.state.type = "SettledAccepted")
    /\ m.type = "SettleConfirm" =>
          m.idx <= d.update_idx /\ (m.idx = d.update_idx => d.state.type = "SettledConfirmed")
    /\ m.type \in {"SettleFinalize", "RenewRevoke"} => m.idx < d.update_idx
    /\ m.type = "RenewAccept" =>
          /\ m.idx <= d.update_idx + 1
          /\ m.idx = d.update_idx + 1 => d.state.type \in {"RenewAccepted", "RenewFinalized"}
    /\ m.type = "RenewConfirm" =>
          /\ d.state.type = "RenewConfirmed" /\ c.state.type = "RenewAccepted"
          /\ c.update_idx = d.update_idx
    /\ m.type = "RenewFinalize" =>
          m.idx <= d.update_idx /\ (m.idx = d.update_idx => d.state.type = "RenewFinalized")

\* on_renew_confirm checks no index: there is never a second one to mistake for the first.
OneConfirm(q) ==
    \A i, j \in DOMAIN net[q] : net[q][i].type = "RenewConfirm" /\ net[q][j].type = "RenewConfirm" => i = j

JointInv ==
    Live => \A p \in Parties :
        /\ Shape(p, View(p)) /\ Together(View(p), View(Other(p)))
        /\ OneConfirm(p) /\ \A m \in Carried(p) : Tells(m, View(p), View(Other(p)))

\* The messages that bind their sender to nothing.
Harmless == {"OfferChannel", "AcceptChannel", "SignChannel", "SettleOffer", "RenewOffer",
             "CollaborativeCloseOffer", "Reject"}

\* c and d are the same, or two states from which a node returns to the same one.
Keeps(c, d) ==
    /\ d.update_idx = c.update_idx /\ d.counter_point = c.counter_point
    /\ \/ /\ c.state.type \in Free /\ d.state.type \in Free
          /\ Base(d).type = Base(c).type /\ Base(d).tx = Base(c).tx
       \/ c.state.type \notin Free /\ d.state.type = c.state.type /\ d.state.tx = c.state.tx

\* The types of states that matter to the other party are none to return from.
LEMMA FreeTypes ==
    /\ Free \cap {"SettledAccepted", "SettledConfirmed", "RenewAccepted", "RenewConfirmed", "RenewFinalized"} = {}
    /\ {"SettledOffered", "SettledReceived", "RenewOffered", "Established", "Settled"} = Free
    /\ {"Established", "Settled"} = Stable
BY DEF Free, Stable, Proposed

\* A step that keeps what binds a node.
LEMMA KeepsJoint ==
    ASSUME NEW p, NEW c, NEW d, NEW e, c.update_idx \in Nat, d.update_idx \in Nat,
           Keeps(c, e), Shape(p, c), Together(c, d)
    PROVE  /\ Shape(p, e) /\ Together(e, d)
           /\ \A m : Tells(m, c, d) => Tells(m, e, d)
           /\ \A m : Tells(m, d, c) => Tells(m, d, e)
<1>1. Shape(p, e)
  BY FreeTypes DEF Keeps, Shape
<1>2. ASSUME Behind(c, d) PROVE Behind(e, d)
  BY <1>2, FreeTypes DEF Keeps, Behind
<1>3. ASSUME Behind(d, c) PROVE Behind(d, e)
  BY <1>3, FreeTypes DEF Keeps, Behind
<1>4. ASSUME Abreast(c, d), Abreast(d, c) PROVE Abreast(e, d) /\ Abreast(d, e)
  BY <1>4, FreeTypes DEF Keeps, Abreast
<1>5. Together(e, d)
  BY <1>2, <1>3, <1>4 DEF Together
<1>6. \A m : Tells(m, c, d) => Tells(m, e, d)
  BY FreeTypes DEF Keeps, Tells
<1>7. \A m : Tells(m, d, c) => Tells(m, d, e)
  BY FreeTypes DEF Keeps, Tells
<1> QED
  BY <1>1, <1>5, <1>6, <1>7

\* A node accepts a settlement or a renewal.
LEMMA AcceptJoint ==
    ASSUME NEW p, NEW c, NEW d, NEW e, c.update_idx \in Nat, d.update_idx \in Nat,
           Shape(p, c), Together(c, d), c.state.type \in Free,
           e.update_idx = c.update_idx, e.counter_point = c.counter_point,
           \/ e.state.type = "SettledAccepted" /\ e.state.tx = SettleTx(c.update_idx + 1, Other(p))
           \/ e.state.type = "RenewAccepted" /\ e.state.tx = BufferTx(c.update_idx + 1, Other(p))
    PROVE  /\ Shape(p, e) /\ Together(e, d)
           /\ \A m : Tells(m, c, d) => Tells(m, e, d)
           /\ \A m : Tells(m, d, c) => Tells(m, d, e)
<1>1. Shape(p, e)
  BY FreeTypes DEF Shape
<1>2. ~Behind(c, d)
  BY FreeTypes DEF Behind
<1>3. ASSUME Behind(d, c) PROVE Behind(d, e)
  BY <1>3, FreeTypes DEF Behind
<1>4. ASSUME Abreast(c, d), Abreast(d, c) PROVE Abreast(e, d) /\ Abreast(d, e)
  BY <1>4, FreeTypes DEF Abreast
<1>5. Together(e, d)
  BY <1>2, <1>3, <1>4 DEF Together
<1>6. \A m : Tells(m, c, d) => Tells(m, e, d)
  BY FreeTypes DEF Tells
<1>7. \A m : Tells(m, d, c) => Tells(m, d, e)
  BY FreeTypes DEF Tells
<1> QED
  BY <1>1, <1>5, <1>6, <1>7

\* A node confirms a settlement or a renewal that the other has accepted.
LEMMA ConfirmJoint ==
    ASSUME NEW p, NEW c, NEW d, NEW e, NEW a, c.update_idx \in Nat, d.update_idx \in Nat,
           Shape(p, c), Together(c, d), c.state.type \in Free,
           Tells(a, c, d), a.idx = c.update_idx + 1,
           e.update_idx = c.update_idx, e.counter_point = c.counter_point,
           \/ /\ a.type = "SettleAccept"
              /\ e.state.type = "SettledConfirmed" /\ e.state.tx = SettleTx(c.update_idx + 1, p)
           \/ /\ a.type = "RenewAccept"
              /\ e.state.type = "RenewConfirmed" /\ e.state.tx = BufferTx(c.update_idx + 1, p)
    PROVE  /\ Shape(p, e) /\ Together(e, d) /\ d.update_idx = c.update_idx
           /\ a.type = "RenewAccept" => d.state.type = "RenewAccepted"
           /\ \A m : Tells(m, c, d) => Tells(m, e, d)
           /\ \A m : Tells(m, d, c) => Tells(m, d, e) /\ m.type # "RenewConfirm"
<1>1. Shape(p, e)
  BY FreeTypes DEF Shape
<1>2. ~Behind(c, d)
  BY FreeTypes DEF Behind
<1>3. ~Behind(d, c)
  BY DEF Behind, Tells
<1>4. Abreast(c, d) /\ Abreast(d, c)
  BY <1>2, <1>3 DEF Together
<1>5. d.update_idx = c.update_idx
  BY <1>4 DEF Abreast
<1>6. /\ a.type = "SettleAccept" => d.state.type = "SettledAccepted"
      /\ a.type = "RenewAccept" => d.state.type = "RenewAccepted"
  BY <1>4, <1>5, FreeTypes DEF Tells, Abreast
<1>7. Abreast(e, d) /\ Abreast(d, e)
  BY <1>4, <1>6, FreeTypes DEF Abreast
<1>8. \A m : Tells(m, c, d) => Tells(m, e, d)
  BY FreeTypes DEF Tells
<1>9. \A m : Tells(m, d, c) => Tells(m, d, e) /\ m.type # "RenewConfirm"
  BY FreeTypes DEF Tells
<1> QED
  BY <1>1, <1>5, <1>6, <1>7, <1>8, <1>9 DEF Together

\* A node finalizes a renewal that the other has confirmed.
LEMMA FinalizeJoint ==
    ASSUME NEW p, NEW c, NEW d, NEW e, NEW a, c.update_idx \in Nat, d.update_idx \in Nat,
           Shape(p, c), Together(c, d), c.state.type = "RenewAccepted",
           Tells(a, c, d), a.type = "RenewConfirm",
           e.update_idx = c.update_idx, e.state.type = "RenewFinalized", e.state.tx = c.state.tx
    PROVE  /\ Shape(p, e) /\ Together(e, d)
           /\ \A m : Tells(m, c, d) /\ m.type # "RenewConfirm" => Tells(m, e, d)
           /\ \A m : Tells(m, d, c) => Tells(m, d, e)
<1>1. Shape(p, e)
  BY DEF Shape
<1>2. d.state.type = "RenewConfirmed" /\ c.update_idx = d.update_idx
  BY DEF Tells
<1>3. Abreast(c, d) /\ Abreast(d, c)
  BY <1>2 DEF Together, Behind
<1>4. Abreast(e, d) /\ Abreast(d, e)
  BY <1>2, <1>3, FreeTypes DEF Abreast
<1>5. \A m : Tells(m, c, d) /\ m.type # "RenewConfirm" => Tells(m, e, d)
  BY DEF Tells
<1>6. \A m : Tells(m, d, c) => Tells(m, d, e)
  BY DEF Tells
<1> QED
  BY <1>1, <1>4, <1>5, <1>6 DEF Together

\* A node is the first to complete an update.
LEMMA FirstJoint ==
    ASSUME NEW p \in Parties, NEW c, NEW d, NEW e, NEW a, c.update_idx \in Nat, d.update_idx \in Nat,
           Shape(p, c), Shape(Other(p), d), Together(c, d), Tells(a, c, d), a.idx = c.counter_point,
           e.update_idx = c.update_idx + 1, e.counter_point = c.update_idx + 1, e.state.tx = c.state.tx,
           \/ a.type = "SettleConfirm" /\ c.state.type = "SettledAccepted" /\ e.state.type = "Settled"
           \/ a.type = "RenewFinalize" /\ c.state.type = "RenewConfirmed" /\ e.state.type = "Established"
    PROVE  /\ Shape(p, e) /\ Together(e, d)
           /\ \A m : Tells(m, c, d) => Tells(m, e, d)
           /\ \A m : m.idx \in Nat /\ Tells(m, d, c) => Tells(m, d, e)
<1>1. Shape(p, e)
  BY DEF Shape
<1>2. a.idx = c.update_idx
  BY DEF Shape
<1>3. ~Behind(c, d) /\ ~Behind(d, c)
  BY <1>2 DEF Behind, Tells
<1>4. Abreast(c, d) /\ Abreast(d, c) /\ d.update_idx = c.update_idx
  BY <1>3 DEF Together, Abreast
<1>5. /\ a.type = "SettleConfirm" => d.state.type = "SettledConfirmed"
      /\ a.type = "RenewFinalize" => d.state.type = "RenewFinalized"
  BY <1>2, <1>4 DEF Tells
<1>6. d.state.tx = c.state.tx
  BY <1>4, <1>5, OtherIs DEF Shape
<1>7. Behind(d, e)
  BY <1>4, <1>5, <1>6, FreeTypes DEF Behind, Base
<1>8. \A m : Tells(m, c, d) => Tells(m, e, d)
  BY DEF Tells
<1>9. \A m : m.idx \in Nat /\ Tells(m, d, c) => Tells(m, d, e)
  <2> SUFFICES ASSUME NEW m, m.idx \in Nat, Tells(m, d, c) PROVE Tells(m, d, e)
    OBVIOUS
  <2>1. m.type # "RenewConfirm"
    BY <1>5 DEF Tells
  <2> QED
    BY <2>1 DEF Tells
<1> QED
  BY <1>1, <1>7, <1>8, <1>9 DEF Together

\* The other node completes it.
LEMMA SecondJoint ==
    ASSUME NEW p, NEW c, NEW d, NEW e, NEW a, c.update_idx \in Nat, d.update_idx \in Nat,
           Shape(p, c), Together(c, d), Tells(a, c, d), a.idx = c.update_idx,
           e.update_idx = c.update_idx + 1, e.counter_point = c.update_idx + 1, e.state.tx = c.state.tx,
           \/ a.type = "SettleFinalize" /\ c.state.type = "SettledConfirmed" /\ e.state.type = "Settled"
           \/ a.type = "RenewRevoke" /\ c.state.type = "RenewFinalized" /\ e.state.type = "Established"
    PROVE  /\ Shape(p, e) /\ Together(e, d)
           /\ \A m : Tells(m, c, d) => Tells(m, e, d)
           /\ \A m : m.idx \in Nat /\ Tells(m, d, c) => Tells(m, d, e)
<1>1. Shape(p, e)
  BY DEF Shape
<1>2. Behind(c, d)
  BY DEF Together, Behind, Abreast, Tells
<1>3. Abreast(e, d) /\ Abreast(d, e)
  BY <1>2, FreeTypes DEF Behind, Abreast, Base
<1>4. \A m : Tells(m, c, d) => Tells(m, e, d)
  BY DEF Tells
<1>5. \A m : m.idx \in Nat /\ Tells(m, d, c) => Tells(m, d, e)
  BY DEF Tells
<1> QED
  BY <1>1, <1>3, <1>4, <1>5 DEF Together
\* A queue with at most one confirmation of a renewal.
Once(s) == \A i, j \in DOMAIN s : s[i].type = "RenewConfirm" /\ s[j].type = "RenewConfirm" => i = j

\* Taking the head of a queue leaves no second confirmation, and none after the first.
LEMMA TailOnce ==
    ASSUME NEW s \in Seq(Messages), s # <<>>, Once(s)
    PROVE  /\ Once(Tail(s))
           /\ Head(s).type = "RenewConfirm" => \A i \in DOMAIN Tail(s) : Tail(s)[i].type # "RenewConfirm"
<1> DEFINE t == Tail(s)
<1>1. t \in Seq(Messages) /\ \A i \in DOMAIN t : i + 1 \in DOMAIN s /\ t[i] = s[i + 1]
  BY TailParts
<1>2. DOMAIN t \subseteq Nat \ {0} /\ DOMAIN s \subseteq Nat \ {0}
  BY <1>1
<1>3. 1 \in DOMAIN s /\ Head(s) = s[1]
  OBVIOUS
<1> HIDE DEF t
<1>4. Once(t)
  BY <1>1, <1>2 DEF Once
<1>5. Head(s).type = "RenewConfirm" => \A i \in DOMAIN t : t[i].type # "RenewConfirm"
  BY <1>1, <1>2, <1>3 DEF Once
<1> QED
  BY <1>4, <1>5 DEF t

\* Neither does adding another message, or the first confirmation.
LEMMA AppendOnce ==
    ASSUME NEW s \in Seq(Messages), NEW m \in Messages, Once(s),
           m.type # "RenewConfirm" \/ \A i \in DOMAIN s : s[i].type # "RenewConfirm"
    PROVE  Once(Append(s, m))
<1> DEFINE t == Append(s, m)
<1>1. \A i \in DOMAIN t : \/ i \in DOMAIN s /\ t[i] = s[i]
                          \/ i = Len(s) + 1 /\ t[i] = m
  BY AppendParts
<1> HIDE DEF t
<1> QED
  BY <1>1 DEF Once, t

Sends(p, type, idx) == Send(p, type, idx) \/ (Reply(p, type, idx) /\ net[p] # <<>>)
Takes(p) == (Consume(p) /\ net[p] # <<>>) \/ Reload(p) \/ UNCHANGED net

\* The queues after a node has taken a message.
LEMMA TakeOnce ==
    ASSUME NetType, NEW p \in Parties, Takes(p), \A q \in Parties : OneConfirm(q)
    PROVE  \A q \in Parties : OneConfirm(q)'
<1>1. net[p] \in Seq(Messages) /\ Once(net[p])
  BY DEF NetType, OneConfirm, Once
<1>2. /\ \A q \in Parties \ {p} : net'[q] = net[q]
      /\ net'[p] \in {net[p], <<>>} \/ (net[p] # <<>> /\ net'[p] = Tail(net[p]))
  BY DEF NetType, Consume, Reload, Takes
<1>3. net[p] # <<>> => Once(Tail(net[p]))
  BY <1>1, TailOnce
<1>4. Once(<<>>)
  BY DEF Once
<1>5. Once(net'[p])
  BY <1>1, <1>2, <1>3, <1>4, Zenon
<1>6. OneConfirm(p)'
  BY <1>5 DEF OneConfirm, Once
<1> QED
  BY <1>2, <1>6 DEF OneConfirm

\* The queues after a node has sent a message.
LEMMA SendOnce ==
    ASSUME NetType, NEW p \in Parties, NEW type \in MessageTypes, NEW idx \in Nat, Sends(p, type, idx),
           \A q \in Parties : OneConfirm(q),
           type # "RenewConfirm" \/ \A m \in Carried(Other(p)) : m.type # "RenewConfirm"
    PROVE  \A q \in Parties : OneConfirm(q)'
<1> DEFINE q == Other(p)
           m == [type |-> type, idx |-> idx]
<1>1. q \in Parties /\ q # p /\ \A r \in Parties : r = p \/ r = q
  BY OtherIs
<1>2. m \in Messages /\ m.type = type
  BY DEF Messages
<1>3. net[p] \in Seq(Messages) /\ net[q] \in Seq(Messages) /\ Once(net[p]) /\ Once(net[q])
  BY <1>1 DEF NetType, OneConfirm, Once
<1>4. type # "RenewConfirm" \/ \A i \in DOMAIN net[q] : net[q][i].type # "RenewConfirm"
  BY DEF Carried
<1> HIDE DEF m, q
<1>5. net'[q] = Append(net[q], m) /\ (net'[p] = net[p] \/ (net[p] # <<>> /\ net'[p] = Tail(net[p])))
  BY <1>1 DEF NetType, Send, Reply, Sends, m, q
<1>6. Once(net'[q])
  BY <1>2, <1>3, <1>4, <1>5, AppendOnce
<1>7. Once(net'[p])
  BY <1>3, <1>5, TailOnce
<1> QED
  BY <1>1, <1>6, <1>7 DEF OneConfirm, Once

\* A confirmation that was handled was the only one.
LEMMA ConfirmTaken ==
    ASSUME NetType, NEW p \in Parties, OneConfirm(p), net[p] # <<>>, Head(net[p]).type = "RenewConfirm",
           Consume(p) \/ Reload(p) \/ \E type, idx : Reply(p, type, idx)
    PROVE  \A m \in Carried(p)' : m.type # "RenewConfirm"
<1>1. net[p] \in Seq(Messages) /\ Once(net[p])
  BY DEF NetType, OneConfirm, Once
<1>2. net'[p] = Tail(net[p]) \/ net'[p] = <<>>
  BY OtherIs DEF NetType, Consume, Reload, Reply
<1>3. \A i \in DOMAIN Tail(net[p]) : Tail(net[p])[i].type # "RenewConfirm"
  BY <1>1, TailOnce
<1>4. \A i \in DOMAIN net'[p] : net'[p][i].type # "RenewConfirm"
  <2>1. DOMAIN <<>> = {}
    OBVIOUS
  <2> QED
    BY <1>2, <1>3, <2>1, Zenon
<1> QED
  BY <1>4 DEF Carried

\* A view is a channel.
LEMMA ViewType ==
    ASSUME StoresOK, NEW p \in Parties
    PROVE  /\ View(p).update_idx \in Nat
           /\ Open(p) => View(p) = channel[p]
<1>1. CASE Open(p)
  BY <1>1 DEF View, StoresOK, ChannelInv, Sound, Channels
<1>2. CASE ~Open(p)
  BY <1>2 DEF View, SignedChannel
<1> QED
  BY <1>1, <1>2

\* What a step of p has to show of the two nodes and of the messages between them.
LEMMA JointFrom ==
    ASSUME NetType, NEW p \in Parties, Live, JointInv, channel'[Other(p)] = channel[Other(p)],
           NEW e, View(p)' = e, Shape(p, e), Together(e, View(Other(p))),
           \A m \in Carried(p)' \cap Messages : Tells(m, View(p), View(Other(p))) => Tells(m, e, View(Other(p))),
           \A m \in Messages : Tells(m, View(Other(p)), View(p)) => Tells(m, View(Other(p)), e),
           \/ Takes(p)
           \/ \E type \in MessageTypes, idx \in Nat :
                 /\ Sends(p, type, idx)
                 /\ Tells([type |-> type, idx |-> idx], View(Other(p)), e)
                 /\ type = "RenewConfirm" => \A m \in Carried(Other(p)) : m.type # "RenewConfirm"
    PROVE  JointInv'
<1> DEFINE q == Other(p)
           d == View(Other(p))
<1>1. q \in Parties /\ q # p /\ Other(q) = p /\ \A r \in Parties : r = p \/ r = q
  BY OtherIs
<1>2. /\ Shape(q, d) /\ \A r \in Parties : OneConfirm(r)
      /\ \A m \in Carried(p) : Tells(m, View(p), d)
      /\ \A m \in Carried(q) : Tells(m, d, View(p))
  BY <1>1 DEF JointInv
<1>3. View(q)' = d
  BY DEF View, Open
<1>4. Together(d, e)
  BY DEF Together
<1>5. Carried(p) \subseteq Messages /\ Carried(q) \subseteq Messages
  <2>1. net[p] \in Seq(Messages) /\ net[q] \in Seq(Messages)
    BY <1>1 DEF NetType
  <2> QED
    BY <2>1 DEF Carried
<1> DEFINE Goal == /\ \A r \in Parties : OneConfirm(r)'
                   /\ \A m \in Carried(p)' : Tells(m, e, d)
                   /\ \A m \in Carried(q)' : Tells(m, d, e)
<1>6. ASSUME Takes(p) PROVE Goal
  <2>1. \A r \in Parties : Carried(r)' \subseteq Carried(r)
    BY <1>6, TakeNet DEF Takes
  <2>2. \A r \in Parties : OneConfirm(r)'
    BY <1>2, <1>6, TakeOnce
  <2> QED
    BY <1>1, <1>2, <1>5, <2>1, <2>2
<1>7. ASSUME NEW type \in MessageTypes, NEW idx \in Nat, Sends(p, type, idx),
             Tells([type |-> type, idx |-> idx], d, e),
             type = "RenewConfirm" => \A m \in Carried(q) : m.type # "RenewConfirm"
      PROVE  Goal
  <2>1. /\ Carried(p)' \subseteq Carried(p)
        /\ Carried(q)' \subseteq Carried(q) \cup {[type |-> type, idx |-> idx]}
    BY <1>7, SendNet DEF Sends
  <2>2. \A r \in Parties : OneConfirm(r)'
    BY <1>2, <1>7, SendOnce
  <2> QED
    BY <1>1, <1>2, <1>5, <1>7, <2>1, <2>2
<1>8. Goal
  BY <1>6, <1>7
<1> HIDE DEF q, d, Goal
<1>9. /\ Shape(p, View(p))' /\ Together(View(p), View(q))'
      /\ Shape(q, View(q))' /\ Together(View(q), View(p))'
  BY <1>2, <1>3, <1>4 DEF d, q
<1>10. /\ \A m \in Carried(p)' : Tells(m, View(p)', View(q)')
       /\ \A m \in Carried(q)' : Tells(m, View(q)', View(p)')
  BY <1>3, <1>8 DEF Goal
<1>11. \A r \in Parties : OneConfirm(r)'
  BY <1>8 DEF Goal
<1>12. Other(p) = q
  BY DEF q
<1>13. \A r \in Parties : /\ Shape(r, View(r))' /\ Together(View(r), View(Other(r)))'
                          /\ OneConfirm(r)' /\ \A m \in Carried(r)' : Tells(m, View(r)', View(Other(r))')
  BY <1>1, <1>9, <1>10, <1>11, <1>12
<1> QED
  BY <1>13 DEF JointInv
\* The facts about the two nodes that every step starts from.
LEMMA JointParts ==
    ASSUME StoresOK, JointInv, Live, NEW p \in Parties
    PROVE  /\ View(p).update_idx \in Nat /\ View(Other(p)).update_idx \in Nat
           /\ Shape(p, View(p)) /\ Shape(Other(p), View(Other(p)))
           /\ Together(View(p), View(Other(p))) /\ OneConfirm(p)
           /\ \A m \in Carried(p) : Tells(m, View(p), View(Other(p)))
           /\ \A m \in Carried(Other(p)) : Tells(m, View(Other(p)), View(p))
<1>1. Other(p) \in Parties /\ Other(Other(p)) = p
  BY OtherIs
<1> QED
  BY <1>1, ViewType DEF JointInv

\* A step that keeps what binds a node, and takes a message or sends one that binds it to nothing.
LEMMA KeepStep ==
    ASSUME NetType, StoresOK, JointInv, Live, NEW p \in Parties, channel'[Other(p)] = channel[Other(p)],
           NEW e, View(p)' = e, Keeps(View(p), e),
           Takes(p) \/ \E type \in Harmless, idx \in Nat : Sends(p, type, idx)
    PROVE  JointInv'
<1>1. /\ Shape(p, e) /\ Together(e, View(Other(p)))
      /\ \A m : Tells(m, View(p), View(Other(p))) => Tells(m, e, View(Other(p)))
      /\ \A m : Tells(m, View(Other(p)), View(p)) => Tells(m, View(Other(p)), e)
  BY JointParts, KeepsJoint
<1>2. Harmless \subseteq MessageTypes
  BY DEF Harmless, MessageTypes
<1>3. ASSUME NEW type \in Harmless, NEW idx \in Nat
      PROVE  Tells([type |-> type, idx |-> idx], View(Other(p)), e) /\ type # "RenewConfirm"
  BY DEF Tells, Harmless
<1> QED
  BY <1>1, <1>2, <1>3, JointFrom

\* The setup: a node counts as one with a new channel before and after it.
LEMMA SetupJoint ==
    ASSUME TypeOK, StoresOK, JointInv, Live, NEW p \in Parties, channel'[Other(p)] = channel[Other(p)],
           channel[p].status \in Setup,
           \/ channel'[p].status \in Setup
           \/ \E flag \in BOOLEAN : StoredAs(p, SignedChannel(flag)),
           Takes(p) \/ \E type \in Harmless, idx \in Nat : Sends(p, type, idx)
    PROVE  JointInv'
<1>1. View(p) = SignedChannel(FALSE)
  BY OpenType DEF View, Open, StoresOK, Setup
<1>2. NetType
  BY DEF TypeOK, NetType
<1>3. ASSUME NEW flag \in BOOLEAN
      PROVE  /\ SignedChannel(flag) \in Channels /\ SignedChannel(flag).update_idx = 0
             /\ SignedChannel(flag).counter_point = 0
             /\ SignedChannel(flag).state.type = "Established"
             /\ SignedChannel(flag).state.tx = BufferTx(0, Offerer)
  BY SetupSound DEF SignedChannel, State, Sound
<1>4. /\ View(p)'.update_idx = 0 /\ View(p)'.counter_point = 0
      /\ View(p)'.state.type = "Established" /\ View(p)'.state.tx = BufferTx(0, Offerer)
  <2>1. CASE channel'[p].status \in Setup
    <3>1. View(p)' = SignedChannel(FALSE)
      BY <2>1 DEF View, Open, Setup
    <3> QED
      BY <3>1, <1>3
  <2>2. ASSUME NEW flag \in BOOLEAN, StoredAs(p, SignedChannel(flag))
        PROVE  /\ View(p)'.update_idx = 0 /\ View(p)'.counter_point = 0
               /\ View(p)'.state.type = "Established" /\ View(p)'.state.tx = BufferTx(0, Offerer)
    <3>1. /\ channel'[p].status = "Signed" /\ channel'[p].state = SignedChannel(flag).state
          /\ channel'[p].update_idx = SignedChannel(flag).update_idx
          /\ channel'[p].counter_point = SignedChannel(flag).counter_point
      BY <2>2, <1>3, StoredParts
    <3>2. View(p)' = channel'[p]
      BY <3>1 DEF View, Open
    <3> QED
      BY <1>3, <3>1, <3>2
  <2> QED
    BY <2>1, <2>2
<1>5. /\ View(p).update_idx = 0 /\ View(p).counter_point = 0
      /\ View(p).state.type = "Established" /\ View(p).state.tx = BufferTx(0, Offerer)
  BY <1>1, <1>3
<1> DEFINE c == View(p)
           e == View(p)'
<1>6. /\ c.update_idx = 0 /\ c.counter_point = 0
      /\ c.state.type = "Established" /\ c.state.tx = BufferTx(0, Offerer)
      /\ e.update_idx = 0 /\ e.counter_point = 0
      /\ e.state.type = "Established" /\ e.state.tx = BufferTx(0, Offerer)
  BY <1>4, <1>5
<1>7. Keeps(c, e)
  <2> HIDE DEF c, e
  <2> QED
    BY <1>6 DEF Keeps, Free, Stable, Base
<1>8. \E f : View(p)' = f /\ Keeps(View(p), f)
  BY <1>7
<1> QED
  BY <1>2, <1>8, KeepStep

\* The proposals, and what undoes them.
LEMMA ProposalJoint ==
    ASSUME TypeOK, StoresOK, JointInv, Live, NEW p \in Parties, channel'[Other(p)] = channel[Other(p)],
           \/ settle_offer(p) \/ renew_offer(p) \/ on_settle_offer(p) \/ on_renew_offer(p)
           \/ reject_settle_offer(p) \/ reject_renew_offer(p) \/ (Open(p) /\ on_reject(p))
    PROVE  JointInv'
<1>1. NetType
  BY DEF TypeOK, NetType
<1>2. Takes(p) \/ \E type \in Harmless, idx \in Nat : Sends(p, type, idx)
  <2>1. {"SettleOffer", "RenewOffer", "Reject"} \subseteq Harmless
    BY DEF Harmless
  <2>2. settle_offer(p) \/ renew_offer(p) => NextIdx(p) \in Nat
    BY InSound DEF settle_offer, renew_offer
  <2>3. 0 \in Nat
    OBVIOUS
  <2> QED
    BY <2>1, <2>2, <2>3, ReceiveMeans DEF settle_offer, renew_offer, on_settle_offer, on_renew_offer,
       reject_settle_offer, reject_renew_offer, on_reject, Takes, Sends
<1>3. Open(p) /\ Sound(channel[p]) /\ View(p) = channel[p]
  <2>1. Open(p)
    BY ProposalMoves, RejectMoves DEF In
  <2> QED
    BY <2>1, ViewType DEF StoresOK, ChannelInv
<1>4. View(p)' = channel'[p]
  BY <1>3, ProposalMoves, RejectMoves DEF View, Open, Restated
<1> DEFINE c == channel[p]
           e == channel'[p]
<1>5. Keeps(c, e)
  <2> HIDE DEF c, e
  <2>1. CASE settle_offer(p) \/ renew_offer(p) \/ on_settle_offer(p) \/ on_renew_offer(p)
    <3>1. \/ /\ c.state.type \in Stable /\ e.roll_back = c.state
             /\ e.update_idx = c.update_idx /\ e.counter_point = c.counter_point
             /\ e.state.type \in Proposed
          \/ c.state.type \in Proposed /\ e = c
      BY <2>1, ProposalMoves DEF c, e, In, Restated
    <3> QED
      BY <3>1 DEF Keeps, Free, Base, Stable, Proposed
  <2>2. CASE reject_settle_offer(p) \/ reject_renew_offer(p) \/ (Open(p) /\ on_reject(p))
    <3>1. /\ c.state.type \in Proposed /\ e.state = c.roll_back /\ c.roll_back.type \in Stable
          /\ e.update_idx = c.update_idx /\ e.counter_point = c.counter_point
      BY <2>2, RejectMoves DEF c, e, In, Restated
    <3> QED
      BY <3>1 DEF Keeps, Free, Base, Stable, Proposed
  <2> QED
    BY <2>1, <2>2
<1>6. \E f : View(p)' = f /\ Keeps(View(p), f)
  BY <1>3, <1>4, <1>5
<1> QED
  BY <1>1, <1>2, <1>6, KeepStep
\* The checks that three handlers make of the secret they receive.
LEMMA ReceivePoint ==
    ASSUME NEW p, NEW type \in {"SettleConfirm", "SettleFinalize", "RenewFinalize"}, Receive(p, type)
    PROVE  Head(net[p]).idx = channel[p].counter_point
BY DEF Receive, Expects, Awaits

\* A node accepts the other's proposal, or its own.
LEMMA AcceptStep ==
    ASSUME TypeOK, StoresOK, JointInv, Live, NEW p \in Parties, channel'[Other(p)] = channel[Other(p)],
           accept_settle_offer(p) \/ accept_renew_offer(p)
    PROVE  JointInv'
<1> DEFINE c == View(p)
           d == View(Other(p))
           e == View(p)'
<1>1. NetType
  BY DEF TypeOK, NetType
<1>2. Open(p) /\ c = channel[p] /\ NextIdx(p) = c.update_idx + 1 /\ c.update_idx \in Nat
  <2>1. In(p, {"SettledReceived", "RenewOffered"})
    BY DEF accept_settle_offer, accept_renew_offer, In
  <2> QED
    BY <2>1, InSound, ViewType DEF In
<1>3. e = channel'[p]
  BY SigningMoves DEF View, Open, Restated
<1>4. /\ c.state.type \in Free /\ e.update_idx = c.update_idx /\ e.counter_point = c.counter_point
      /\ \/ /\ accept_settle_offer(p) /\ e.state.type = "SettledAccepted"
            /\ e.state.tx = SettleTx(c.update_idx + 1, Other(p))
         \/ /\ accept_renew_offer(p) /\ e.state.type = "RenewAccepted"
            /\ e.state.tx = BufferTx(c.update_idx + 1, Other(p))
  <2>1. CASE accept_settle_offer(p)
    <3>1. channel[p].state.type \in Free
      BY <2>1, SigningMoves, FreeTypes DEF In
    <3> QED
      BY <1>2, <1>3, <2>1, <3>1, SigningMoves DEF Restated
  <2>2. CASE accept_renew_offer(p)
    <3>1. channel[p].state.type \in Free
      BY <2>2, SigningMoves, FreeTypes DEF In
    <3> QED
      BY <1>2, <1>3, <2>2, <3>1, SigningMoves DEF Restated
  <2> QED
    BY <2>1, <2>2
<1>5. d.update_idx \in Nat /\ Shape(p, c) /\ Together(c, d)
  BY JointParts
<1> DEFINE type == IF accept_settle_offer(p) THEN "SettleAccept" ELSE "RenewAccept"
<1>6. \E t \in {"SettleAccept", "RenewAccept"} :
         /\ Sends(p, t, c.update_idx + 1)
         /\ t = "SettleAccept" => e.state.type = "SettledAccepted"
         /\ t = "RenewAccept" => e.state.type = "RenewAccepted"
  BY <1>2, <1>4 DEF accept_settle_offer, accept_renew_offer, Sends
<1>7. PICK f : f = e
  OBVIOUS
<1> HIDE DEF c, d, e
<1>8. /\ Shape(p, f) /\ Together(f, d)
      /\ \A m : Tells(m, c, d) => Tells(m, f, d)
      /\ \A m : Tells(m, d, c) => Tells(m, d, f)
  BY <1>2, <1>4, <1>5, <1>7, AcceptJoint
<1>9. \E t \in MessageTypes, idx \in Nat :
         /\ Sends(p, t, idx) /\ Tells([type |-> t, idx |-> idx], d, f) /\ t # "RenewConfirm"
  <2>1. PICK t \in {"SettleAccept", "RenewAccept"} :
           /\ Sends(p, t, c.update_idx + 1)
           /\ t = "SettleAccept" => e.state.type = "SettledAccepted"
           /\ t = "RenewAccept" => e.state.type = "RenewAccepted"
    BY <1>6
  <2>2. Tells([type |-> t, idx |-> c.update_idx + 1], d, f)
    BY <1>2, <1>4, <1>7, <2>1 DEF Tells
  <2>3. t \in MessageTypes /\ c.update_idx + 1 \in Nat
    BY <1>2 DEF MessageTypes
  <2> QED
    BY <2>1, <2>2, <2>3
<1> QED
  BY <1>1, <1>7, <1>8, <1>9, JointFrom DEF c, d, e

\* A node confirms what the other has accepted.
LEMMA ConfirmStep ==
    ASSUME TypeOK, StoresOK, JointInv, Live, NEW p \in Parties, channel'[Other(p)] = channel[Other(p)],
           on_settle_accept(p) \/ on_renew_accept(p)
    PROVE  JointInv'
<1> DEFINE c == View(p)
           d == View(Other(p))
           e == View(p)'
           a == Head(net[p])
<1>1. NetType
  BY DEF TypeOK, NetType
<1>2. /\ Open(p) /\ c = channel[p] /\ NextIdx(p) = c.update_idx + 1 /\ c.update_idx \in Nat
      /\ net[p] # <<>> /\ a.idx = c.update_idx + 1
      /\ on_settle_accept(p) => a.type = "SettleAccept"
      /\ on_renew_accept(p) => a.type = "RenewAccept"
  <2>1. /\ In(p, {"SettledOffered", "RenewOffered"}) /\ net[p] # <<>> /\ Head(net[p]).idx = NextIdx(p)
        /\ on_settle_accept(p) => a.type = "SettleAccept"
        /\ on_renew_accept(p) => a.type = "RenewAccept"
    BY ReceiveMeans DEF on_settle_accept, on_renew_accept, In
  <2> QED
    BY <2>1, InSound, ViewType DEF In
<1>3. e = channel'[p]
  BY SigningMoves DEF View, Open, Restated
<1>4. /\ c.state.type \in Free /\ e.update_idx = c.update_idx /\ e.counter_point = c.counter_point
      /\ \/ /\ on_settle_accept(p) /\ e.state.type = "SettledConfirmed"
            /\ e.state.tx = SettleTx(c.update_idx + 1, p)
         \/ /\ on_renew_accept(p) /\ e.state.type = "RenewConfirmed"
            /\ e.state.tx = BufferTx(c.update_idx + 1, p)
  <2>1. CASE on_settle_accept(p)
    <3>1. channel[p].state.type \in Free
      BY <2>1, SigningMoves, FreeTypes DEF In
    <3> QED
      BY <1>2, <1>3, <2>1, <3>1, SigningMoves DEF Restated
  <2>2. CASE on_renew_accept(p)
    <3>1. channel[p].state.type \in Free
      BY <2>2, SigningMoves, FreeTypes DEF In
    <3> QED
      BY <1>2, <1>3, <2>2, <3>1, SigningMoves DEF Restated
  <2> QED
    BY <2>1, <2>2
<1>5. /\ d.update_idx \in Nat /\ Shape(p, c) /\ Together(c, d) /\ Tells(a, c, d)
      /\ \A m \in Carried(Other(p)) : Tells(m, d, c)
  BY <1>1, <1>2, JointParts, HeadCarried
<1>6. \/ e.state.type = "SettledConfirmed" /\ Sends(p, "SettleConfirm", c.update_idx)
      \/ e.state.type = "RenewConfirmed" /\ a.type = "RenewAccept" /\ Sends(p, "RenewConfirm", c.update_idx + 1)
  BY <1>2, <1>4 DEF on_settle_accept, on_renew_accept, Sends
<1>7. PICK f : f = e
  OBVIOUS
<1> HIDE DEF c, d, e, a
<1>8. /\ Shape(p, f) /\ Together(f, d) /\ d.update_idx = c.update_idx
      /\ a.type = "RenewAccept" => d.state.type = "RenewAccepted"
      /\ \A m : Tells(m, c, d) => Tells(m, f, d)
      /\ \A m : Tells(m, d, c) => Tells(m, d, f) /\ m.type # "RenewConfirm"
  <2>1. /\ f.update_idx = c.update_idx /\ f.counter_point = c.counter_point
        /\ \/ /\ a.type = "SettleAccept"
              /\ f.state.type = "SettledConfirmed" /\ f.state.tx = SettleTx(c.update_idx + 1, p)
           \/ /\ a.type = "RenewAccept"
              /\ f.state.type = "RenewConfirmed" /\ f.state.tx = BufferTx(c.update_idx + 1, p)
    BY <1>2, <1>4, <1>7
  <2>2. /\ c.update_idx \in Nat /\ d.update_idx \in Nat /\ Shape(p, c) /\ Together(c, d)
        /\ c.state.type \in Free /\ Tells(a, c, d) /\ a.idx = c.update_idx + 1
    BY <1>2, <1>4, <1>5
  <2> QED
    BY <2>1, <2>2, ConfirmJoint, Zenon
<1>9. \E t \in MessageTypes, idx \in Nat :
         /\ Sends(p, t, idx) /\ Tells([type |-> t, idx |-> idx], d, f)
         /\ t = "RenewConfirm" => \A m \in Carried(Other(p)) : m.type # "RenewConfirm"
  <2>1. "SettleConfirm" \in MessageTypes /\ "RenewConfirm" \in MessageTypes /\ c.update_idx + 1 \in Nat
    BY <1>2 DEF MessageTypes
  <2>2. CASE e.state.type = "SettledConfirmed" /\ Sends(p, "SettleConfirm", c.update_idx)
    <3>1. Tells([type |-> "SettleConfirm", idx |-> c.update_idx], d, f)
      BY <1>2, <1>4, <1>7, <2>2 DEF Tells
    <3> QED
      BY <1>2, <2>1, <2>2, <3>1
  <2>3. CASE e.state.type = "RenewConfirmed" /\ a.type = "RenewAccept" /\ Sends(p, "RenewConfirm", c.update_idx + 1)
    <3>1. Tells([type |-> "RenewConfirm", idx |-> c.update_idx + 1], d, f)
      BY <1>2, <1>4, <1>7, <1>8, <2>3 DEF Tells
    <3>2. \A m \in Carried(Other(p)) : m.type # "RenewConfirm"
      BY <1>5, <1>8
    <3> QED
      BY <2>1, <2>3, <3>1, <3>2
  <2> QED
    BY <1>6, <2>2, <2>3
<1> QED
  BY <1>1, <1>7, <1>8, <1>9, JointFrom DEF c, d, e

\* A node finalizes a renewal.
LEMMA FinalizeStep ==
    ASSUME TypeOK, StoresOK, JointInv, Live, NEW p \in Parties, channel'[Other(p)] = channel[Other(p)],
           Receive(p, "RenewConfirm"), Finalizes(p),
           Reload(p) \/ Reply(p, "RenewFinalize", channel[p].update_idx)
    PROVE  JointInv'
<1> DEFINE c == View(p)
           d == View(Other(p))
           e == View(p)'
           a == Head(net[p])
<1>1. NetType
  BY DEF TypeOK, NetType
<1>2. Open(p) /\ c = channel[p] /\ c.update_idx \in Nat /\ net[p] # <<>> /\ a.type = "RenewConfirm"
  BY InSound, ViewType, ReceiveMeans DEF In, Finalizes
<1>3. e = channel'[p]
  BY DEF View, Open, Finalizes
<1>4. /\ c.state.type = "RenewAccepted" /\ e.state.type = "RenewFinalized"
      /\ e.state.tx = c.state.tx /\ e.update_idx = c.update_idx
  BY <1>2, <1>3 DEF Finalizes, In
<1>5. /\ d.update_idx \in Nat /\ Shape(p, c) /\ Together(c, d) /\ Tells(a, c, d) /\ OneConfirm(p)
  BY <1>1, <1>2, JointParts, HeadCarried
<1>6. \A m \in Carried(p)' : m.type # "RenewConfirm"
  BY <1>1, <1>2, <1>5, ConfirmTaken
<1>7. PICK f : f = e
  OBVIOUS
<1>8. Takes(p) \/ Sends(p, "RenewFinalize", c.update_idx)
  BY <1>2 DEF Takes, Sends
<1> HIDE DEF c, d, e, a
<1>9. /\ Shape(p, f) /\ Together(f, d)
      /\ \A m : Tells(m, c, d) /\ m.type # "RenewConfirm" => Tells(m, f, d)
      /\ \A m : Tells(m, d, c) => Tells(m, d, f)
  BY <1>2, <1>4, <1>5, <1>7, FinalizeJoint
<1>10. "RenewFinalize" \in MessageTypes /\ Tells([type |-> "RenewFinalize", idx |-> c.update_idx], d, f)
  BY <1>2, <1>4, <1>7 DEF Tells, MessageTypes
<1>11. \/ Takes(p)
       \/ \E t \in MessageTypes, idx \in Nat :
            /\ Sends(p, t, idx) /\ Tells([type |-> t, idx |-> idx], d, f) /\ t # "RenewConfirm"
  BY <1>2, <1>8, <1>10
<1> QED
  BY <1>1, <1>6, <1>7, <1>9, <1>11, JointFrom DEF c, d, e
\* A node is the first to complete an update: it answers, or ends before it does.
LEMMA FirstStep ==
    ASSUME TypeOK, StoresOK, JointInv, Live, NEW p \in Parties, channel'[Other(p)] = channel[Other(p)],
           \/ /\ Receive(p, "SettleConfirm") /\ Arrives(p, "SettledAccepted", "Settled")
              /\ Reload(p) \/ Reply(p, "SettleFinalize", channel[p].update_idx)
           \/ /\ Receive(p, "RenewFinalize") /\ Arrives(p, "RenewConfirmed", "Established")
              /\ Reload(p) \/ Reply(p, "RenewRevoke", channel[p].update_idx)
    PROVE  JointInv'
<1> DEFINE c == View(p)
           d == View(Other(p))
           e == View(p)'
           a == Head(net[p])
<1>1. NetType
  BY DEF TypeOK, NetType
<1>2. /\ Open(p) /\ c = channel[p] /\ c.update_idx \in Nat /\ net[p] # <<>> /\ a.idx = c.counter_point
      /\ Receive(p, "SettleConfirm") => a.type = "SettleConfirm"
      /\ Receive(p, "RenewFinalize") => a.type = "RenewFinalize"
  BY InSound, ViewType, ReceiveMeans, ReceivePoint DEF In, Arrives
<1>3. e = channel'[p]
  BY DEF View, Open, Arrives
<1>4. /\ e.update_idx = c.update_idx + 1 /\ e.counter_point = c.update_idx + 1 /\ e.state.tx = c.state.tx
      /\ \/ a.type = "SettleConfirm" /\ c.state.type = "SettledAccepted" /\ e.state.type = "Settled"
         \/ a.type = "RenewFinalize" /\ c.state.type = "RenewConfirmed" /\ e.state.type = "Established"
  BY <1>2, <1>3 DEF Arrives, In
<1>5. /\ d.update_idx \in Nat /\ Shape(p, c) /\ Shape(Other(p), d) /\ Together(c, d) /\ Tells(a, c, d)
  BY <1>1, <1>2, JointParts, HeadCarried
<1>6. Takes(p) \/ \E t \in {"SettleFinalize", "RenewRevoke"} : Sends(p, t, c.update_idx)
  BY <1>2 DEF Takes, Sends
<1>7. PICK f : f = e
  OBVIOUS
<1> HIDE DEF c, d, e, a
<1>8. /\ Shape(p, f) /\ Together(f, d)
      /\ \A m : Tells(m, c, d) => Tells(m, f, d)
      /\ \A m : m.idx \in Nat /\ Tells(m, d, c) => Tells(m, d, f)
  <2>1. /\ f.update_idx = c.update_idx + 1 /\ f.counter_point = c.update_idx + 1 /\ f.state.tx = c.state.tx
        /\ \/ a.type = "SettleConfirm" /\ c.state.type = "SettledAccepted" /\ f.state.type = "Settled"
           \/ a.type = "RenewFinalize" /\ c.state.type = "RenewConfirmed" /\ f.state.type = "Established"
    BY <1>4, <1>7
  <2> QED
    BY <1>2, <1>5, <2>1, FirstJoint, Zenon
<1>9. \A m \in Messages : Tells(m, d, c) => Tells(m, d, f)
  BY <1>8 DEF Messages
<1>10. ASSUME NEW t \in {"SettleFinalize", "RenewRevoke"}
       PROVE  t \in MessageTypes /\ Tells([type |-> t, idx |-> c.update_idx], d, f) /\ t # "RenewConfirm"
  BY <1>2, <1>4, <1>7 DEF Tells, MessageTypes
<1>11. \/ Takes(p)
       \/ \E t \in MessageTypes, idx \in Nat :
            /\ Sends(p, t, idx) /\ Tells([type |-> t, idx |-> idx], d, f) /\ t # "RenewConfirm"
  BY <1>2, <1>6, <1>10
<1> QED
  BY <1>1, <1>7, <1>8, <1>9, <1>11, JointFrom DEF c, d, e

\* The other node completes it.
LEMMA SecondStep ==
    ASSUME TypeOK, StoresOK, JointInv, Live, NEW p \in Parties, channel'[Other(p)] = channel[Other(p)],
           \/ Receive(p, "SettleFinalize") /\ Arrives(p, "SettledConfirmed", "Settled")
           \/ Receive(p, "RenewRevoke") /\ Arrives(p, "RenewFinalized", "Established"),
           Reload(p) \/ Consume(p)
    PROVE  JointInv'
<1> DEFINE c == View(p)
           d == View(Other(p))
           e == View(p)'
           a == Head(net[p])
<1>1. NetType
  BY DEF TypeOK, NetType
<1>2. /\ Open(p) /\ c = channel[p] /\ c.update_idx \in Nat /\ net[p] # <<>>
      /\ Receive(p, "SettleFinalize") => a.type = "SettleFinalize" /\ a.idx = c.counter_point
      /\ Receive(p, "RenewRevoke") => a.type = "RenewRevoke" /\ a.idx = c.update_idx
  BY InSound, ViewType, ReceiveMeans, ReceivePoint DEF In, Arrives
<1>3. e = channel'[p]
  BY DEF View, Open, Arrives
<1>4. /\ e.update_idx = c.update_idx + 1 /\ e.counter_point = c.update_idx + 1 /\ e.state.tx = c.state.tx
      /\ \/ /\ a.type = "SettleFinalize" /\ a.idx = c.counter_point
            /\ c.state.type = "SettledConfirmed" /\ e.state.type = "Settled"
         \/ /\ a.type = "RenewRevoke" /\ a.idx = c.update_idx
            /\ c.state.type = "RenewFinalized" /\ e.state.type = "Established"
  BY <1>2, <1>3 DEF Arrives, In
<1>5. /\ d.update_idx \in Nat /\ Shape(p, c) /\ Together(c, d) /\ Tells(a, c, d)
  BY <1>1, <1>2, JointParts, HeadCarried
<1>6. Takes(p)
  BY <1>2 DEF Takes
<1>7. PICK f : f = e
  OBVIOUS
<1> HIDE DEF c, d, e, a
<1>8. /\ Shape(p, f) /\ Together(f, d)
      /\ \A m : Tells(m, c, d) => Tells(m, f, d)
      /\ \A m : m.idx \in Nat /\ Tells(m, d, c) => Tells(m, d, f)
  <2>1. /\ f.update_idx = c.update_idx + 1 /\ f.counter_point = c.update_idx + 1 /\ f.state.tx = c.state.tx
        /\ \/ a.type = "SettleFinalize" /\ c.state.type = "SettledConfirmed" /\ f.state.type = "Settled"
           \/ a.type = "RenewRevoke" /\ c.state.type = "RenewFinalized" /\ f.state.type = "Established"
    BY <1>4, <1>7
  <2>2. a.idx = c.update_idx
    BY <1>4, <1>5 DEF Shape
  <2> QED
    BY <1>2, <1>5, <2>1, <2>2, SecondJoint, Zenon
<1>9. \A m \in Messages : Tells(m, d, c) => Tells(m, d, f)
  BY <1>8 DEF Messages
<1> QED
  BY <1>1, <1>6, <1>7, <1>8, <1>9, JointFrom DEF c, d, e

\* A node that has begun to close does not turn back.
LEMMA LiveBefore ==
    ASSUME NEW p \in Parties, StepOf(p), Live'
    PROVE  Live /\ ~Closes(p) /\ channel'[Other(p)] = channel[Other(p)]
<1>1. \A q \in Parties \ {p} : channel'[q] = channel[q]
  BY DEF StepOf, Frame
<1>2. channel'[p].status \in Setup \/ (channel'[p].status = "Signed" /\ channel'[p].state.type \notin Ending)
  BY DEF Live, Open
<1>3. ~Closes(p)
  <2>1. ~OffersClose(p) /\ ~SeesBuffer(p) /\ ~Forces(p)
    BY <1>2 DEF OffersClose, SeesBuffer, Forces, Open, Ending, Setup
  <2>2. ~Ends(p)
    BY <1>2 DEF Ends, Gone, Setup
  <2> QED
    BY <2>1, <2>2 DEF Closes
<1>4. Rests(p) \/ SetsUp(p) \/ Works(p)
  BY <1>3 DEF StepOf, Closes
<1>5. channel[p].status \in Setup \/ (Open(p) /\ channel[p].state.type \notin Ending)
  BY <1>2, <1>4 DEF Rests, SetsUp, Works, Open
<1>6. \A q \in Parties \ {p} : channel[q].status \in Setup \/ (Open(q) /\ channel[q].state.type \notin Ending)
  BY <1>1 DEF Live, Open
<1>7. Live
  BY <1>5, <1>6 DEF Live
<1>8. Other(p) \in Parties \ {p}
  BY OtherIs
<1> QED
  BY <1>1, <1>3, <1>7, <1>8

\* A step that leaves both channels as they were.
LEMMA RestJoint ==
    ASSUME TypeOK, StoresOK, JointInv, Live, NEW p \in Parties, UNCHANGED channel, Takes(p)
    PROVE  JointInv'
<1>1. NetType /\ channel'[Other(p)] = channel[Other(p)]
  BY DEF TypeOK, NetType
<1>2. View(p)' = View(p)
  BY DEF View, Open
<1>3. Keeps(View(p), View(p))
  BY DEF Keeps
<1>4. \E e : View(p)' = e /\ Keeps(View(p), e)
  BY <1>2, <1>3
<1> QED
  BY <1>1, <1>4, KeepStep

\* The calls and handlers of the setup.
LEMMA SetupCalls ==
    ASSUME TypeOK, StoresOK, JointInv, Live, NEW p \in Parties, channel'[Other(p)] = channel[Other(p)],
           \/ offer_channel(p) \/ accept_channel(p) \/ reject_channel(p) \/ on_offer_channel(p)
           \/ on_accept_channel(p) \/ on_sign_channel(p) \/ (~Open(p) /\ on_reject(p))
    PROVE  JointInv'
<1>1. channel[p].status \in Setup
  BY ReceiveMeans DEF offer_channel, accept_channel, reject_channel, on_offer_channel,
     on_accept_channel, on_sign_channel, on_reject, Setup
<1>2. \/ \E status \in {"Offered", "Accepted", "Cancelled", "FailedAccept", "FailedSign"} : Become(p, status)
      \/ \E flag \in BOOLEAN : Store(p, SignedChannel(flag))
      \/ UNCHANGED channel
  BY DEF offer_channel, accept_channel, reject_channel, on_offer_channel, on_accept_channel,
     on_sign_channel, on_reject, verify_and_sign_accepted_channel, verify_signed_channel
<1>3. channel'[p].status \in Setup \/ \E flag \in BOOLEAN : StoredAs(p, SignedChannel(flag))
  BY <1>1, <1>2, WatchStep DEF StoredAs, Setup
<1>4. Takes(p) \/ \E type \in Harmless, idx \in Nat : Sends(p, type, idx)
  <2>1. {"OfferChannel", "AcceptChannel", "SignChannel", "Reject"} \subseteq Harmless /\ 0 \in Nat
    BY DEF Harmless
  <2>2. Validity \subseteq Nat
    BY DEF Validity
  <2>3. ASSUME NEW type, Receive(p, type) PROVE net[p] # <<>>
    BY <2>3 DEF Receive
  <2> QED
    BY <2>1, <2>2, <2>3 DEF offer_channel, accept_channel, reject_channel, on_offer_channel,
       on_accept_channel, on_sign_channel, on_reject, Takes, Sends
<1> QED
  BY <1>1, <1>3, <1>4, SetupJoint

\* The handlers that complete an update, and those that end inside one.
LEMMA FinishJoint ==
    ASSUME TypeOK, StoresOK, JointInv, Live, NEW p \in Parties, channel'[Other(p)] = channel[Other(p)],
           \/ on_settle_confirm(p) \/ on_settle_finalize(p) \/ on_renew_confirm(p)
           \/ on_renew_finalize(p) \/ on_renew_revoke(p) \/ CrashAfterStore(p)
    PROVE  JointInv'
<1>1. CASE on_settle_confirm(p)
  BY <1>1, FinishMoves, FirstStep DEF on_settle_confirm, StoredAs
<1>2. CASE on_settle_finalize(p)
  BY <1>2, FinishMoves, SecondStep DEF on_settle_finalize, StoredAs
<1>3. CASE on_renew_confirm(p)
  BY <1>3, FinishMoves, FinalizeStep DEF on_renew_confirm, StoredAs
<1>4. CASE on_renew_finalize(p)
  BY <1>4, FinishMoves, FirstStep DEF on_renew_finalize, StoredAs
<1>5. CASE on_renew_revoke(p)
  BY <1>5, FinishMoves, SecondStep DEF on_renew_revoke, StoredAs
<1>6. CASE CrashAfterStore(p)
  <2>1. Reload(p)
    BY <1>6 DEF CrashAfterStore
  <2>2. Takes(p)
    BY <2>1 DEF Takes
  <2> QED
    BY <1>6, <2>1, <2>2, CrashMoves, SetupJoint, FirstStep, SecondStep, FinalizeStep
<1> QED
  BY <1>1, <1>2, <1>3, <1>4, <1>5, <1>6

\* Every step keeps the two nodes together.
LEMMA JointStep ==
    ASSUME TypeOK, StoresOK, JointInv, [Next]_vars
    PROVE  JointInv'
<1>1. CASE UNCHANGED vars
  BY <1>1 DEF vars, JointInv, Live, View, Open, OneConfirm, Carried
<1>2. CASE Next
  <2>1. PICK p \in Parties :
          \/ Calls(p) \/ Answers(p) \/ on_dlc_message(p) \/ channel_checks(p)
          \/ Restart(p) \/ CrashAfterSend(p) \/ CrashAfterStore(p) \/ Lose(p)
          \/ CrashInCall(p) \/ check_signed_contracts(p)
    BY <1>2, Zenon DEF Next
  <2> SUFFICES ASSUME Live' PROVE JointInv'
    BY DEF JointInv
  <2>2. ASSUME StepOf(p) PROVE Live /\ ~Closes(p) /\ channel'[Other(p)] = channel[Other(p)]
    BY <2>2, LiveBefore
  <2>3. ASSUME \/ Ignore(p) \/ Lose(p) \/ Restart(p) \/ check_for_watched_tx(p) \/ CrashAfterSend(p)
               \/ check_signed_contracts(p) \/ fail_settlement(p)
        PROVE  JointInv'
    <3>1. UNCHANGED channel /\ Takes(p)
      BY <2>3 DEF Ignore, Lose, Restart, check_for_watched_tx, CrashAfterSend, check_signed_contracts,
         fail_settlement, UnconfirmedSettlement, Takes
    <3> QED
      BY <2>2, <2>3, <3>1, RestingSteps, FailSteps, RestJoint
  <2>4. ASSUME \/ offer_channel(p) \/ accept_channel(p) \/ reject_channel(p) \/ on_offer_channel(p)
               \/ on_accept_channel(p) \/ on_sign_channel(p) \/ (~Open(p) /\ on_reject(p))
        PROVE  JointInv'
    BY <2>2, <2>4, SetupSteps, SetupEnds, SetupCalls
  <2>5. ASSUME \/ settle_offer(p) \/ renew_offer(p) \/ on_settle_offer(p) \/ on_renew_offer(p)
               \/ reject_settle_offer(p) \/ reject_renew_offer(p) \/ (Open(p) /\ on_reject(p))
        PROVE  JointInv'
    BY <2>2, <2>5, ProposalSteps, ProposalJoint
  <2>6. ASSUME accept_settle_offer(p) \/ accept_renew_offer(p) PROVE JointInv'
    BY <2>2, <2>6, ProposalSteps, AcceptStep
  <2>7. ASSUME on_settle_accept(p) \/ on_renew_accept(p) PROVE JointInv'
    BY <2>2, <2>7, ProposalSteps, ConfirmStep
  <2>8. ASSUME \/ on_settle_confirm(p) \/ on_settle_finalize(p) \/ on_renew_confirm(p)
               \/ on_renew_finalize(p) \/ on_renew_revoke(p) \/ CrashAfterStore(p)
        PROVE  JointInv'
    BY <2>2, <2>8, FinishSteps, SetupEnds, FinishJoint
  <2>9. ASSUME \/ force_close_channel(p) \/ check_for_timed_out_channels(p)
               \/ offer_collaborative_close(p) \/ on_collaborative_close_offer(p)
               \/ accept_collaborative_close(p)
               \/ try_finalize_closing_established_channel(p) \/ process_watched_txs(p)
               \/ CrashInCall(p)
        PROVE  FALSE
    BY <2>2, <2>9, ForceSteps, CloseSteps, ChainSteps, CallSteps
  <2> QED
    BY <2>1, <2>3, <2>4, <2>5, <2>6, <2>7, <2>8, <2>9
    DEF Calls, Answers, on_dlc_message, channel_checks
<1> QED
  BY <1>1, <1>2

\* Two nodes in stable states are in the same one.
LEMMA StableFromJoint ==
    ASSUME StoresOK, JointInv
    PROVE  StableTogether
<1> SUFFICES ASSUME \A p \in Parties : In(p, Stable), NEW p \in Parties, NEW q \in Parties
             PROVE  /\ channel[p].update_idx = channel[q].update_idx
                    /\ channel[p].state.type = channel[q].state.type
                    /\ channel[p].state.tx = channel[q].state.tx
  BY DEF StableTogether
<1>1. Live
  BY DEF Live, In, Stable, Ending
<1>2. \A r \in Parties : View(r) = channel[r] /\ channel[r].state.type \in Stable
  BY DEF View, In
<1>3. q = p \/ q = Other(p)
  BY OtherIs
<1>4. CASE q = Other(p)
  <2>1. Together(channel[p], channel[q])
    BY <1>1, <1>2, <1>4 DEF JointInv
  <2>2. Abreast(channel[p], channel[q])
    BY <1>2, <2>1 DEF Together, Behind, Stable
  <2> QED
    BY <1>2, <2>2 DEF Abreast, Free, Base
<1> QED
  BY <1>3, <1>4

\* The two nodes of every channel, in every environment: no order of crossing offers, rejects,
\* lost messages, restarts and rollbacks leaves one settled and the other established, or the two
\* in stable states of different updates.
THEOREM StableStatesAgree == Spec => []StableTogether
<1>1. Init => JointInv
  <2> SUFFICES ASSUME Init PROVE JointInv
    OBVIOUS
  <2>1. \A p \in Parties : View(p) = SignedChannel(FALSE) /\ net[p] = <<>>
    BY DEF Init, View, Open
  <2>2. \A p \in Parties : Carried(p) = {} /\ OneConfirm(p)
    <3>1. DOMAIN <<>> = {}
      OBVIOUS
    <3>2. \A p \in Parties : DOMAIN net[p] = {}
      BY <2>1, <3>1, Zenon
    <3> QED
      BY <3>2 DEF Carried, OneConfirm
  <2> DEFINE c == SignedChannel(FALSE)
  <2>3. c.state.type = "Established" /\ c.update_idx = 0 /\ c.counter_point = 0
    BY DEF SignedChannel, State
  <2> HIDE DEF c
  <2>4. \A p \in Parties : Shape(p, c)
    BY <2>3 DEF Shape
  <2>5. Together(c, c)
    BY <2>3 DEF Together, Abreast
  <2>6. \A p \in Parties : Other(p) \in Parties
    BY OtherIs
  <2> QED
    BY <2>1, <2>2, <2>4, <2>5, <2>6 DEF JointInv, c
<1>2. TypeOK /\ StoresOK /\ JointInv /\ [Next]_vars => JointInv'
  BY JointStep
<1>3. StoresOK /\ JointInv => StableTogether
  BY StableFromJoint
<1> QED
  BY <1>1, <1>2, <1>3, ChannelsAreSound, PTL DEF Spec
=============================================================================
