------------------------------ MODULE Segments ------------------------------
(***************************************************************************)
(* The message handler (dlc-messages/src/message_handler.rs) and the       *)
(* segmentation of long messages (dlc-messages/src/segmentation).  A       *)
(* message whose body is longer than MAX_BUF_SIZE leaves as a SegmentStart *)
(* and SegmentChunks; the receiver keeps one SegmentReader for each peer   *)
(* and puts the message together again.  The handler is called by the      *)
(* CLI's threads and by the LDK's peer manager, which is external: it      *)
(* takes the whole queue at once, keeps the order on a connection, loses   *)
(* what was in flight when the connection ends, disconnects a peer when    *)
(* the handler returns an error, and cannot carry more than MAX_DATA_SIZE  *)
(* bytes.                                                                  *)
(*                                                                         *)
(* A byte is represented by where it comes from: a piece of data is the    *)
(* bytes lo..hi of the message sent[msg], the two bytes of its type first. *)
(***************************************************************************)
EXTENDS Integers, Sequences, FiniteSets

CONSTANTS
    Nodes,
    Routes,              \* the pairs <<n, p>> such that n sends messages to p
    Messages,            \* what may be sent: [kind, size], size the length of the encoded body
    MaxSends,            \* bound: the number of messages sent in a behaviour
    MAX_DATA_SIZE,       \* the longest message the transport carries (65535)
    MAX_SEGMENTS         \* the most segments a reader accepts (1000)

ASSUME SizesAssumption ==
    /\ MaxSends \in Nat
    /\ MAX_DATA_SIZE \in Nat /\ MAX_DATA_SIZE > 18
    /\ MAX_SEGMENTS \in Nat /\ MAX_SEGMENTS >= 2
    /\ Messages \subseteq [kind : STRING, size : Nat]
    /\ Routes \subseteq Nodes \X Nodes

VARIABLES
    sent,                \* every message given to send_message, in order: the ghost of the run
    msg_events,          \* MessageHandler.msg_events of each node
    msg_received,        \* MessageHandler.msg_received of each node
    segment_readers,     \* MessageHandler.segment_readers of each node
    links,               \* the peers that are connected, as sets {n, p}
    wire,                \* wire[n][p]: what travels from n to p
    taken,               \* what the program of each node took from its handler
    panicked,            \* the nodes whose program has panicked
    blamed               \* the messages that made a handler fail or a program panic

vars == << sent, msg_events, msg_received, segment_readers, links, wire, taken, panicked, blamed >>

-----------------------------------------------------------------------------
(* Sizes.                                                                  *)

MAX_START_DATA_SIZE == MAX_DATA_SIZE - 9
MAX_CHUNK_SIZE == MAX_DATA_SIZE - 7

\* The limit of the lightning crate's serialisation, 64 * 1024.
MAX_BUF_SIZE == MAX_DATA_SIZE + 1

\* RenewRevoke is the one kind of message that read_dlc_message does not know.
IsRead(kind) == kind # "RenewRevoke"

Size(piece) == piece.hi - piece.lo + 1

\* The bytes of a wire message: a segment has a type, a length prefix and a start its nb_segments.
WireSize(w) ==
    Size(w) + (CASE w.type = "Message" -> 0
                 [] w.type = "SegmentStart" -> 2 + 5 + 2
                 [] w.type = "SegmentChunk" -> 2 + 5)

-----------------------------------------------------------------------------
(* Segmentation.                                                           *)

WireMessage(i, size) == [type |-> "Message", msg |-> i, lo |-> 1, hi |-> size + 2, nb |-> 0]

\* A bug: the remainder is always counted as a segment of its own.
nb_segments_rounded(size) == (size - MAX_START_DATA_SIZE + 2) \div MAX_CHUNK_SIZE + 2

\* How many segments a body of size bytes is split into.
nb_segments(size) ==
    LET len_minus_start == size - MAX_START_DATA_SIZE + 2
    IN  len_minus_start \div MAX_CHUNK_SIZE + 1
            + (IF len_minus_start % MAX_CHUNK_SIZE # 0 THEN 1 ELSE 0)

get_segments(i, size) ==
    LET nb == nb_segments(size)
        Chunk(k) ==
            LET lo == MAX_START_DATA_SIZE + (k - 1) * MAX_CHUNK_SIZE + 1
                end == lo + MAX_CHUNK_SIZE - 1
            IN  [type |-> "SegmentChunk", msg |-> i, lo |-> lo,
                 hi |-> IF end > size + 2 THEN size + 2 ELSE end, nb |-> 0]
    IN  << [type |-> "SegmentStart", msg |-> i, lo |-> 1, hi |-> MAX_START_DATA_SIZE, nb |-> nb] >>
            \o [k \in 1..(nb - 1) |-> Chunk(k)]

-----------------------------------------------------------------------------
(* SegmentReader.                                                          *)

NewReader == [cur_data |-> <<>>, remaining_segments |-> 0]

expecting_chunk(reader) == reader.remaining_segments # 0

\* What a handler leaves behind: the reader, the messages it delivers and how it ended.
Handled(reader, msgs, result) == [reader |-> reader, msgs |-> msgs, result |-> result]

\* A bug: the start is not counted among the segments received.
process_segment_start_uncounted(reader, s) ==
    IF reader.cur_data # <<>> \/ s.nb < 2 \/ s.nb > MAX_SEGMENTS
    THEN Handled(reader, <<>>, "Err")
    ELSE Handled([cur_data |-> <<s>>, remaining_segments |-> s.nb], <<>>, "Ok")

process_segment_start(reader, s) ==
    IF \/ reader.cur_data # <<>>
       \/ s.nb < 2 \/ s.nb > MAX_SEGMENTS
       \/ Size(s) < MAX_START_DATA_SIZE
    THEN Handled(reader, <<>>, "Err")
    ELSE Handled([cur_data |-> <<s>>, remaining_segments |-> s.nb - 1], <<>>, "Ok")

\* The message that the pieces make up, as read from the bytes: 0 when they are not one message.
Reconstructed(data) ==
    LET i == data[1].msg
    IN  IF /\ data[1].lo = 1
           /\ data[Len(data)].hi = sent[i].size + 2
           /\ \A k \in 2..Len(data) : data[k].msg = i /\ data[k].lo = data[k - 1].hi + 1
        THEN i
        ELSE 0

process_segment_chunk(reader, s) ==
    LET data == Append(reader.cur_data, s)
        i == Reconstructed(data)
    IN  IF \/ reader.cur_data = <<>>
           \/ reader.remaining_segments > 1 /\ Size(s) # MAX_CHUNK_SIZE
        THEN Handled(reader, <<>>, "Err")
        ELSE IF reader.remaining_segments > 1
        THEN Handled([cur_data |-> data, remaining_segments |-> reader.remaining_segments - 1],
                     <<>>, "Ok")
        ELSE IF i = 0
        THEN Handled(NewReader, <<>>, "Err")
        ELSE IF ~IsRead(sent[i].kind)
        THEN Handled(NewReader, <<>>, "Panic")
        ELSE Handled(NewReader, <<i>>, "Ok")

-----------------------------------------------------------------------------
(* MessageHandler.                                                         *)

\* The second match of handle_custom_message: no chunk is expected any more.
HandleUnsegmented(reader, w) ==
    CASE w.type = "Message" -> Handled(reader, <<w.msg>>, "Ok")
      [] w.type = "SegmentStart" -> process_segment_start(reader, w)
      [] w.type = "SegmentChunk" -> Handled(reader, <<>>, "Err")

\* A bug: the message that interrupts a segmented one is dropped with it.
handle_custom_message_swallow(reader, w) ==
    IF expecting_chunk(reader)
    THEN IF w.type = "SegmentChunk"
         THEN process_segment_chunk(reader, w)
         ELSE IF w.type = "SegmentStart"
         THEN process_segment_start(NewReader, w)
         ELSE Handled(NewReader, <<>>, "Ok")
    ELSE HandleUnsegmented(reader, w)

handle_custom_message(reader, w) ==
    IF expecting_chunk(reader)
    THEN IF w.type = "SegmentChunk"
         THEN process_segment_chunk(reader, w)
         ELSE HandleUnsegmented(NewReader, w)
    ELSE HandleUnsegmented(reader, w)

\* What the message i of size bytes travels as.
Parts(i, size) == IF size > MAX_BUF_SIZE THEN get_segments(i, size) ELSE << WireMessage(i, size) >>

\* A bug: a message that needs no segments goes ahead of those that do.
EnqueuedShortFirst(queue, p, i, size) ==
    LET entries == [k \in 1..Len(Parts(i, size)) |-> << p, Parts(i, size)[k] >>]
    IN  IF size > MAX_BUF_SIZE THEN queue \o entries ELSE entries \o queue

\* The queue after send_message: all the segments go in under one lock.
Enqueued(queue, p, i, size) ==
    queue \o [k \in 1..Len(Parts(i, size)) |-> << p, Parts(i, size)[k] >>]

send_message(n, p, m) ==
    /\ n \notin panicked
    /\ Len(sent) < MaxSends
    /\ sent' = Append(sent, [from |-> n, to |-> p, kind |-> m.kind, size |-> m.size])
    /\ msg_events' = [msg_events EXCEPT ![n] = Enqueued(@, p, Len(sent) + 1, m.size)]
    /\ UNCHANGED << msg_received, segment_readers, links, wire, taken, panicked, blamed >>

get_and_clear_received_messages(n) ==
    /\ n \notin panicked
    /\ msg_received[n] # <<>>
    /\ taken' = [taken EXCEPT ![n] = @ \o msg_received[n]]
    /\ msg_received' = [msg_received EXCEPT ![n] = <<>>]
    /\ UNCHANGED << sent, msg_events, segment_readers, links, wire, panicked, blamed >>

-----------------------------------------------------------------------------
(* The peer manager.                                                       *)

\* The streams when the connections in cut have ended.
CutOff(cut) == [n \in Nodes |-> [p \in Nodes |-> IF {n, p} \in cut THEN <<>> ELSE wire[n][p]]]

LinksOf(n) == {l \in links : n \in l}

\* The program of n panics over the message i: its connections end.
Panic(n, i) ==
    /\ panicked' = panicked \cup {n}
    /\ blamed' = blamed \cup {i}
    /\ links' = links \ LinksOf(n)
    /\ wire' = CutOff(LinksOf(n))

\* What of a queue is for p, in its order: the entry number k of them is the one with k - 1 before it.
For(queue, p) ==
    LET mine == {j \in DOMAIN queue : queue[j][1] = p}
        Place(k) == CHOOSE j \in mine : Cardinality({i \in mine : i <= j}) = k
    IN  [k \in 1..Cardinality(mine) |-> queue[Place(k)][2]]

\* The entries that a connected peer is to get and that are too long to encrypt.
TooLong(n) == {k \in DOMAIN msg_events[n] : /\ {n, msg_events[n][k][1]} \in links
                                            /\ WireSize(msg_events[n][k][2]) > MAX_DATA_SIZE}

\* process_events: get_and_clear_pending_msg empties the queue; what is for a peer that is not
\* connected is dropped.
process_events(n) ==
    /\ n \notin panicked
    /\ msg_events[n] # <<>>
    /\ msg_events' = [msg_events EXCEPT ![n] = <<>>]
    /\ \/ \E k \in TooLong(n) :
             /\ \A j \in TooLong(n) : k <= j
             /\ Panic(n, msg_events[n][k][2].msg)
       \/ /\ TooLong(n) = {}
          /\ wire' = [wire EXCEPT ![n] = [p \in Nodes |->
                IF {n, p} \in links THEN @[p] \o For(msg_events[n], p) ELSE @[p]]]
          /\ UNCHANGED << links, panicked, blamed >>
    /\ UNCHANGED << sent, msg_received, segment_readers, taken >>

\* n gets the next message that p sent.  A type that read does not know is an error for the peer
\* manager before the handler sees it (it is even), and an error of the handler disconnects p.
Receive(n, p) ==
    /\ n \notin panicked
    /\ wire[p][n] # <<>>
    /\ LET w == Head(wire[p][n])
           h == IF w.type = "Message" /\ ~IsRead(sent[w.msg].kind)
                THEN Handled(segment_readers[n][p], <<>>, "Err")
                ELSE handle_custom_message(segment_readers[n][p], w)
       IN  /\ segment_readers' = [segment_readers EXCEPT ![n][p] = h.reader]
           /\ msg_received' = [msg_received EXCEPT ![n] =
                                  @ \o [k \in 1..Len(h.msgs) |-> << p, h.msgs[k] >>]]
           /\ CASE h.result = "Ok" ->
                     /\ wire' = [wire EXCEPT ![p][n] = Tail(@)]
                     /\ UNCHANGED << links, panicked, blamed >>
                [] h.result = "Err" ->
                     /\ links' = links \ {{n, p}}
                     /\ wire' = CutOff({{n, p}})
                     /\ blamed' = blamed \cup {w.msg}
                     /\ UNCHANGED panicked
                [] h.result = "Panic" -> Panic(n, w.msg)
    /\ UNCHANGED << sent, msg_events, taken >>

\* peer_connected and peer_disconnected do nothing: the reader of a peer outlives the connection.
peer_connected(n, p) ==
    /\ n # p /\ {n, p} \cap panicked = {}
    /\ {n, p} \notin links
    /\ links' = links \cup {{n, p}}
    /\ UNCHANGED << sent, msg_events, msg_received, segment_readers, wire, taken, panicked,
                    blamed >>

peer_disconnected(n, p) ==
    /\ {n, p} \in links
    /\ links' = links \ {{n, p}}
    /\ wire' = CutOff({{n, p}})
    /\ UNCHANGED << sent, msg_events, msg_received, segment_readers, taken, panicked, blamed >>

\* The program of n ends, or has panicked, and starts again with a new handler.
Restart(n) ==
    /\ msg_events' = [msg_events EXCEPT ![n] = <<>>]
    /\ msg_received' = [msg_received EXCEPT ![n] = <<>>]
    /\ segment_readers' = [segment_readers EXCEPT ![n] = [p \in Nodes |-> NewReader]]
    /\ links' = links \ LinksOf(n)
    /\ wire' = CutOff(LinksOf(n))
    /\ panicked' = panicked \ {n}
    /\ UNCHANGED << sent, taken, blamed >>

-----------------------------------------------------------------------------
Init ==
    /\ sent = <<>>
    /\ msg_events = [n \in Nodes |-> <<>>]
    /\ msg_received = [n \in Nodes |-> <<>>]
    /\ segment_readers = [n \in Nodes |-> [p \in Nodes |-> NewReader]]
    /\ links = {}
    /\ wire = [n \in Nodes |-> [p \in Nodes |-> <<>>]]
    /\ taken = [n \in Nodes |-> <<>>]
    /\ panicked = {}
    /\ blamed = {}

Next ==
    \/ \E r \in Routes, m \in Messages : send_message(r[1], r[2], m)
    \/ \E n \in Nodes : get_and_clear_received_messages(n)
    \/ \E n \in Nodes : process_events(n)
    \/ \E n, p \in Nodes : Receive(n, p)
    \/ \E n, p \in Nodes : peer_connected(n, p)
    \/ \E n, p \in Nodes : peer_disconnected(n, p)
    \/ \E n \in Nodes : Restart(n)

Spec == Init /\ [][Next]_vars

\* The CLI calls process_events after every send_message and takes the received messages in a
\* loop, and the peer manager reads as long as there is something to read.
FairSpec ==
    /\ Spec
    /\ \A n \in Nodes :
          /\ WF_vars(process_events(n))
          /\ WF_vars(get_and_clear_received_messages(n))
    /\ \A n, p \in Nodes : WF_vars(Receive(n, p))

-----------------------------------------------------------------------------
(* Properties.                                                             *)

Pieces == [type : {"Message", "SegmentStart", "SegmentChunk"}, msg : 1..MaxSends,
           lo : Nat, hi : Nat, nb : Nat]

\* The type of the state: a queue holds wire messages for nodes, a reader waits for fewer
\* segments than MAX_SEGMENTS, and there is nothing in flight between peers that are not connected
\* (message_handler.rs, segment_reader.rs).
TypeOK ==
    /\ \A i \in DOMAIN sent : << sent[i].from, sent[i].to >> \in Routes
    /\ \A n \in Nodes :
          /\ \A k \in DOMAIN msg_events[n] : msg_events[n][k] \in Nodes \X Pieces
          /\ \A k \in DOMAIN msg_received[n] : msg_received[n][k] \in Nodes \X DOMAIN sent
          /\ \A k \in DOMAIN taken[n] : taken[n][k] \in Nodes \X DOMAIN sent
    /\ \A n, p \in Nodes :
          /\ segment_readers[n][p].remaining_segments \in 0..(MAX_SEGMENTS - 1)
          /\ \A k \in DOMAIN segment_readers[n][p].cur_data :
                segment_readers[n][p].cur_data[k] \in Pieces
          /\ \A k \in DOMAIN wire[n][p] : wire[n][p][k] \in Pieces
          /\ wire[n][p] # <<>> => {n, p} \in links
    /\ links \subseteq {{l[1], l[2]} : l \in {l \in Nodes \X Nodes : l[1] # l[2]}}
    /\ panicked \subseteq Nodes
    /\ blamed \subseteq DOMAIN sent

\* Everything n's handler has delivered.
Delivered(n) == taken[n] \o msg_received[n]

\* What a handler delivers as a message of a peer is a message that peer sent to this node, and the
\* messages of one peer come in the order in which they were given to send_message, none twice:
\* whatever was interleaved in the queue, cut off half way or left in a reader by a connection that
\* ended (handle_custom_message).
ReceivedAsSent ==
    \A n \in Nodes :
        /\ \A e \in {Delivered(n)[k] : k \in DOMAIN Delivered(n)} :
              sent[e[2]].from = e[1] /\ sent[e[2]].to = n
        /\ \A j, k \in DOMAIN Delivered(n) :
              j < k /\ Delivered(n)[j][1] = Delivered(n)[k][1]
                  => Delivered(n)[j][2] < Delivered(n)[k][2]

\* A message that cannot be delivered: read does not know it, it has more segments than a
\* reader accepts, or with its type it is too long for the transport and still not segmented.
Undeliverable(m) ==
    \/ ~IsRead(m.kind)
    \/ m.size + 2 > MAX_START_DATA_SIZE + (MAX_SEGMENTS - 1) * MAX_CHUNK_SIZE
    \/ m.size + 2 > MAX_DATA_SIZE /\ m.size <= MAX_BUF_SIZE

\* Only an undeliverable message makes a handler fail: what a connection that ended has left in a
\* reader, or a queue shared by several peers, never costs a peer its connection (the errors of
\* process_segment_start, process_segment_chunk and handle_custom_message).
OnlyUndeliverableFails == \A i \in blamed : Undeliverable(sent[i])

\* i waits to be sent, and its receiver is connected.
Waiting(i) ==
    /\ i \in DOMAIN sent
    /\ {sent[i].from, sent[i].to} \in links
    /\ \E k \in DOMAIN msg_events[sent[i].from] : msg_events[sent[i].from][k][2].msg = i

Settled(i) ==
    /\ i \in DOMAIN sent
    /\ \/ {sent[i].from, sent[i].to} \notin links
       \/ \E k \in DOMAIN taken[sent[i].to] : taken[sent[i].to][k] = << sent[i].from, i >>

\* A message queued for a connected peer reaches the peer's program, unless the connection ends
\* (send_message, process_events, handle_custom_message, get_and_clear_received_messages).
DeliveredWhileConnected == \A i \in 1..MaxSends : Waiting(i) ~> Settled(i)
=============================================================================
