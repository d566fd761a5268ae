---------------------------- MODULE MessageQueue ----------------------------
(***************************************************************************)
(* The queue of messages on their way out of a connection                  *)
(* (MessageQueue.cc, NetworkMessage.cc).  A queue is the sequence of cells *)
(* it has still to write: <<m, j>> is the j-th cell of message m, and      *)
(* Entry::so_far is what the head has lost.  A cell stands for a run of    *)
(* bytes; fill_buffer and fill_iovecs may stop between any two.            *)
(***************************************************************************)
EXTENDS Integers, Sequences, SequencesExt

CONSTANT MsgLen(_)    \* the cells of a message

Whole(m) == [j \in 1..MsgLen(m) |-> <<m, j>>]

Messages(q) == {q[i][1] : i \in DOMAIN q}
Started(q) == q # <<>> /\ Head(q)[2] > 1

\* enqueue, at the back (NORMAL) and at the front (FRONT)
EnqueueBack(q, m) == q \o Whole(m)
EnqueueFront(q, m) == Whole(m) \o q

\* the first n cells leave: iovecs_written_bytes, fill_buffer
Taken(q, n) == SubSeq(q, 1, n)
MutLeft(q, n) == SubSeq(q, n + 2, Len(q))       \* a slip: off by one
Left(q, n) == SubSeq(q, n + 1, Len(q))

\* clear_queue: a head that is partly written stays, so the peer gets it whole
ClearQueue(q) ==
  IF Started(q) THEN SelectSeq(q, LAMBDA cell : cell[1] = Head(q)[1]) ELSE <<>>

\* reset_head: on a new connection the head is written again from its start
ResetHead(q) ==
  IF Started(q) THEN [j \in 1..(Head(q)[2] - 1) |-> <<Head(q)[1], j>>] \o q ELSE q

\* a stream of cells in which every message is whole, but for the last
InWhole(out) ==
  \A i \in DOMAIN out :
    LET m == out[i][1]
        j == out[i][2]
    IN IF j > 1
       THEN i > 1 /\ out[i - 1] = <<m, j - 1>>
       ELSE i > 1 => out[i - 1][2] = MsgLen(out[i - 1][1])
=============================================================================
