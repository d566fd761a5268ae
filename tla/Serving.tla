------------------------------ MODULE Serving ------------------------------
(***************************************************************************)
(* The select loop every server of MOSS runs (serv_main, moss_serv.cc),    *)
(* with the sockets it has accepted and the connections it reads from and  *)
(* writes to.  The loop is shown as the backend runs it: it listens, the   *)
(* type byte of a new connection is the first of its first message, and a  *)
(* message it reads may be answered on every connection at once.           *)
(*                                                                         *)
(* Data is counted in cells.  A client's stream is a sequence of messages  *)
(* and its cells are numbered through; a message says its length in its    *)
(* first cell.  select() counts the descriptors it returns so that the     *)
(* loop may stop early; it serves what is left in its next turn, and the   *)
(* model serves all that is ready.                                         *)
(***************************************************************************)
EXTENDS Integers, Sequences, FiniteSets, FiniteSetsExt, SequencesExt

CONSTANTS
  Client,
  NoOne,            \* a free slot, accepted_fds[i] = -1
  Slots,            \* ACCEPTING_FDS
  Leaver,           \* bound: those that may close their end
  Deaf,             \* those that do not read
  SOCKBUF,          \* cells the socket of a client that does not read takes
  Stream,           \* the lengths of the messages each client has to send
  BUFSIZE,          \* cells of a read buffer
  WBUFSIZE,         \* cells of a write buffer
  ReplyLen,         \* cells of a reply
  Encrypted,        \* connections that are
  ACCEPTING_TIMEOUT,
  Horizon           \* bound: the time runs up to it, and sockets are accepted
                    \* while there is time to time them out

ASSUME ServingAssumption ==
  /\ IsFiniteSet(Client) /\ NoOne \notin Client
  /\ Stream \in [Client -> Seq(Nat \ {0})]
  /\ Slots \in Nat \ {0} /\ BUFSIZE \in Nat \ {0} /\ WBUFSIZE \in Nat \ {0}
  /\ SOCKBUF \in Nat /\ ReplyLen \in Nat \ {0} /\ ACCEPTING_TIMEOUT \in Nat /\ Horizon \in Nat

MsgLen(m) == ReplyLen
INSTANCE MessageQueue

VARIABLES
  clock,
  slot, due, used,  \* accepted_fds, fd_timeouts (0 for a free slot), fds_used
  life,             \* where a client's connection is
  sent, seen,       \* cells the client wrote, and those the server read
  hung,             \* clients that closed their end
  buf,              \* m_readbuf or m_bigbuf up to m_read_fill
  big,              \* the length of m_bigbuf, 0 when there is none
  heard,            \* the messages message_read was given
  queue,            \* m_msg_queue
  refs,             \* the reference count of each message that is queued
  wbuf,             \* m_writebuf up to m_write_fill
  out,              \* the cells written to the socket
  pc, ready, todo,  \* the turn of the loop
  stopping          \* m_in_shutdown set; shutdown_reason set

peers == <<sent, hung>>
vars == <<clock, slot, due, used, life, sent, seen, hung, buf, big, heard, queue,
          refs, wbuf, out, pc, ready, todo, stopping>>
slots == <<slot, due, used>>
reading == <<seen, buf, big, heard>>
writing == <<queue, refs, wbuf, out>>

\* the lives of a connection
AWAY == "away"          \* the client has not connected
BACKLOG == "backlog"    \* connect()ed, not accepted
ACCEPTED == "accepted"  \* in a slot
OPEN == "open"          \* in m_conns
DRAINING == "draining"  \* in m_conns, m_in_shutdown
GONE == "gone"

NoneReady == [listen |-> FALSE, read |-> {}, write |-> {}]
Conns == {c \in Client : life[c] \in {OPEN, DRAINING}}
InSlot == {c \in Client : life[c] = ACCEPTED}
Stopped == stopping = "begun"

\* the cells of a client's stream: <<k, j>> is the j-th of its message k
CellsOf ==
  [c \in Client |-> FlattenSeq([k \in DOMAIN Stream[c] |-> [j \in 1..Stream[c][k] |-> <<k, j>>]])]
Cells(c) == CellsOf[c]
HasData(c) == sent[c] > seen[c]
Readable(c) == HasData(c) \/ c \in hung

-----------------------------------------------------------------------------
\* The clients, the clock and other threads.  They are shown while the loop
\* waits in select(): later in a turn they could only add to what is ready.
Connect(c) ==
  /\ pc = "top" /\ life[c] = AWAY
  /\ life' = [life EXCEPT ![c] = BACKLOG]
  /\ UNCHANGED <<clock, slots, peers, reading, writing, pc, ready, todo, stopping>>

\* all at once: the reads cut it anywhere
Send(c) ==
  /\ pc = "top" /\ life[c] \notin {AWAY, GONE} /\ sent[c] < Len(Cells(c))
  /\ sent' = [sent EXCEPT ![c] = Len(Cells(c))]
  /\ UNCHANGED <<clock, slots, life, hung, reading, writing, pc, ready, todo, stopping>>

HangUp(c) ==
  /\ pc = "top" /\ life[c] \notin {AWAY, GONE} /\ c \in Leaver \ hung /\ sent[c] = Len(Cells(c))
  /\ hung' = hung \cup {c}
  /\ UNCHANGED <<clock, slots, life, sent, reading, writing, pc, ready, todo, stopping>>

RequestShutdown ==
  /\ pc = "top" /\ stopping = "no" /\ stopping' = "asked"
  /\ UNCHANGED <<clock, slots, life, peers, reading, writing, pc, ready, todo>>

Tick ==
  /\ pc = "top" /\ clock < Horizon /\ clock' = clock + 1
  /\ UNCHANGED <<slots, life, peers, reading, writing, pc, ready, todo, stopping>>

-----------------------------------------------------------------------------
\* Top of a turn.  Connections that are draining go once nothing of them is
\* left to write; the others are looked at for select().
MutDrained == {c \in Client : life[c] = DRAINING /\ queue[c] = <<>>}   \* a slip
Drained == {c \in Client : life[c] = DRAINING /\ queue[c] = <<>> /\ wbuf[c] = <<>>}
LifeAtTop == [c \in Client |-> IF c \in Drained THEN GONE ELSE life[c]]
Room(c) == (IF big[c] # 0 THEN big[c] ELSE BUFSIZE) - Len(buf[c])
ToRead(begun) == InSlot \cup {c \in Client : ~begun /\ life[c] = OPEN /\ Room(c) > 0}
MutToWrite == Conns                     \* a slip: those with nothing to write too
ToWrite == {c \in Conns : queue[c] # <<>> \/ wbuf[c] # <<>>}
\* the socket of c takes n cells more
Takes(c, n) == c \in Deaf => Len(out[c]) + n <= SOCKBUF
Writable == {c \in ToWrite : c \in hung \/ Takes(c, 1)}
Waiting(begun) ==
  ~begun /\ clock + ACCEPTING_TIMEOUT < Horizon /\ \E c \in Client : life[c] = BACKLOG

Prepare(begun) ==
  /\ pc = "top"
  /\ stopping' = IF begun THEN "begun" ELSE stopping
  /\ begun = (stopping # "no")

\* select() returns: some descriptor is ready
Select ==
  LET begun == stopping # "no"
      r == {c \in ToRead(begun) : Readable(c)}
  IN /\ Prepare(begun)
     /\ Waiting(begun) \/ r # {} \/ Writable # {}
     /\ ready' = [listen |-> Waiting(begun), read |-> r, write |-> Writable]
     /\ life' = LifeAtTop
     /\ pc' = "accept"
     /\ UNCHANGED <<clock, slots, peers, reading, writing, todo>>

\* all that is left when it shuts down is written: a client that does not read
\* keeps the loop in select(), which nothing but its socket ends
Quit ==
  /\ Prepare(TRUE)
  /\ InSlot = {} /\ ToWrite = {}
  /\ life' = LifeAtTop
  /\ pc' = "done"
  /\ UNCHANGED <<clock, slots, peers, reading, writing, ready, todo>>

Occupied == {i \in 1..Slots : slot[i] # NoOne}
MutOverdue == {}                        \* a slip: slots are left out of the timeout
Overdue == {i \in Occupied : due[i] < clock}

\* select() returns 0.  The scan of the slots does not advance: it looks at the
\* first slot as often as there are sockets accepted, and for ever when that
\* slot is free.
TimeOut ==
  LET begun == stopping # "no"
      first == 1 \in Overdue
  IN /\ Prepare(begun)
     /\ ~Waiting(begun) /\ Writable = {} /\ \A c \in ToRead(begun) : ~Readable(c)
     /\ Overdue # {}
     /\ IF first
        THEN /\ slot' = [slot EXCEPT ![1] = NoOne] /\ due' = [due EXCEPT ![1] = 0]
             /\ used' = used - 1
             /\ life' = [LifeAtTop EXCEPT ![slot[1]] = GONE]
             /\ pc' = IF used > 1 THEN "spin" ELSE "top"
        ELSE /\ life' = LifeAtTop /\ UNCHANGED slots
             /\ pc' = IF slot[1] = NoOne THEN "spin" ELSE "top"
     /\ UNCHANGED <<clock, peers, reading, writing, ready, todo>>

-----------------------------------------------------------------------------
\* accept().  A socket goes into the first free slot; when there is none, those
\* that have waited for half their time are closed, or else one that has waited
\* longer than the slot before it, or else the first.
Aged == {i \in 1..Slots : due[i] < clock + ACCEPTING_TIMEOUT \div 2}
OutOfOrder == {i \in 2..Slots : due[i] < due[i - 1]}
Ejected ==
  IF Occupied # 1..Slots THEN {}
  ELSE IF Aged # {} THEN Aged
  ELSE IF OutOfOrder # {} THEN {Min(OutOfOrder)} ELSE {1}
Chosen == IF Ejected # {} THEN Max(Ejected) ELSE Min(1..Slots \ Occupied)

UsedAfter == used + 1 - Cardinality(Ejected)

Accept(c) ==
  /\ pc = "accept" /\ ready.listen /\ life[c] = BACKLOG
  /\ slot' = [i \in 1..Slots |-> IF i = Chosen THEN c
                                 ELSE IF i \in Ejected THEN NoOne ELSE slot[i]]
  /\ due' = [i \in 1..Slots |-> IF i = Chosen THEN clock + ACCEPTING_TIMEOUT
                                ELSE IF i \in Ejected THEN 0 ELSE due[i]]
  /\ used' = UsedAfter
  /\ life' = [d \in Client |-> IF d = c THEN ACCEPTED
                               ELSE IF \E i \in Ejected : slot[i] = d THEN GONE ELSE life[d]]
  /\ pc' = "types"
  /\ UNCHANGED <<clock, peers, reading, writing, ready, todo, stopping>>

NothingToAccept ==
  /\ pc = "accept" /\ ~ready.listen
  /\ pc' = "types"
  /\ UNCHANGED <<clock, slots, life, peers, reading, writing, ready, todo, stopping>>

\* what is to do for a connection, and for all of them in m_conns' order
ToDoFor(c) ==
  (IF c \in ready.read THEN <<<<c, "read">>>> ELSE <<>>) \o
  (IF c \in ready.write THEN <<<<c, "write">>>> ELSE <<>>)
InTurn(conns) ==
  LET order == SetToSeq(conns) IN FlattenSeq([i \in DOMAIN order |-> ToDoFor(order[i])])

\* The sockets that have sent their type byte become connections, whose read
\* buffer starts with it (BackendServer::add_client_conn); those that ended
\* before are closed.
ReadTypes ==
  LET done == ready.read \cap InSlot
      born == {c \in done : HasData(c)}
  IN /\ pc = "types"
     /\ slot' = [i \in 1..Slots |-> IF slot[i] \in done THEN NoOne ELSE slot[i]]
     /\ due' = [i \in 1..Slots |-> IF slot[i] \in done THEN 0 ELSE due[i]]
     /\ used' = used - Cardinality(done)
     /\ life' = [c \in Client |-> IF c \in born THEN OPEN
                                  ELSE IF c \in done THEN GONE ELSE life[c]]
     /\ seen' = [c \in Client |-> IF c \in born THEN 1 ELSE seen[c]]
     /\ buf' = [c \in Client |-> IF c \in born THEN <<Cells(c)[1]>> ELSE buf[c]]
     /\ todo' = InTurn({c \in ready.read \cup ready.write : life'[c] \in {OPEN, DRAINING}})
     /\ pc' = "serve"
     /\ UNCHANGED <<clock, peers, big, heard, writing, ready, stopping>>

-----------------------------------------------------------------------------
\* A connection's turn: it is read, then written.

\* A message says its length in its first cell.
Claimed(c, cell) == IF cell[2] = 1 THEN Stream[c][cell[1]] ELSE 1

\* make_if_enough makes a message of what is behind off
Enough(c, b, off) == off < Len(b) /\ off + Claimed(c, b[off + 1]) <= Len(b)

\* m_read_off after each message of b
ReadOff(c, b) ==
  LET off[i \in 0..Len(b)] ==
        CASE i = 0 -> 0
          [] i > 0 /\ Enough(c, b, off[i - 1]) -> off[i - 1] + Claimed(c, b[off[i - 1] + 1])
          [] OTHER -> off[i - 1]
  IN off

MutRest(b, n) == b                      \* a slip: what was used is not moved out
Rest(b, n) == SubSeq(b, n + 1, Len(b))

\* the message at the front of what is left is longer than a read buffer: it
\* gets a buffer of its own length
BigAfter(c, rest) ==
  IF rest # <<>> /\ Claimed(c, rest[1]) > BUFSIZE THEN Claimed(c, rest[1]) ELSE 0

\* replies to the messages of c go to every connection, c's own included
Replied(to, replies) ==
  [d \in Client |-> IF d \in to THEN FoldLeft(EnqueueBack, queue[d], replies) ELSE queue[d]]
Holders(q, m) == Cardinality({d \in Client : m \in Messages(q[d])})

\* ~MessageQueue: every message of the queue is given up
Forget(refd, gone) ==
  [m \in DOMAIN refd |-> refd[m] - IF m \in Messages(gone) THEN 1 ELSE 0]

\* conn_shutdown of the backend deletes the connection
Delete(c) ==
  /\ life' = [life EXCEPT ![c] = GONE]
  /\ queue' = [queue EXCEPT ![c] = <<>>]
  /\ refs' = Forget(refs, queue[c])
  /\ buf' = [buf EXCEPT ![c] = <<>>] /\ big' = [big EXCEPT ![c] = 0]
  /\ heard' = [heard EXCEPT ![c] = <<>>]
  /\ wbuf' = [wbuf EXCEPT ![c] = <<>>] /\ out' = [out EXCEPT ![c] = <<>>]

\* the rest of the turn when c is deleted
WithoutConn(c) == RemoveFirst(Tail(todo), <<c, "write">>)

\* the peer closed, and all it sent was read
ReadEnd(c) ==
  /\ pc = "serve" /\ todo # <<>> /\ Head(todo) = <<c, "read">> /\ ~HasData(c)
  /\ IF c \in hung
     THEN Delete(c) /\ todo' = WithoutConn(c)
     ELSE todo' = Tail(todo) /\ UNCHANGED <<life, buf, big, heard, writing>>     \* EAGAIN
  /\ UNCHANGED <<clock, slots, peers, seen, pc, ready, stopping>>

\* n cells are read; the whole messages are handled one by one.  The handler of
\* the last one may end the connection (how = "delete") or have it drain.
Read(c, n, h, how) ==
  LET b == buf[c] \o SubSeq(Cells(c), seen[c] + 1, seen[c] + n)
      off == ReadOff(c, b)
      msgs == [i \in 1..h |-> SubSeq(b, off[i - 1] + 1, off[i])]
      rest == Rest(b, off[h])
      replies == [i \in 1..h |-> <<c, msgs[i][1][1]>>]
      to == {d \in Client : life[d] = OPEN}
      q == Replied(to, replies)
  IN /\ pc = "serve" /\ todo # <<>> /\ Head(todo) = <<c, "read">> /\ HasData(c)
     /\ n \in 1..(sent[c] - seen[c]) /\ n <= Room(c)
     /\ h <= Len(b) /\ \A i \in 1..h : Enough(c, b, off[i - 1])
     /\ (how = "go on" => ~Enough(c, b, off[h])) /\ (how # "go on" => h > 0)
     /\ seen' = [seen EXCEPT ![c] = @ + n]
     /\ LET counted == [m \in DOMAIN refs |-> IF m \in Range(replies) THEN Cardinality(to) ELSE refs[m]]
        IN IF how = "delete"
           THEN /\ life' = [life EXCEPT ![c] = GONE]
                /\ queue' = [q EXCEPT ![c] = <<>>]
                /\ refs' = Forget(counted, q[c])
                /\ buf' = [buf EXCEPT ![c] = <<>>] /\ big' = [big EXCEPT ![c] = 0]
                /\ heard' = [heard EXCEPT ![c] = <<>>]
                /\ wbuf' = [wbuf EXCEPT ![c] = <<>>] /\ out' = [out EXCEPT ![c] = <<>>]
           ELSE /\ queue' = q /\ refs' = counted
                /\ buf' = [buf EXCEPT ![c] = rest]
                /\ big' = [big EXCEPT ![c] = BigAfter(c, rest)]
                /\ heard' = [heard EXCEPT ![c] = @ \o msgs]
                /\ UNCHANGED <<wbuf, out>>
                /\ life' = IF how = "drain" THEN [life EXCEPT ![c] = DRAINING] ELSE life
     /\ todo' = IF Stopped THEN <<>>
                ELSE IF how = "delete" THEN WithoutConn(c)
                ELSE Tail(todo)
     /\ UNCHANGED <<clock, slots, peers, pc, ready, stopping>>

\* References given up by the messages whose last cell left the queue.
MutDone(q, n) == {q[i][1] : i \in 1..n}         \* a slip: half a message counts
DoneWith(q, n) == {q[i][1] : i \in {j \in 1..n : q[j][2] = MsgLen(q[j][1])}}
Unref(ms) == [m \in DOMAIN refs |-> refs[m] - IF m \in ms THEN 1 ELSE 0]

\* The queue is written to the socket, which takes n cells of it.
WritePlain(c, n) ==
  /\ pc = "serve" /\ todo # <<>> /\ Head(todo) = <<c, "write">> /\ c \notin Encrypted
  /\ n \in 1..Len(queue[c]) /\ Takes(c, n)
  /\ out' = [out EXCEPT ![c] = @ \o Taken(queue[c], n)]
  /\ queue' = [queue EXCEPT ![c] = Left(queue[c], n)]
  /\ refs' = Unref(DoneWith(queue[c], n))
  /\ todo' = Tail(todo)
  /\ UNCHANGED <<clock, slots, life, peers, reading, wbuf, pc, ready, stopping>>

\* The queue is copied to the write buffer as far as it fits, and encrypted
\* there; the socket takes n cells of the buffer.
WriteEncrypted(c, n) ==
  LET fit == Min({WBUFSIZE - Len(wbuf[c]), Len(queue[c])})
      full == wbuf[c] \o Taken(queue[c], fit)
  IN /\ pc = "serve" /\ todo # <<>> /\ Head(todo) = <<c, "write">> /\ c \in Encrypted
     /\ n \in 1..Len(full) /\ Takes(c, n)
     /\ out' = [out EXCEPT ![c] = @ \o SubSeq(full, 1, n)]
     /\ wbuf' = [wbuf EXCEPT ![c] = SubSeq(full, n + 1, Len(full))]
     /\ queue' = [queue EXCEPT ![c] = Left(queue[c], fit)]
     /\ refs' = Unref(DoneWith(queue[c], fit))
     /\ todo' = Tail(todo)
     /\ UNCHANGED <<clock, slots, life, peers, reading, pc, ready, stopping>>

\* the peer is gone: EPIPE
WriteFails(c) ==
  /\ pc = "serve" /\ todo # <<>> /\ Head(todo) = <<c, "write">> /\ c \in hung
  /\ Delete(c)
  /\ todo' = Tail(todo)
  /\ UNCHANGED <<clock, slots, peers, seen, pc, ready, stopping>>

EndOfTurn ==
  /\ pc = "serve" /\ todo = <<>>
  /\ pc' = "top"
  /\ ready' = NoneReady
  /\ UNCHANGED <<clock, slots, life, peers, reading, writing, todo, stopping>>

-----------------------------------------------------------------------------
Init ==
  /\ clock = 0
  /\ slot = [i \in 1..Slots |-> NoOne] /\ due = [i \in 1..Slots |-> 0] /\ used = 0
  /\ life = [c \in Client |-> AWAY]
  /\ sent = [c \in Client |-> 0] /\ seen = [c \in Client |-> 0] /\ hung = {}
  /\ buf = [c \in Client |-> <<>>] /\ big = [c \in Client |-> 0]
  /\ heard = [c \in Client |-> <<>>]
  /\ queue = [c \in Client |-> <<>>]
  /\ refs = [m \in UNION {{c} \X DOMAIN Stream[c] : c \in Client} |-> 0]
  /\ wbuf = [c \in Client |-> <<>>] /\ out = [c \in Client |-> <<>>]
  /\ pc = "top" /\ ready = NoneReady /\ todo = <<>>
  /\ stopping = "no"

Serve ==
  \E c \in Client :
    \/ ReadEnd(c)
    \/ \E n \in 1..BUFSIZE + 1, h \in 0..BUFSIZE, how \in {"go on", "delete", "drain"} :
         Read(c, n, h, how)
    \/ \E n \in 1..Len(queue[c]) : WritePlain(c, n)
    \/ \E n \in 1..WBUFSIZE : WriteEncrypted(c, n)
    \/ WriteFails(c)

Loop ==
  \/ Select \/ TimeOut \/ Quit
  \/ \E c \in Client : Accept(c)
  \/ NothingToAccept \/ ReadTypes
  \/ Serve \/ EndOfTurn

Next ==
  \/ Loop
  \/ \E c \in Client : Connect(c) \/ Send(c) \/ HangUp(c)
  \/ RequestShutdown
  \/ Tick

Spec == Init /\ [][Next]_vars

\* the thread runs and the clock moves; what clients send they send in time
FairSpec == Spec /\ WF_vars(Loop) /\ WF_vars(Tick)

-----------------------------------------------------------------------------
\* message_read is given each message a client sent, whole, once and in order,
\* however the reads cut the stream, and across the change to a buffer of its own.
MessagesAreFramed ==
  \A c \in Client :
    /\ \A i \in DOMAIN heard[c] : heard[c][i] = [j \in 1..Stream[c][i] |-> <<i, j>>]
    /\ life[c] \in {OPEN, DRAINING} =>
         FlattenSeq(heard[c]) \o buf[c] = SubSeq(Cells(c), 1, seen[c])

\* What is written to a client, what waits in the write buffer and what is
\* queued is a sequence of whole messages, however the writes cut it.
RepliesAreWhole == \A c \in Conns : InWhole(out[c] \o wbuf[c] \o queue[c])

\* A message that is queued on several connections is referred to by exactly the
\* queues that hold it: none is freed under a queue, none is kept for ever.
RefsCounted == \A m \in DOMAIN refs : refs[m] = Holders(queue, m)

\* A connection that a handler ended with set_in_shutdown goes with everything
\* that was queued for it written.
GoesInFull ==
  \A c \in Client : life[c] = DRAINING /\ life'[c] = GONE /\ c \notin hung =>
    queue[c] = <<>> /\ wbuf[c] = <<>>
DrainedInFull == [][GoesInFull]_vars

\* Once it is asked to shut down, the loop writes what is queued and ends, if
\* the clients it writes to read in the end or go: the loop has no time-out for
\* one that does neither.  The scan of the slots may take for ever.
ShutdownEnds ==
  <>[](ToWrite = Writable) => (stopping # "no" ~> pc \in {"done", "spin"})

\* No socket keeps its slot: it sends its type byte, or it is closed; unless the
\* scan takes for ever.
SlotIsFreed ==
  \A c \in Client : life[c] = ACCEPTED ~> life[c] # ACCEPTED \/ pc = "spin"

\* "no data came in the timeout interval" (moss_serv.cc, 763): a scan for
\* timeouts closes those sockets and the loop goes on.
ScanEnds == pc # "spin"
=============================================================================
