----------------------------- MODULE FileServer -----------------------------
(***************************************************************************)
(* A file server (FileServer.cc, FileTransaction.cc, FileMessage.cc): one  *)
(* client, the files it asks for, and their chunks, each of which the      *)
(* client acknowledges before the next is sent.                            *)
(*                                                                         *)
(* A queued reply holds its header and refers to its transaction for the   *)
(* data, which it takes from wherever the transaction stands when it is    *)
(* written.  A header is one cell, so is the length in front of a manifest *)
(* entry; the two null bytes behind a chunk of a manifest are two cells.   *)
(***************************************************************************)
EXTENDS Integers, Sequences, FiniteSets, FiniteSetsExt, SequencesExt, Functions

CONSTANTS
  Request,        \* the request ids of the client
  Kind,           \* what each asks for: "download", "manifest", "missing" (a
                  \* file that is not there), "refused" (a name with ..), "ping"
  Size,           \* the cells of the file of a download
  Entries,        \* the lengths of the entries of a manifest
  FILE_CHUNKSIZE,
  Alone,          \* bound: nothing else is asked for while a manifest is
  Split           \* bound: whether a write may stop between the two null bytes

\* a manifest has entries, of which each fits in a chunk
ASSUME FilesAssumption ==
  /\ Kind \in [Request -> {"download", "manifest", "missing", "refused", "ping"}]
  /\ Size \in [Request -> Nat] /\ Entries \in [Request -> Seq(Nat \ {0})]
  /\ FILE_CHUNKSIZE \in Nat \ {0}
  /\ \A r \in Request : Kind[r] = "manifest" =>
       Entries[r] # <<>> /\ \A e \in DOMAIN Entries[r] : Entries[r][e] <= FILE_CHUNKSIZE
  /\ Alone \in BOOLEAN /\ Split \in BOOLEAN

VARIABLES
  pending,        \* m_pending_transactions, in order
  msg_queue,      \* m_msg_queue
  open,           \* the connection
  up,             \* the client's messages on their way
  inbox,          \* the cells the client has not made a message of
  asked,          \* the requests it made
  got,            \* the positions of each file it was given
  garbled         \* it was given a message that is none

fileVars == <<pending, msg_queue, open, up, inbox, asked, got, garbled>>

-----------------------------------------------------------------------------
\* FileTransaction.  offset and the positions count cells of the file; the file
\* of a manifest starts with a cell for the count of its entries.
Before(r, e) ==
  LET to[i \in 1..e] == IF i = 1 THEN 1 ELSE to[i - 1] + Entries[r][i - 1] + 1
  IN to[e]
FileSize(r) ==
  CASE Kind[r] = "download" -> Size[r]
    [] Kind[r] = "manifest" -> Before(r, Len(Entries[r]) + 1)
    [] OTHER -> 0
MutComplete(r, offset) == offset + 1 >= FileSize(r)     \* a slip: off by one
Complete(r, offset) == offset >= FileSize(r)

\* the entries of the chunk that starts at offset: as many as fit
FitsFrom(r, offset) ==
  LET first == CHOOSE e \in 1..Len(Entries[r]) : Before(r, e) = offset
      limit == Min({FILE_CHUNKSIZE, FileSize(r) - offset})
  IN first..Max({first - 1} \cup
                {e \in first..Len(Entries[r]) : SumFunctionOnSet(Entries[r], first..e) <= limit})

\* chunk_acked: the positions of the data of the chunk at offset, and where the
\* next one starts
ManifestChunk(r, offset) ==
  LET es == FitsFrom(r, offset)
  IN [data |-> FlattenSeq([i \in 1..Cardinality(es) |->
                 LET e == Min(es) + i - 1
                 IN [j \in 1..Entries[r][e] |-> Before(r, e) + 1 + j]]),
      next |-> Before(r, Max(es) + 1)]
PlainChunk(r, offset) ==
  LET n == Min({FILE_CHUNKSIZE, FileSize(r) - offset})
  IN [data |-> [j \in 1..n |-> offset + j], next |-> offset + n]
Starts(r) ==
  IF Kind[r] = "manifest" THEN {Before(r, e) : e \in DOMAIN Entries[r]}
  ELSE 0..(FileSize(r) - 1)
ChunkAt ==
  [r \in Request |-> [offset \in Starts(r) \cup {FileSize(r)} |->
     IF Complete(r, offset) THEN [data |-> <<>>, next |-> offset]
     ELSE IF Kind[r] = "manifest" THEN ManifestChunk(r, offset) ELSE PlainChunk(r, offset)]]
DataAt(r, offset) == ChunkAt[r][offset].data
NextOffset(r, offset) == ChunkAt[r][offset].next

\* all there is to get of a file
WholeFile ==
  [r \in Request |->
     IF Kind[r] = "manifest"
     THEN FlattenSeq([e \in DOMAIN Entries[r] |-> [j \in 1..Entries[r][e] |-> Before(r, e) + 1 + j]])
     ELSE [j \in 1..FileSize(r) |-> j]]

\* the first chunk of a new transaction
FirstOffset(r) == IF Kind[r] = "manifest" THEN 1 ELSE 0

IsChunk(r) == Kind[r] \in {"download", "manifest"}
Of(r) == {i \in DOMAIN pending : pending[i].id = r}
Trans(r) == pending[Min(Of(r))]
\* the data a queued reply is written from; of a transaction that is gone,
\* whatever the memory holds
Data(r) == IF Of(r) = {} THEN <<>> ELSE DataAt(r, Trans(r).offset)

-----------------------------------------------------------------------------
\* FileServerMessage.  so is Entry::so_far.
Trailer(r) == IF Kind[r] = "manifest" THEN 2 ELSE 0
HeaderOf(r, offset) ==
  [id |-> r, len |-> 1 + Len(DataAt(r, offset)) + Trailer(r), so |-> 0]

DataCells(r) == LET d == Data(r) IN [i \in DOMAIN d |-> <<r, "data", d[i]>>]
Nulls(r, n) == [i \in 1..n |-> <<r, "null", 0>>]
From(s, n) == SubSeq(s, n + 1, Len(s))

\* fill_iovecs: the null bytes are left for a call in which the header is out
FillOne(m) ==
  IF m.so = 0 THEN <<<<m.id, "head", m.len>>>> \o DataCells(m.id)
  ELSE LET over == Max({0, m.so - 1 - Len(Data(m.id))})
       IN From(DataCells(m.id), m.so - 1)
            \o (IF Kind[m.id] = "manifest" /\ over < 2 THEN Nulls(m.id, 2 - over) ELSE <<>>)
Fill(q) == FlattenSeq([i \in DOMAIN q |-> FillOne(q[i])])

\* iovecs_written_bytes: is the message done, and what is left of n?
MutWrittenOne(m, n) ==                  \* a slip: the header counts as data
  LET left == n - (1 + Len(Data(m.id)) - m.so) + (IF m.so > 0 THEN 1 ELSE 0)
  IN IF ~IsChunk(m.id) THEN <<TRUE, n - 1>>
     ELSE IF left < 0 THEN <<FALSE, 0>>
     ELSE IF Kind[m.id] = "manifest" THEN <<left >= 2, left - 2>>
     ELSE <<TRUE, left>>
WrittenOne(m, n) ==
  LET n1 == IF m.so = 0 THEN n - 1 ELSE n
      d1 == IF m.so = 0 THEN 0 ELSE m.so - 1
      left == IF d1 >= Len(Data(m.id)) THEN n1 ELSE n1 - (Len(Data(m.id)) - d1)
  IN IF ~IsChunk(m.id) THEN <<TRUE, n1>>
     ELSE IF left < 0 THEN <<FALSE, 0>>
     ELSE IF Kind[m.id] = "manifest" THEN <<left >= 2, left - 2>>
     ELSE <<TRUE, left>>

\* message after message, until nothing is left of n
OneWritten(a, m) ==
  LET w == WrittenOne(m, a.n)
  IN IF a.n <= 0 THEN [a EXCEPT !.kept = Append(@, m)]
     ELSE IF w[1] THEN [a EXCEPT !.n = w[2]]
     ELSE [n |-> 0, kept |-> Append(a.kept, [m EXCEPT !.so = @ + a.n])]
Written(q, n) == FoldLeft(OneWritten, [n |-> n, kept |-> <<>>], q).kept

-----------------------------------------------------------------------------
\* The client: it asks, reads whole messages, and acknowledges chunks.
Done(r) == Len(got[r]) = Len(WholeFile[r])
Outstanding == {r \in asked : IsChunk(r) /\ ~Done(r)}

Ask(r) ==
  /\ open /\ r \notin asked
  /\ Alone => \A s \in Outstanding : Kind[s] # "manifest"
  /\ (Alone /\ Kind[r] = "manifest") => Outstanding = {} /\ up = <<>> /\ msg_queue = <<>>
  /\ asked' = asked \cup {r}
  /\ up' = Append(up, <<"ask", r>>)
  /\ UNCHANGED <<pending, msg_queue, open, inbox, got, garbled>>

\* a message is read when its cells are there, as many as its header says
WellFormed(msg) ==
  LET r == msg[1][1]
      body == SubSeq(msg, 2, Len(msg) - Trailer(r))
  IN /\ \A i \in DOMAIN body : body[i][1] = r /\ body[i][2] = "data"
     /\ \A i \in (Len(msg) - Trailer(r) + 1)..Len(msg) : msg[i] = <<r, "null", 0>>

Receive ==
  /\ inbox # <<>> /\ ~garbled
  /\ LET head == Head(inbox)
         n == head[3]
         msg == SubSeq(inbox, 1, n)
         r == head[1]
     IN IF head[2] # "head"
        THEN garbled' = TRUE /\ UNCHANGED <<inbox, got, up>>
        ELSE /\ Len(inbox) >= n
             /\ inbox' = From(inbox, n)
             /\ IF WellFormed(msg)
                THEN /\ got' = [got EXCEPT ![r] = @ \o [i \in 1..(n - 1 - Trailer(r)) |-> msg[i + 1][3]]]
                     /\ up' = IF IsChunk(r) THEN Append(up, <<"ack", r>>) ELSE up
                     /\ UNCHANGED garbled
                ELSE garbled' = TRUE /\ UNCHANGED <<got, up>>
  /\ UNCHANGED <<pending, msg_queue, open, asked>>

-----------------------------------------------------------------------------
\* message_read of a request: a transaction, and its first chunk.  What the
\* server cannot find is answered with an error, and its transaction stays.
Reply(m) == msg_queue' = Append(msg_queue, m)
Bare(r) == [id |-> r, len |-> 1, so |-> 0]

AskRead ==
  /\ open /\ up # <<>> /\ Head(up)[1] = "ask"
  /\ LET r == Head(up)[2]
         offset == FirstOffset(r)
     IN /\ Kind[r] # "refused"
        /\ IF Kind[r] = "ping"
           THEN Reply(Bare(r)) /\ UNCHANGED pending
           ELSE /\ pending' = Append(pending, [id |-> r, offset |-> offset])
                /\ Reply(IF Kind[r] = "missing" THEN Bare(r) ELSE HeaderOf(r, offset))
  /\ up' = Tail(up)
  /\ UNCHANGED <<open, inbox, asked, got, garbled>>

\* a name that leaves the directory ends the server (SERVER_SHUTDOWN), and what
\* is queued is thrown away
AskRefused ==
  /\ open /\ up # <<>> /\ Head(up)[1] = "ask" /\ Kind[Head(up)[2]] = "refused"
  /\ open' = FALSE /\ msg_queue' = <<>> /\ up' = <<>>
  /\ UNCHANGED <<pending, inbox, asked, got, garbled>>

\* message_read of an acknowledgement: the first transaction of that id goes on
\* to its next chunk, or is deleted
AckRead ==
  /\ open /\ up # <<>> /\ Head(up)[1] = "ack"
  /\ LET r == Head(up)[2]
     IN IF Of(r) = {} THEN UNCHANGED <<pending, msg_queue>>
        ELSE LET offset == NextOffset(r, Trans(r).offset)
             IN IF Complete(r, offset)
                THEN pending' = RemoveAt(pending, Min(Of(r))) /\ UNCHANGED msg_queue
                ELSE /\ pending' = [pending EXCEPT ![Min(Of(r))].offset = offset]
                     /\ Reply(HeaderOf(r, offset))
  /\ up' = Tail(up)
  /\ UNCHANGED <<open, inbox, asked, got, garbled>>

\* the select loop writes n cells
MidTrailer(q) == q # <<>> /\ Kind[Head(q).id] = "manifest" /\ Head(q).so = 2 + Len(Data(Head(q).id))
Write ==
  /\ open /\ msg_queue # <<>>
  /\ \E cells \in {Fill(msg_queue)} : \E n \in 1..Len(cells) : \E q \in {Written(msg_queue, n)} :
       /\ Split \/ ~MidTrailer(q)
       /\ inbox' = inbox \o SubSeq(cells, 1, n)
       /\ msg_queue' = q
  /\ UNCHANGED <<pending, open, up, asked, got, garbled>>

FilesInit ==
  /\ pending = <<>> /\ msg_queue = <<>> /\ open = TRUE
  /\ up = <<>> /\ inbox = <<>> /\ asked = {}
  /\ got = [r \in Request |-> <<>>] /\ garbled = FALSE

ServeFiles == AskRead \/ AskRefused \/ AckRead \/ Write

FilesNext == ServeFiles \/ Receive \/ \E r \in Request : Ask(r)

FilesSpec == FilesInit /\ [][FilesNext]_fileVars

\* the select loop reads and writes whatever is ready, and the client reads
FairFiles ==
  FilesSpec /\ WF_fileVars(AskRead) /\ WF_fileVars(AskRefused) /\ WF_fileVars(AckRead)
       /\ WF_fileVars(Write) /\ WF_fileVars(Receive)

-----------------------------------------------------------------------------
\* A reply that waits to be written finds its transaction where it was when the
\* reply was made: the chunk it announces is the chunk that is written, though
\* acknowledgements move and delete transactions in the meantime.
ChunkIsCurrent ==
  open => \A i \in DOMAIN msg_queue :
    IsChunk(msg_queue[i].id) =>
      Of(msg_queue[i].id) # {} /\ msg_queue[i].len = HeaderOf(msg_queue[i].id, Trans(msg_queue[i].id).offset).len

\* "returns the number of excess bytes in byte_ct" (NetworkMessage.h:125): what
\* iovecs_written_bytes reports goes to the next message, so that each message
\* reaches the client whole, whatever is queued behind it.
MessagesAreWhole == ~garbled

\* The client is given whole messages and the data of each file in order from
\* its start, however the writes cut them and the requests interleave: what a
\* reply announces is what its transaction is at when it is written.
FilesArriveWhole ==
  /\ MessagesAreWhole
  /\ ChunkIsCurrent
  /\ \A r \in Request : IsChunk(r) =>
       got[r] = SubSeq(WholeFile[r], 1, Len(got[r]))

\* What the client asked for it has in the end, whole, unless the connection is
\* ended by a name it should not have asked for.
DownloadEnds ==
  \A r \in Request : IsChunk(r) /\ r \in asked ~> Done(r) \/ ~open
=============================================================================
