------------------------------- MODULE Links -------------------------------
(***************************************************************************)
(* One message on its way: over the link it is made for and, when it is of *)
(* the vault and crosses the auth server, over the next link too.  The     *)
(* formats say what a message is; this module is how it is sent and        *)
(* received.                                                               *)
(*   "backend"  between servers and the backend: fill_iovecs and writev(), *)
(*              which takes any number of bytes;                           *)
(*   "told"     from a server to a client without encryption: the same;    *)
(*   "coded"    from the auth server to a client: fill_buffer copies it    *)
(*              into the connection's write buffer, behind what is there,  *)
(*              to be encrypted in it, and write() takes from that;        *)
(*   "heard"    from a client: the bytes come in any pieces (external).    *)
(* The receiver asks make_if_enough whenever more has come.                *)
(* A byte of a message is its place in it, from 1; 0 is a byte of another. *)
(***************************************************************************)
EXTENDS Formats, FiniteSetsExt

CONSTANTS Messages,  \* the messages sent, one in each behaviour
          IovCts,    \* how many iovecs writev() may have left for it
          Cuts,      \* how many bytes a write, or a read, may take
          WBUF,      \* bytes in a connection's write buffer (BUFSIZE)
          Fronts     \* how many bytes of others stand in it before this one

ASSUME LinksAssumption ==
  /\ IovCts \subseteq Nat /\ Cuts \subseteq Nat
  /\ WBUF \in Nat /\ Fronts \subseteq Nat

VARIABLES msg,     \* the message
          link,    \* the link it is on
          F,       \* what its class says of it there: a record as below
          queued,  \* it is in the sender's queue
          so_far,  \* how much of it the queue takes to be sent
          buf,     \* the connection's write buffer, on a coded link
          wire,    \* the bytes that have come to the receiver
          seen,    \* how many of them make_if_enough was asked about
          want,    \* what it said then (want_len)
          got      \* it has made the message

vars == <<msg, link, F, queued, so_far, buf, wire, seen, want, got>>

FirstLink(m) ==
  CASE m.class \in BackendClasses \union AnswerClasses -> "backend"
    [] m.class \in VaultClasses \union HeardClasses    -> "heard"
    [] m.class \in CodedClasses                        -> "coded"
    [] m.class \in ToldClasses                         -> "told"

\* The auth server puts a client's vault message in a VaultPassthrough, and
\* what it gets from the backend in an AuthServerVaultMessage.
NextLink(m, l) ==
  CASE m.class \in VaultClasses /\ l = "heard"    -> "backend"
    [] m.class \in AnswerClasses /\ l = "backend" -> "coded"
    [] OTHER                                      -> "none"

\* What is sent on a link: where the fields are, the length the sender goes
\* by, the length the receiver comes to, from how many bytes on it says so,
\* how many it needs to know it, and where it reads which field.
Format(fields, len, framed, known, needs, reads) ==
  [fields |-> From(0, fields), len |-> len, framed |-> framed,
   known |-> known, needs |-> needs, reads |-> reads]

BackendFormat(l) ==
  Format(Buf("header", HEADER) \o l.writes, HEADER + l.claims,
         HEADER + l.claims, 4, 4, l.reads)
HeardFormat(h) ==
  Format(h.writes, Width(h.writes), h.total, h.known, h.needs, <<>>)
VaultHeard(m) ==
  Heard(VaultLayout(m).writes, VaultLength(m), VaultKnown(m), VaultKnown(m))

FormatOf(m, l) ==
  CASE l = "backend" /\ m.class \in VaultClasses -> BackendFormat(VaultLayout(m))
    [] l = "backend" /\ m.class \notin VaultClasses -> BackendFormat(BackendLayout(m))
    [] l = "heard" /\ m.class \in VaultClasses   -> HeardFormat(VaultHeard(m))
    [] l = "heard" /\ m.class \in HeardClasses   -> HeardFormat(HeardOf(m))
    [] l = "coded" /\ m.class \in AnswerClasses  ->
         LET a == BackendLayout(m)
         IN  Format(a.writes, a.claims, Width(a.writes), 2, 2, <<>>)
    [] OTHER -> LET t == ToldFormat(m)
                IN  Format(t.writes, t.len, t.framed, 2, 2, <<>>)

Bytes(from, to) == [i \in 1..(to - from) |-> from + i]
Least(a, b) == IF a < b THEN a ELSE b
First(n, s) == SubSeq(s, 1, Least(n, Len(s)))

-----------------------------------------------------------------------------
(***************************************************************************)
(* Sending.                                                                *)
(***************************************************************************)
\* fill_iovecs: the fields of which something is left, the first without
\* what was sent of it, as many as there are iovecs.  What is in one buffer
\* is one iovec.
OneBuffer == link = "told" /\ msg.class # "GameMgr_Marker_MarkerAdded"
Pieces == IF OneBuffer THEN <<<<"buffer", 0, F.len>>>> ELSE F.fields
Iovecs(ct) ==
  LET sent == {i \in DOMAIN Pieces : Pieces[i][2] + Pieces[i][3] <= so_far}
      vecs == First(ct, SubSeq(Pieces, Cardinality(sent) + 1, Len(Pieces)))
  IN  IF vecs = <<>> THEN <<>>
      ELSE Bytes(so_far, vecs[Len(vecs)][2] + vecs[Len(vecs)][3])

\* writev() takes some of it; iovecs_written_bytes tells whether that is all.
Write(ct, cut) ==
  LET took == First(cut, Iovecs(ct))
  IN  /\ link \in {"backend", "told"}
      /\ queued
      /\ took # <<>>
      /\ wire' = wire \o took
      /\ so_far' = so_far + Len(took)
      /\ queued' = (so_far + Len(took) < F.len)
      /\ UNCHANGED <<buf, link, F>>

\* fill_buffer: as much as there is room for.
PlainFill(room) == Bytes(so_far, so_far + Least(room, F.len - so_far))

\* BackendMessage's is asked for what is behind the header, and compares the
\* place it starts at with the room.
BackendFill(room) ==
  IF so_far + HEADER = room /\ so_far < F.len THEN <<>> ELSE PlainFill(room)

Fill(room) ==
  IF ~queued \/ room = 0 THEN <<>>
  ELSE IF msg.class \in AnswerClasses THEN BackendFill(room)
  ELSE PlainFill(room)

\* What is of others stands ahead of it in the buffer.
Own(bytes) ==
  SubSeq(bytes, Cardinality({i \in DOMAIN bytes : bytes[i] = 0}) + 1, Len(bytes))

\* The select loop fills up the write buffer and writes from it.
FillAndWrite(cut) ==
  LET filled == Fill(WBUF - Len(buf))
      held == buf \o filled
      took == First(cut, held)
  IN  /\ link = "coded"
      /\ took # <<>>
      /\ so_far' = so_far + Len(filled)
      /\ queued' = (queued /\ so_far + Len(filled) < F.len)
      /\ buf' = SubSeq(held, Len(took) + 1, Len(held))
      /\ wire' = wire \o Own(took)
      /\ UNCHANGED <<link, F>>

\* A client sends (external).
Send(cut) ==
  /\ link = "heard"
  /\ queued
  /\ wire' = wire \o Bytes(so_far, Least(so_far + cut, F.len))
  /\ so_far' = Least(so_far + cut, F.len)
  /\ queued' = (so_far + cut < F.len)
  /\ UNCHANGED <<buf, link, F>>

\* The receiver has read what has come: two writes it did not read between
\* are to it one write of both.
Transfer ==
  /\ seen = Len(wire)
  /\ ~got
  /\ \E cut \in Cuts : \/ \E ct \in IovCts : Write(ct, cut)
                       \/ FillAndWrite(cut)
                       \/ Send(cut)
  /\ UNCHANGED <<msg, seen, want, got>>

-----------------------------------------------------------------------------
(***************************************************************************)
(* Receiving.                                                              *)
(***************************************************************************)
\* A count read from bytes that have not come is what the buffer held.
Wants(len) ==
  IF len < F.known THEN {-1}
  ELSE IF len < F.needs THEN {F.framed - 2, F.framed, F.framed + 2}
  ELSE {F.framed}

Receive ==
  /\ seen < Len(wire)
  /\ ~got
  /\ seen' = Len(wire)
  /\ \E w \in Wants(Len(wire)) :
       /\ want' = w
       /\ got' = (w # -1 /\ w <= Len(wire))
  /\ UNCHANGED <<msg, link, F, queued, so_far, buf, wire>>

Ahead(l) == IF l = "coded" THEN {[i \in 1..n |-> 0] : n \in Fronts} ELSE {<<>>}

\* The auth server sends it on.
Relay ==
  /\ got
  /\ NextLink(msg, link) # "none"
  /\ link' = NextLink(msg, link)
  /\ F' = FormatOf(msg, link')
  /\ queued' = TRUE
  /\ so_far' = 0
  /\ buf' \in Ahead(link')
  /\ wire' = <<>>
  /\ seen' = 0
  /\ want' = -1
  /\ got' = FALSE
  /\ UNCHANGED msg

Init ==
  /\ msg \in Messages
  /\ link = FirstLink(msg)
  /\ F = FormatOf(msg, link)
  /\ queued = TRUE
  /\ so_far = 0
  /\ buf \in Ahead(link)
  /\ wire = <<>>
  /\ seen = 0
  /\ want = -1
  /\ got = FALSE

Next == Transfer \/ Receive \/ Relay

\* Sockets that can be written are written to, what comes is read.
Fairness == WF_vars(Transfer) /\ WF_vars(Receive) /\ WF_vars(Relay)
Spec == Init /\ [][Next]_vars /\ Fairness

-----------------------------------------------------------------------------
\* Where the sender put a field ("whole": all behind the header).
Sent(name) ==
  IF name = "whole" THEN {<<HEADER, F.len - HEADER>>}
  ELSE {<<f[2], f[3]>> : f \in {g \in Range(F.fields) : g[1] = name}}

\* What the receiver takes for a message is the whole of it, byte for byte,
\* with nothing in it that is not of a field, and it reads every field where the sender wrote it, in the same width:
\* the lengths and offsets of a class are written down three times in
\* BackendMessage.cc, those of a game message twice in GameMessage.cc.
ArrivesAsSent ==
  got => /\ wire = Bytes(0, F.len)
         /\ F.framed = F.len
         /\ LET f == F.fields IN f[Len(f)][2] + f[Len(f)][3] = F.len
         /\ \A r \in Range(F.reads) : <<r[2], r[3]>> \in Sent(r[1])

\* make_if_enough names the message's length or says that it does not know
\* it: on any beginning of a message, never another length.  (A wrong one
\* makes the connection read a message too short, or wait for ever.)
LengthIsKnownOrNot == want \in {-1, F.len}

\* A queue that has sent a part of a message always gets more of it, as long
\* as there is room: else the connection is selected for writing, and
\* nothing written, again and again (MessageQueue::fill_buffer).
EmptyFillIsDone ==
  link = "coded" /\ queued /\ so_far > 0 /\ Len(buf) < WBUF
    => Fill(WBUF - Len(buf)) # <<>>

\* Every message arrives, also over two links.
EveryMessageArrives == <>(got /\ NextLink(msg, link) = "none")
=============================================================================
