---------------------------- MODULE MCFileServer ----------------------------
(* Two files of two chunks, a manifest of two, a file that is missing, a ping,  *)
(* and a name that is refused.                                               *)
EXTENDS FileServer

CONSTANTS file, other, list, lost, ping, dots

MCKind == (file :> "download") @@ (other :> "download") @@ (list :> "manifest") @@ (lost :> "missing")
            @@ (ping :> "ping") @@ (dots :> "refused")
MCSize == [r \in Request |-> 3]
MCEntries == [r \in Request |-> <<1, 1, 2>>]
=============================================================================
