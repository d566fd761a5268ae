---------------------------- MODULE MCAuthSession ----------------------------
(* Auth sessions with accounts of one or two players.                        *)
EXTENDS AuthSessionProps

CONSTANTS a1, a2, k1, k2

\* k1 belongs to a1, and k2 to the other account, or to a1 as well
HolderEach == (k1 :> a1) @@ (k2 :> a2)
HolderOne  == (k1 :> a1) @@ (k2 :> a1)

\* one session whose client does much, and one that is there to be punted or
\* to punt
TwoSessions == {1, 2}
FourAndOne == 1 :> 4 @@ 2 :> 1
TwoEach == 1 :> 2 @@ 2 :> 2
=============================================================================
