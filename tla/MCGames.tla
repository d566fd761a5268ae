------------------------------- MODULE MCGames -------------------------------
(* Three players sit down to Heek, each once; three play VarSync and         *)
(* BlueSpiral, of whom one comes back; two open marker games.                *)
EXTENDS Games

MCChair == [p \in Players |-> p]
MCVisits ==
  [k \in Kinds |-> [p \in Players |->
     CASE p = 13 -> IF k = "marker" THEN 0 ELSE 1
       [] p = 11 -> IF k \in {"varsync", "door"} THEN 2 ELSE 1
       [] p = 12 -> 1]]
MCAsked == <<2, 1>>
MCAskedTwice == <<2, 2>>
MCFaults == <<1, 0>>
=============================================================================
