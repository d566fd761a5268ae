----------------------------- MODULE MCServing -----------------------------
(* A client with two messages, one of which is longer than the read buffer,  *)
(* one that sends a short message, and one that never says a word.           *)
EXTENDS Serving

CONSTANTS talks, greets, silent

MCStream == (talks :> <<1, 3>>) @@ (greets :> <<1>>) @@ (silent :> <<>>)
=============================================================================
