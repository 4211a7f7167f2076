--------------------------- MODULE MCNfsPipeline ---------------------------
(* An instance of NfsPipeline for TLC: a connection with more requests     *)
(* than permits, and another to race the drain with.                       *)
EXTENDS NfsPipeline, TLC

CONSTANTS c1, c2

MCFrames == (c1 :> 3) @@ (c2 :> 1)

=============================================================================
