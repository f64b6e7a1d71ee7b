----------------------------- MODULE MCRoundTrip -----------------------------
(* The round trip on the inputs of MCTrieDiff, with accounts whose nonce  *)
(* and balance are integers the schema writes in hex.                     *)
EXTENDS RoundTrip, MCTrieDiff

\* (nonce, balance, code_hash): a balance of two hex digits.
MCInfos == {[nonce |-> 1, balance |-> 200, code_hash |-> i1]}

=============================================================================
