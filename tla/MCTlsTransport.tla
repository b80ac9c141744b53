-------------------------- MODULE MCTlsTransport ----------------------------
(* A small instance of TlsTransport: blocks for a RAM of none to all of them. *)
EXTENDS TlsTransport

BlockKinds == {"ctx", "ssl", "aes"}
BlockSize == [k \in BlockKinds |-> IF k = "ctx" THEN 2 ELSE IF k = "ssl" THEN 3 ELSE 1]
=============================================================================
