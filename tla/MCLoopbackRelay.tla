-------------------------- MODULE MCLoopbackRelay --------------------------
(* Three connections, two at a time, and a socket path that is replaced.    *)
EXTENDS LoopbackRelay
=============================================================================
