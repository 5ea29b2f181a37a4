---------------------------- MODULE MCRpcBridge ----------------------------
(***************************************************************************)
(* The read-only RPC bridge on small instances.                            *)
(***************************************************************************)
EXTENDS RpcBridge

(* A request holds one call that goes to the node.                         *)
MCBatch == {[origin |-> 1, synthetic |-> 0]}
=============================================================================
