--------------------------- MODULE RpcAccounting ---------------------------
(***************************************************************************)
(* The counters of the read-only RPC bridge.  The bridge keeps one set for *)
(* its whole life and one for the selected test whose scope is open, both  *)
(* changed under _state_lock; a snapshot is a copy of one of them that     *)
(* refuses to exist when its numbers contradict each other.                *)
(***************************************************************************)
EXTENDS Integers, FiniteSets

(* Why a request was turned away.                                          *)
RejectionKind == {"denied", "limit", "malformed", "upstream"}

(* A batch is known by how many of its calls go to the origin and how many *)
(* are answered from the pinned state.                                     *)
NoCalls == [origin |-> 0, synthetic |-> 0]

Zero ==
    [http |-> 0, permitted |-> 0, attempted |-> 0, validated |-> 0,
     synthetic |-> 0, rejected |-> [k \in RejectionKind |-> 0]]

Counters ==
    [http : Nat, permitted : Nat, attempted : Nat, validated : Nat,
     synthetic : Nat, rejected : [RejectionKind -> Nat]]

CountHttp(c) == [c EXCEPT !.http = @ + 1]

CountRejection(c, kind) == [c EXCEPT !.rejected[kind] = @ + 1]

(* A stale or late connection is counted and refused in one step.          *)
CountRefusal(c) == CountRejection(CountHttp(c), "limit")

CountPermitted(c, calls) ==
    [c EXCEPT !.permitted = @ + calls.origin + calls.synthetic,
              !.attempted = @ + calls.origin,
              !.synthetic = @ + calls.synthetic]

CountValidated(c, calls) == [c EXCEPT !.validated = @ + calls.origin]

Violations(c) ==
    c.rejected["denied"] + c.rejected["malformed"] + c.rejected["limit"]
        + c.rejected["upstream"]

(* The sum of f over its domain is the number of unit coins laid out       *)
(* beside its elements, a finite set whose size the prover knows.          *)
Coins(f) == UNION {{x} \X (1 .. f[x]) : x \in DOMAIN f}

Sum(f) == Cardinality(Coins(f))

(* ReadOnlyRpcBridgeSnapshot.__post_init__: what the numbers must satisfy  *)
(* for the final snapshot to exist.                                        *)
BridgeCountersAgree(c) ==
    /\ c.attempted + c.synthetic = c.permitted
    /\ c.validated <= c.attempted
    /\ (c.validated = c.attempted) <=> (c.rejected["upstream"] = 0)
    /\ Violations(c) <= c.http

(* ReadOnlyRpcTestScopeSnapshot.__post_init__.                             *)
ScopeCountersAgree(c) ==
    /\ c.attempted + c.synthetic = c.permitted
    /\ c.validated <= c.attempted
    /\ Violations(c) <= c.http

(* _seal_test_scope_snapshot.                                              *)
ScopeStatus(c) ==
    CASE Violations(c) > 0 \/ c.validated # c.attempted -> "violation"
      [] Violations(c) = 0 /\ c.validated = c.attempted /\ c.attempted > 0 ->
            "validated"
      [] OTHER -> "not_observed"
=============================================================================
