--------------------------- MODULE RpcBridgeProofs ---------------------------
(***************************************************************************)
(* Proofs about the read-only RPC bridge, for every number of connections, *)
(* tests and handlers, every budget and every batch.                       *)
(***************************************************************************)
EXTENDS RpcBridge, FiniteSetTheorems, TLAPS

-----------------------------------------------------------------------------
(* The inductive invariant.                                                *)

Stage == Handling \cup {"none", "queued", "released", "closed"}
Fate == RejectionKind \cup {"answered"}
DriverPc == {"unstarted", "dead", "suite", "testing", "abort", "stopping",
             "join", "postflight", "stopped", "unclean"} \cup BoundaryPc

Flags ==
    /\ late \in BOOLEAN /\ closed \in BOOLEAN /\ saturated \in BOOLEAN
    /\ abandoned \in BOOLEAN /\ shut \in BOOLEAN

(* The parts of TypeOK that no other part depends on.                      *)
CounterInv == ctr \in Counters /\ acc \in Counters

Shapes ==
    /\ driver \in DriverPc
    /\ gen \in Nat /\ arrived \in 0 .. NRequests /\ calls \in Nat
    /\ accepted \subseteq Probe /\ checkpoints \subseteq Probe
    /\ admission \in {"unbound", "open", "starting", "shutdown", "closed"}
    /\ cleanup \in {"none", "admission", "upstream", "await", "done", "failed"}
    /\ conn \in [Conn -> Stage]
    /\ batch \in [Conn -> [origin : Nat, synthetic : Nat]]
    /\ verdict \in [Conn -> Fate \cup {"none", "stale", "dropped", "unserved"}]
    /\ home \in [Conn -> 0 .. NTests]
    /\ born \in [Conn -> [probes : Nat, scope : 0 .. NTests]]
    /\ sealed \in Seq([test : 1 .. NTests, count : Counters,
                       status : {"validated", "not_observed", "violation"}])

(* Where the driver is, in terms of the boundary calls it made: the calls  *)
(* alternate, each seals one boundary, and a scope is open in between.     *)
AfterEnd(k) == calls = 2 * k /\ gen = calls /\ scope = 0
AfterBegin(k) == calls = 2 * k - 1 /\ gen = calls /\ scope = k /\ k > 0
InBegin(k) == calls = 2 * k - 1 /\ gen = calls - 1 /\ scope = 0 /\ k > 0
InEnd(k) == calls = 2 * k /\ gen = calls - 1 /\ scope = k /\ k > 0
PhaseInv ==
    /\ closed => scope = 0
    /\ closed <=> driver \in {"stopping", "join", "postflight", "stopped", "unclean"}
    /\ \E k \in 0 .. NTests :
        /\ calls \in {2 * k - 1, 2 * k}
        /\ driver \in {"unstarted", "dead"} => calls = 0
        /\ driver \in {"unstarted", "dead", "suite"} => AfterEnd(k)
        /\ driver = "testing" => AfterBegin(k)
        /\ driver \in BoundaryPc => InBegin(k) \/ InEnd(k)
        /\ driver = "abort" => AfterEnd(k) \/ InBegin(k) \/ InEnd(k)

(* The loop holds one connection that nobody else knows of.                *)
LoopInv ==
    /\ loop \in [pc : {"select", "probe", "pause", "register", "admit",
                       "dispatch", "ended"}, item : Conn \cup {0}, gen : Nat]
    /\ loop.pc \in {"probe", "pause"} => loop.item \in Probe
    /\ loop.pc \in {"probe", "register", "admit", "dispatch"} =>
        /\ loop.item \in Conn /\ conn[loop.item] = "queued"
        /\ \A i \in 1 .. Len(backlog) : backlog[i] # loop.item
    /\ loop.gen <= gen
    /\ pending = IF loop.pc = "admit" THEN 1 ELSE 0
    /\ admission = "closed" => loop.pc = "ended"
    /\ loop.pc = "ended" => admission \in {"shutdown", "closed"}
    /\ driver = "unstarted" => admission = "unbound"

(* A connection is judged once, after it was served or when it is refused. *)
VerdictInv(c) ==
    /\ conn[c] \notin {"finish", "released", "closed"} => verdict[c] = "none"
    /\ conn[c] \in {"finish", "released"} => verdict[c] \in Fate
    /\ conn[c] = "none" => home[c] = 0

(* Requests and probes are sent in order; sent is the number of probes.    *)
SentInv ==
    /\ \A c \in Request : conn[c] = "none" <=> c > arrived
    /\ \E n \in {calls - 1, calls} \cap Nat :
        /\ \A p \in Probe : conn[p] # "none" <=> p <= NRequests + n
        /\ driver = "connect" => n = calls - 1
        /\ driver \in {"suite", "testing"} \cup (BoundaryPc \ {"connect"}) => n = calls
        /\ \A c \in 1 .. arrived : born[c].probes <= n

(* The listener's queue is in the order the connections were made.         *)
Key(c) == IF c \in Request THEN born[c].probes ELSE c - NRequests
BacklogInv ==
    /\ backlog \in Seq(Conn)
    /\ \A i \in 1 .. Len(backlog) : conn[backlog[i]] = "queued"
    /\ \A i, j \in 1 .. Len(backlog) : i < j =>
        /\ backlog[i] # backlog[j]
        /\ Key(backlog[i]) <= Key(backlog[j])

(* A boundary is sealed only after its probe was accepted.                 *)
AcceptedInv ==
    /\ \A p \in accepted : conn[p] = "closed"
    /\ driver \in {"pending", "handlers", "inflight", "seal"} => ThisProbe \in accepted
    /\ ~closed => \A k \in 1 .. gen : NRequests + k \in accepted
    /\ \A i \in 1 .. Len(sealed) : NRequests + 2 * sealed[i].test \in accepted

(* A request that has not been admitted or refused yet.                    *)
Waiting(c) == conn[c] = "queued" /\ ~(loop.pc = "dispatch" /\ loop.item = c)

(* It is in the queue or in the loop's hands, unless the queue is gone,    *)
(* and no probe sent after it was accepted.                                *)
WaitingInv(c) ==
    Waiting(c) =>
        /\ \/ \E i \in 1 .. Len(backlog) : backlog[i] = c
           \/ loop.pc \in {"register", "admit"} /\ loop.item = c
           \/ admission = "closed"
        /\ \A p \in Probe : p - NRequests > born[c].probes =>
                p \notin accepted /\ ~(loop.pc = "probe" /\ loop.item = p)

(* The scope a request is made in, and the generation the loop read.       *)
BornInv(c) ==
    /\ c <= arrived /\ born[c].scope # 0 =>
        /\ 2 * born[c].scope - 1 <= gen
        /\ loop.pc \in {"register", "admit"} /\ loop.item = c =>
              2 * born[c].scope - 1 <= loop.gen
    /\ ~closed /\ loop.pc \in {"register", "admit"} /\ loop.item = c =>
        loop.gen <= born[c].probes

(* The two halves of ScopeWindow, before the scope is sealed.              *)
Unsealed(s) == closed /\ \A i \in 1 .. Len(sealed) : sealed[i].test # s
WindowInv(c) ==
    /\ home[c] # 0 => born[c].probes \in {2 * home[c] - 1, 2 * home[c]}
    /\ c <= arrived /\ born[c].scope # 0 /\ born[c].probes = 2 * born[c].scope - 1 =>
        \/ Waiting(c) \/ home[c] = born[c].scope \/ verdict[c] = "dropped"
        \/ Unsealed(born[c].scope)

(* A clean stop has waited for the loop and for every handler.             *)
StopInv ==
    /\ cleanup = "done" => admission = "closed"
    /\ driver \in {"join", "postflight", "stopped"} =>
        cleanup = "done" /\ \A c \in Conn : conn[c] \notin Handling

(* The requests in flight, and the HTTP budget.                            *)
Serving == {c \in Conn : \/ conn[c] \in Handling \cup {"released"}
                         \/ loop.pc = "dispatch" /\ loop.item = c}
HttpInv ==
    /\ inflight = Cardinality(Serving)
    /\ ctr.http = Cardinality(Admitted) + Cardinality(Refused)
    /\ Refused = {} =>
        ctr.http <= MaxHttp /\ (ctr.http = MaxHttp => saturated)

BridgeInv ==
    /\ Flags /\ Shapes /\ CounterInv /\ PhaseInv /\ LoopInv
    /\ \A c \in Conn : VerdictInv(c)
    /\ SentInv /\ BacklogInv /\ AcceptedInv
    /\ \A c \in Request : WaitingInv(c) /\ BornInv(c) /\ WindowInv(c)
    /\ StopInv /\ HttpInv

-----------------------------------------------------------------------------
(* Flags and counters.                                                     *)

(* The steps of the scanner thread that only move it on.                   *)
DriverMoves ==
    \/ DeadlinePasses \/ CallBoundary \/ ProbeAccepted \/ Drain
    \/ StopHandlers \/ StopJoin \/ StopPostflight \/ StopExpires \/ Done

(* A boundary call that raises.                                            *)
BoundaryRaises ==
    BoundaryFails /\ driver \in BoundaryPc /\ UNCHANGED <<backlog, conn>>

(* Next, with the steps that look alike put together.                      *)
LEMMA NextSteps ==
    ASSUME [Next]_vars
    PROVE  \/ DriverMoves \/ BoundaryRaises \/ Connect \/ Start
           \/ (ProbeConnect /\ ~BoundaryRaises) \/ SealBoundary \/ Stop
           \/ Loop \/ AdmissionStep \/ CleanupStep \/ \E c \in Conn : Handler(c)
           \/ UNCHANGED vars
  BY DEF Next, Driver, DriverMoves, BoundaryRaises, ProbeConnect, BoundaryExpires,
         SealRefused, BoundaryPc

(* Every flag stays a flag.                                                *)
LEMMA FlagsStep ==
    ASSUME Flags, [Next]_vars
    PROVE  Flags'
<1> USE DEF counting, listener, stopping, boundary, Flags
<1>1. CASE DriverMoves
  BY <1>1 DEF DriverMoves, DeadlinePasses, CallBoundary, ProbeAccepted, Drain,
     StopHandlers, StopJoin, StopPostflight, StopExpires, Done, vars
<1>2. CASE BoundaryRaises \/ Connect \/ Start \/ ProbeConnect
  BY <1>2 DEF BoundaryRaises, BoundaryFails, Connect, Start, ProbeConnect
<1>3. CASE SealBoundary
  BY <1>3 DEF SealBoundary
<1>4. CASE Stop
  BY <1>4 DEF Stop
<1>5. CASE Loop
  <2>1. CASE LoopAdmit
    BY <2>1, Zenon DEF LoopAdmit, Refuse, Saturates
  <2> QED BY <1>5, <2>1 DEF Loop, LoopAccept, LoopProbe, LoopResume, LoopRegister,
     LoopDispatch, LoopExit
<1>6. CASE AdmissionStep \/ CleanupStep
  BY <1>6 DEF AdmissionStep, CleanupStep
<1>7. ASSUME NEW c \in Conn, Handler(c) PROVE Flags'
  BY <1>7 DEF Handler, RejectEarly, Permit, BeginUpstream, EndUpstream, FinishHandler,
     HandlerFrame
<1>8. CASE UNCHANGED vars
  BY <1>8 DEF vars
<1> QED BY <1>1, <1>2, <1>3, <1>4, <1>5, <1>6, <1>7, <1>8, NextSteps

(* Counting keeps counters counters; only admission counts HTTP requests.  *)
LEMMA Counting ==
    ASSUME NEW c \in Counters
    PROVE  /\ CountHttp(c) \in Counters /\ CountHttp(c).http = c.http + 1
           /\ CountRefusal(c) \in Counters /\ CountRefusal(c).http = c.http + 1
           /\ \A kind \in RejectionKind :
                /\ CountRejection(c, kind) \in Counters
                /\ CountRejection(c, kind).http = c.http
<1>1. CountHttp(c) \in Counters /\ CountHttp(c).http = c.http + 1
  BY DEF Counters, CountHttp
<1>2. ASSUME NEW d \in Counters, NEW kind \in RejectionKind
      PROVE  CountRejection(d, kind) \in Counters /\ CountRejection(d, kind).http = d.http
  BY DEF Counters, CountRejection
<1>3. "limit" \in RejectionKind
  BY DEF RejectionKind
<1>4. CountRefusal(c) \in Counters /\ CountRefusal(c).http = c.http + 1
  BY <1>1, <1>3 DEF Counters, CountRejection, CountRefusal
<1> QED BY <1>1, <1>2, <1>4

(* The same for the calls of a batch.                                      *)
LEMMA CountingCalls ==
    ASSUME NEW c \in Counters, NEW b \in [origin : Nat, synthetic : Nat]
    PROVE  /\ CountPermitted(c, b) \in Counters /\ CountPermitted(c, b).http = c.http
           /\ CountValidated(c, b) \in Counters /\ CountValidated(c, b).http = c.http
<1>1. CountPermitted(c, b) \in Counters /\ CountPermitted(c, b).http = c.http
  <2> DEFINE x == c.permitted + b.origin + b.synthetic
             y == c.attempted + b.origin
             z == c.synthetic + b.synthetic
  <2>1. x \in Nat /\ y \in Nat /\ z \in Nat
    BY DEF Counters
  <2>2. CountPermitted(c, b) = [[[c EXCEPT !.permitted = x] EXCEPT !.attempted = y]
                                  EXCEPT !.synthetic = z]
    BY DEF CountPermitted, Counters
  <2> HIDE DEF x, y, z
  <2>3. [c EXCEPT !.permitted = x] \in Counters /\ [c EXCEPT !.permitted = x].http = c.http
    BY <2>1 DEF Counters
  <2>4. ASSUME NEW d \in Counters
        PROVE  /\ [d EXCEPT !.attempted = y] \in Counters
               /\ [d EXCEPT !.attempted = y].http = d.http
               /\ [d EXCEPT !.synthetic = z] \in Counters
               /\ [d EXCEPT !.synthetic = z].http = d.http
    BY <2>1 DEF Counters
  <2> QED BY <2>2, <2>3, <2>4
<1>2. CountValidated(c, b) \in Counters /\ CountValidated(c, b).http = c.http
  BY DEF Counters, CountValidated
<1> QED BY <1>1, <1>2

(* What a step of a handler thread does: it moves its connection on, or    *)
(* judges it; it counts no HTTP request.                                   *)
HandlerMoves(c) ==
    \/ /\ conn[c] \in {"handling", "permitted", "forward"}
       /\ \/ conn'[c] \in {"permitted", "forward"} /\ verdict' = verdict
          \/ conn'[c] = "finish" /\ \E v \in Fate : verdict' = [verdict EXCEPT ![c] = v]
       /\ inflight' = inflight
    \/ /\ conn[c] = "finish" /\ conn'[c] = "released"
       /\ UNCHANGED <<inflight, verdict>>
    \/ /\ conn[c] = "released" /\ conn'[c] = "closed"
       /\ inflight' = inflight - 1 /\ verdict' = verdict

(* A handler's step, seen from outside of its thread.                      *)
LEMMA HandlerStep ==
    ASSUME Shapes, CounterInv, NEW c \in Conn, Handler(c)
    PROVE  /\ HandlerFrame /\ HandlerMoves(c)
           /\ conn' = [conn EXCEPT ![c] = conn'[c]] /\ conn'[c] \in Stage
           /\ batch' \in [Conn -> [origin : Nat, synthetic : Nat]]
           /\ CounterInv' /\ ctr'.http = ctr.http
           /\ conn[c] \in {"finish", "released"} => UNCHANGED counting
<1> USE DEF Shapes, CounterInv, Stage, Handling, Fate, RejectionKind
<1>1. ASSUME NEW kind \in RejectionKind, Reject(c, kind),
             conn[c] \in {"handling", "permitted", "forward"}, UNCHANGED inflight
      PROVE  /\ HandlerMoves(c)
             /\ conn' = [conn EXCEPT ![c] = conn'[c]] /\ conn'[c] \in Stage
             /\ batch' = batch /\ CounterInv' /\ ctr'.http = ctr.http
  <2>1. ctr' = CountRejection(ctr, kind)
        /\ acc' \in {acc, CountRejection(acc, kind)}
    BY <1>1 DEF Reject, InScope
  <2>2. CounterInv' /\ ctr'.http = ctr.http
    BY <2>1, Counting
  <2>3. conn' = [conn EXCEPT ![c] = "finish"] /\ batch' = batch
        /\ verdict' = [verdict EXCEPT ![c] = kind]
    BY <1>1 DEF Reject
  <2> QED BY <1>1, <2>2, <2>3 DEF HandlerMoves
<1>2. CASE RejectEarly(c)
  <2>1. PICK kind \in RejectionKind : Reject(c, kind)
    BY <1>2, BoundsAssumption DEF RejectEarly
  <2>2. conn[c] = "handling" /\ HandlerFrame /\ UNCHANGED inflight
    BY <1>2 DEF RejectEarly
  <2> QED BY <1>1, <2>1, <2>2
<1>3. CASE Permit(c)
  <2>1. conn[c] = "handling" /\ HandlerFrame /\ UNCHANGED inflight
    BY <1>3 DEF Permit
  <2>2. CASE Reject(c, "limit")
    BY <1>1, <2>1, <2>2
  <2>3. CASE ~Reject(c, "limit")
    <3>1. PICK b \in Batch :
             /\ ctr' = CountPermitted(ctr, b)
             /\ acc' \in {acc, CountPermitted(acc, b)}
             /\ batch' = [batch EXCEPT ![c] = b]
             /\ conn' = [conn EXCEPT ![c] = IF b.origin = 0 THEN "finish" ELSE "permitted"]
             /\ verdict' = [verdict EXCEPT ![c] = IF b.origin = 0 THEN "answered" ELSE @]
      BY <1>3, <2>3 DEF Permit, InScope
    <3>2. b \in [origin : Nat, synthetic : Nat]
      BY BoundsAssumption
    <3>3. CounterInv' /\ ctr'.http = ctr.http
      <4>1. /\ CountPermitted(ctr, b) \in Counters /\ CountPermitted(ctr, b).http = ctr.http
            /\ CountPermitted(acc, b) \in Counters
        BY <3>2, CountingCalls, Zenon
      <4> QED BY <3>1, <4>1
    <3>4. batch' \in [Conn -> [origin : Nat, synthetic : Nat]]
      BY <3>1, <3>2
    <3>5. CASE b.origin = 0
      BY <2>1, <3>1, <3>3, <3>4, <3>5 DEF HandlerMoves
    <3>6. CASE b.origin # 0
      <4>1. verdict' = verdict
        BY <3>1, <3>6
      <4> QED BY <2>1, <3>1, <3>3, <3>4, <3>6, <4>1 DEF HandlerMoves
    <3> QED BY <3>5, <3>6
  <2> QED BY <2>2, <2>3
<1>4. CASE BeginUpstream(c)
  <2>1. conn[c] = "permitted" /\ HandlerFrame /\ UNCHANGED inflight
    BY <1>4 DEF BeginUpstream
  <2>2. CASE Reject(c, "upstream")
    BY <1>1, <2>1, <2>2
  <2>3. CASE ~Reject(c, "upstream")
    <3>1. conn' = [conn EXCEPT ![c] = "forward"] /\ UNCHANGED <<counting, verdict, batch>>
      BY <1>4, <2>3 DEF BeginUpstream
    <3> QED BY <2>1, <3>1 DEF HandlerMoves, counting
  <2> QED BY <2>2, <2>3
<1>5. CASE EndUpstream(c)
  <2>1. conn[c] = "forward" /\ HandlerFrame /\ UNCHANGED inflight
    BY <1>5 DEF EndUpstream
  <2>2. CASE Reject(c, "upstream")
    BY <1>1, <2>1, <2>2
  <2>3. CASE ~Reject(c, "upstream")
    <3>1. /\ ctr' = CountValidated(ctr, batch[c])
          /\ acc' \in {acc, CountValidated(acc, batch[c])}
          /\ conn' = [conn EXCEPT ![c] = "finish"]
          /\ verdict' = [verdict EXCEPT ![c] = "answered"] /\ batch' = batch
      BY <1>5, <2>3 DEF EndUpstream, InScope
    <3>2. CounterInv' /\ ctr'.http = ctr.http
      BY <3>1, CountingCalls
    <3> QED BY <2>1, <3>1, <3>2 DEF HandlerMoves
  <2> QED BY <2>2, <2>3
<1>6. CASE FinishHandler(c)
  BY <1>6 DEF FinishHandler, HandlerMoves, counting
<1> QED BY <1>2, <1>3, <1>4, <1>5, <1>6 DEF Handler

-----------------------------------------------------------------------------
(* The phases of the scanner thread.                                       *)

(* Which of the two boundary calls it is, and for which test.              *)
LEMMA Parity ==
    ASSUME NEW k \in Nat
    PROVE  /\ (2 * k) % 2 = 0 /\ (2 * k + 1) \div 2 = k
           /\ k > 0 => (2 * k - 1) % 2 = 1 /\ ((2 * k - 1) + 1) \div 2 = k
  OBVIOUS

(* Scopes and calls are within their ranges.                               *)
LEMMA ScopeType ==
    ASSUME PhaseInv, Shapes
    PROVE  scope \in 0 .. NTests /\ calls \in 0 .. 2 * NTests
<1>1. NTests \in Nat
  BY BoundsAssumption
<1> QED BY <1>1 DEF PhaseInv, Shapes, AfterEnd, AfterBegin, InBegin, InEnd, DriverPc, BoundaryPc

(* A scope that is open or being sealed.                                   *)
LEMMA BoundaryPhase ==
    ASSUME PhaseInv, Shapes, driver \in BoundaryPc
    PROVE  /\ ~closed /\ calls \in Nat \ {0} /\ gen = calls - 1
           /\ ThisTest \in 1 .. NTests
           /\ Beginning => calls = 2 * ThisTest - 1 /\ scope = 0
           /\ ~Beginning => calls = 2 * ThisTest /\ scope = ThisTest
<1>1. NTests \in Nat
  BY BoundsAssumption
<1>2. ~closed
  BY DEF PhaseInv, BoundaryPc
<1>3. PICK k \in 0 .. NTests : InBegin(k) \/ InEnd(k)
  BY DEF PhaseInv
<1>4. CASE InBegin(k)
  <2>1. calls % 2 = 1 /\ (calls + 1) \div 2 = k /\ k > 0
    BY <1>1, <1>4, Parity DEF InBegin
  <2> QED BY <1>1, <1>2, <1>4, <2>1 DEF InBegin, Beginning, ThisTest
<1>5. CASE InEnd(k)
  <2>1. calls % 2 = 0 /\ (calls + 1) \div 2 = k /\ k > 0
    BY <1>1, <1>5, Parity DEF InEnd
  <2> QED BY <1>1, <1>2, <1>5, <2>1 DEF InEnd, Beginning, ThisTest
<1> QED BY <1>3, <1>4, <1>5

(* The phases follow each other.                                           *)
LEMMA PhaseStep ==
    ASSUME PhaseInv, Shapes, Flags, [Next]_vars
    PROVE  PhaseInv' /\ gen <= gen' /\ gen' \in Nat
           /\ (closed => closed') /\ calls' \in Nat
<1> USE DEF counting, listener, stopping, boundary
<1>0. NTests \in Nat /\ gen \in Nat /\ calls \in Nat /\ driver \in DriverPc
  BY BoundsAssumption DEF Shapes
<1>1. CASE UNCHANGED <<driver, calls, boundary>>
  BY <1>0, <1>1 DEF PhaseInv, AfterEnd, AfterBegin, InBegin, InEnd
<1>2. CASE CallBoundary
  <2>1. UNCHANGED <<gen, scope, closed>> /\ calls' = calls + 1 /\ driver' = "connect"
    BY <1>2 DEF CallBoundary
  <2>2. CASE driver = "suite" /\ calls < 2 * NTests
    <3>1. PICK k \in 0 .. NTests : AfterEnd(k)
      BY <2>2 DEF PhaseInv
    <3>2. k + 1 \in 0 .. NTests /\ InBegin(k + 1)'
      BY <1>0, <2>1, <2>2, <3>1 DEF AfterEnd, InBegin
    <3>3. ~closed
      BY <2>2 DEF PhaseInv
    <3>4. calls' \in {2 * (k + 1) - 1, 2 * (k + 1)}
      BY <3>2 DEF InBegin
    <3> QED BY <1>0, <2>1, <3>2, <3>3, <3>4 DEF PhaseInv, BoundaryPc
  <2>3. CASE driver = "testing"
    <3>1. PICK k \in 0 .. NTests : AfterBegin(k)
      BY <2>3 DEF PhaseInv
    <3>2. InEnd(k)'
      BY <1>0, <2>1, <2>3, <3>1 DEF AfterBegin, InEnd
    <3>3. ~closed
      BY <2>3 DEF PhaseInv
    <3>4. calls' \in {2 * k - 1, 2 * k}
      BY <3>2 DEF InEnd
    <3> QED BY <1>0, <2>1, <3>2, <3>3, <3>4 DEF PhaseInv, BoundaryPc
  <2> QED BY <1>2, <2>2, <2>3 DEF CallBoundary
<1>3. CASE BoundaryRaises
  <2>1. UNCHANGED <<gen, scope, closed, calls>> /\ driver' = "abort" /\ driver \in BoundaryPc
    BY <1>3 DEF BoundaryRaises, BoundaryFails
  <2>2. ~closed
    BY <2>1 DEF PhaseInv, BoundaryPc
  <2>3. PICK k \in 0 .. NTests : (InBegin(k) \/ InEnd(k)) /\ calls \in {2 * k - 1, 2 * k}
    BY <2>1 DEF PhaseInv
  <2>4. InBegin(k)' \/ InEnd(k)'
    BY <2>1, <2>3 DEF InBegin, InEnd
  <2> QED BY <1>0, <2>1, <2>2, <2>3, <2>4 DEF PhaseInv, BoundaryPc
<1>4. CASE ProbeAccepted \/ Drain \/ (ProbeConnect /\ ~BoundaryRaises)
  <2>1. UNCHANGED <<gen, scope, closed, calls>> /\ driver' \in BoundaryPc /\ driver \in BoundaryPc
    BY <1>4 DEF ProbeAccepted, Drain, ProbeConnect, BoundaryPc, BoundaryRaises
  <2>2. ~closed
    BY <2>1 DEF PhaseInv, BoundaryPc
  <2>3. PICK k \in 0 .. NTests : (InBegin(k) \/ InEnd(k)) /\ calls \in {2 * k - 1, 2 * k}
    BY <2>1 DEF PhaseInv
  <2>4. InBegin(k)' \/ InEnd(k)'
    BY <2>1, <2>3 DEF InBegin, InEnd
  <2> QED BY <1>0, <2>1, <2>2, <2>3, <2>4 DEF PhaseInv, BoundaryPc
<1>5. CASE SealBoundary
  <2>1. gen' = gen + 1 /\ UNCHANGED <<calls, closed>> /\ driver = "seal" /\ driver \in BoundaryPc
    BY <1>5 DEF SealBoundary, BoundaryPc
  <2>2. ~closed
    BY <2>1 DEF PhaseInv, BoundaryPc
  <2>3. CASE Beginning
    <3>1. scope' = ThisTest /\ driver' = "testing"
      BY <1>5, <2>3 DEF SealBoundary
    <3>2. ThisTest \in 0 .. NTests /\ calls = 2 * ThisTest - 1 /\ gen = calls - 1
          /\ ThisTest > 0 /\ calls \in Nat
      BY <2>1, <2>3, BoundaryPhase
    <3> DEFINE k == ThisTest
    <3> HIDE DEF k
    <3>3. k \in 0 .. NTests /\ calls' = 2 * k - 1 /\ gen' = calls' /\ scope' = k /\ k > 0
      BY <1>0, <2>1, <3>1, <3>2 DEF k
    <3>4. PICK m \in 0 .. NTests : m = k
      BY <3>3
    <3>5. AfterBegin(m)'
      BY <3>3, <3>4 DEF AfterBegin
    <3> QED BY <1>0, <2>1, <2>2, <3>1, <3>3, <3>4, <3>5 DEF PhaseInv, BoundaryPc
  <2>4. CASE ~Beginning
    <3>1. scope' = 0 /\ driver' \in {"suite", "abort"}
      BY <1>5, <2>4 DEF SealBoundary
    <3>2. ThisTest \in 0 .. NTests /\ calls = 2 * ThisTest /\ gen = calls - 1
          /\ calls \in Nat
      BY <2>1, <2>4, BoundaryPhase
    <3> DEFINE k == ThisTest
    <3> HIDE DEF k
    <3>3. k \in 0 .. NTests /\ calls' = 2 * k /\ gen' = calls' /\ scope' = 0
      BY <1>0, <2>1, <3>1, <3>2 DEF k
    <3>4. PICK m \in 0 .. NTests : m = k
      BY <3>3
    <3>5. AfterEnd(m)'
      BY <3>3, <3>4 DEF AfterEnd
    <3> QED BY <1>0, <2>1, <2>2, <3>1, <3>3, <3>4, <3>5 DEF PhaseInv, BoundaryPc
  <2> QED BY <2>3, <2>4
<1>6. CASE Start
  <2>1. UNCHANGED <<gen, scope, closed, calls>> /\ driver' \in {"suite", "dead"}
        /\ driver = "unstarted"
    BY <1>6 DEF Start
  <2> QED BY <1>0, <2>1 DEF PhaseInv, BoundaryPc, AfterEnd
<1>7. CASE Stop
  <2>1. scope' = 0 /\ closed' /\ gen' = gen + 1 /\ driver' = "stopping" /\ calls' = calls
    BY <1>7 DEF Stop
  <2> QED BY <1>0, <2>1 DEF PhaseInv, BoundaryPc
<1>8. CASE StopHandlers \/ StopJoin \/ StopPostflight \/ StopExpires
  <2>1. /\ UNCHANGED <<gen, scope, closed, calls>>
        /\ driver \in {"stopping", "join", "postflight"}
        /\ driver' \in {"join", "postflight", "stopped", "unclean"}
    BY <1>8 DEF StopHandlers, StopJoin, StopPostflight, StopExpires
  <2> QED BY <1>0, <2>1 DEF PhaseInv, BoundaryPc
<1>9. CASE Loop \/ AdmissionStep \/ CleanupStep \/ Connect \/ DeadlinePasses \/ Done
           \/ (\E c \in Conn : Handler(c)) \/ UNCHANGED vars
  <2>1. CASE Loop
    BY <1>1, <2>1 DEF Loop, LoopAccept, LoopProbe, LoopResume, LoopRegister, LoopAdmit,
       LoopDispatch, LoopExit
  <2>2. CASE \E c \in Conn : Handler(c)
    BY <1>1, <2>2 DEF Handler, RejectEarly, Permit, BeginUpstream, EndUpstream,
       FinishHandler, HandlerFrame
  <2>3. CASE AdmissionStep \/ CleanupStep \/ Connect \/ DeadlinePasses \/ Done
             \/ UNCHANGED vars
    BY <1>1, <2>3 DEF AdmissionStep, CleanupStep, Connect, DeadlinePasses, Done, vars
  <2> QED BY <1>9, <2>1, <2>2, <2>3
<1> QED
  BY <1>2, <1>3, <1>4, <1>5, <1>6, <1>7, <1>8, <1>9, NextSteps DEF DriverMoves

-----------------------------------------------------------------------------
(* Types.                                                                  *)

(* The counters are those of an instant before, or one count further.      *)
LEMMA CounterStep ==
    ASSUME BridgeInv, [Next]_vars
    PROVE  CounterInv'
<1> USE DEF counting, listener, stopping, boundary
<1>1. CounterInv /\ Shapes
  BY DEF BridgeInv
<1>2. Zero \in Counters /\ "limit" \in RejectionKind
  BY DEF Zero, Counters, RejectionKind
<1>3. CASE UNCHANGED counting
  BY <1>1, <1>3 DEF CounterInv
<1>4. CASE SealBoundary
  BY <1>1, <1>2, <1>4 DEF SealBoundary, CounterInv
<1>5. CASE Loop
  <2>1. CASE LoopAdmit
    <3>1. ctr' \in {ctr, CountRefusal(ctr), CountHttp(ctr)} /\ acc' \in {acc, CountHttp(acc)}
      BY <2>1 DEF LoopAdmit, InScope, Refuse
    <3> QED BY <1>1, <3>1, Counting DEF CounterInv
  <2>2. CASE LoopDispatch
    <3>1. /\ ctr' \in {ctr, CountRejection(ctr, "limit")}
          /\ acc' \in {acc, CountRejection(acc, "limit")}
      BY <2>2 DEF LoopDispatch, InScope
    <3> QED BY <1>1, <1>2, <3>1, Counting DEF CounterInv
  <2> QED BY <1>3, <1>5, <2>1, <2>2 DEF Loop, LoopAccept, LoopProbe, LoopResume,
     LoopRegister, LoopExit
<1>6. CASE \E c \in Conn : Handler(c)
  BY <1>1, <1>6, HandlerStep
<1>7. CASE DriverMoves
  BY <1>3, <1>7 DEF DriverMoves, DeadlinePasses, CallBoundary, ProbeAccepted, Drain,
     StopHandlers, StopJoin, StopPostflight, StopExpires, Done, vars
<1>8. CASE BoundaryRaises \/ Connect \/ Start \/ ProbeConnect
  BY <1>3, <1>8 DEF BoundaryRaises, BoundaryFails, Connect, Start, ProbeConnect
<1>9. CASE Stop \/ AdmissionStep \/ CleanupStep \/ UNCHANGED vars
  BY <1>3, <1>9 DEF Stop, AdmissionStep, CleanupStep, vars
<1> QED BY <1>4, <1>5, <1>6, <1>7, <1>8, <1>9, NextSteps

(* The probe of the boundary call in progress.                             *)
LEMMA ThisProbeType ==
    ASSUME BridgeInv, driver \in BoundaryPc
    PROVE  ThisProbe \in Probe /\ ThisProbe \in Conn
<1>1. NTests \in Nat /\ NRequests \in Nat
  BY BoundsAssumption
<1>2. calls \in 1 .. 2 * NTests
  BY <1>1, BoundaryPhase, ScopeType DEF BridgeInv
<1> QED BY <1>1, <1>2 DEF ThisProbe, Probe, Conn

(* The next connection of the tests.                                       *)
LEMMA NextRequest ==
    ASSUME BridgeInv, arrived < NRequests
    PROVE  arrived + 1 \in Request /\ arrived + 1 \in Conn /\ arrived \in Nat
<1>1. NRequests \in Nat /\ arrived \in 0 .. NRequests
  BY BoundsAssumption DEF BridgeInv, Shapes
<1> QED BY <1>1 DEF Request, Conn

(* Probes are not requests, and the connections are finitely many numbers. *)
LEMMA Connections ==
    /\ Conn \subseteq Nat \ {0} /\ Request \subseteq Conn /\ Probe \subseteq Conn
    /\ Request \cap Probe = {} /\ IsFiniteSet(Conn) /\ IsFiniteSet(Probe)
    /\ Conn = Request \cup Probe
    /\ NRequests \in Nat /\ NTests \in Nat
<1>1. NRequests \in Nat /\ NTests \in Nat
  BY BoundsAssumption
<1>2. IsFiniteSet(Request)
  BY <1>1, FS_Interval DEF Request
<1>3. NRequests + 1 \in Int /\ NRequests + 2 * NTests \in Int
  BY <1>1
<1>4. IsFiniteSet(Probe)
  BY <1>3, FS_Interval DEF Probe
<1>5. IsFiniteSet(Conn)
  BY <1>2, <1>4, FS_Union DEF Conn
<1> QED BY <1>1, <1>4, <1>5 DEF Request, Probe, Conn

(* Cardinalities of sets of connections are natural numbers.               *)
LEMMA ConnCardinality ==
    ASSUME NEW S \in SUBSET Conn
    PROVE  IsFiniteSet(S) /\ Cardinality(S) \in Nat
  BY Connections, FS_Subset, FS_CardinalityType

(* Every step keeps the types.                                             *)
LEMMA ShapesStep ==
    ASSUME BridgeInv, [Next]_vars
    PROVE  Shapes'
<1> USE DEF counting, listener, stopping, boundary, history
<1>1. Shapes /\ PhaseInv /\ LoopInv
  BY DEF BridgeInv
<1>2. scope \in 0 .. NTests /\ gen' \in Nat /\ calls' \in Nat
  BY <1>1, ScopeType, PhaseStep DEF BridgeInv
<1>3. CASE DriverMoves
  BY <1>1, <1>2, <1>3 DEF DriverMoves, DeadlinePasses, CallBoundary, ProbeAccepted, Drain,
     StopHandlers, StopJoin, StopPostflight, StopExpires, Done, vars, Shapes, DriverPc,
     BoundaryPc
<1>4. CASE BoundaryRaises \/ Start
  BY <1>1, <1>2, <1>4 DEF BoundaryRaises, BoundaryFails, Start, Shapes, DriverPc, BoundaryPc
<1>5. CASE ProbeConnect /\ ~BoundaryRaises
  <2>1. driver \in BoundaryPc
    BY <1>5 DEF ProbeConnect, BoundaryPc
  <2>2. ThisProbe \in Probe /\ ThisProbe \in Conn
    BY <2>1, ThisProbeType
  <2>3. /\ driver' = "await"
        /\ checkpoints' = checkpoints \cup {ThisProbe}
        /\ conn' = [conn EXCEPT ![ThisProbe] = "queued"]
        /\ UNCHANGED <<gen, arrived, calls, accepted, admission, cleanup, batch, verdict,
                       home, born, sealed>>
    BY <1>5, <2>1 DEF ProbeConnect, BoundaryRaises
  <2>4. conn' \in [Conn -> Stage]
    BY <1>1, <2>3 DEF Shapes, Stage
  <2> QED BY <1>1, <2>2, <2>3, <2>4 DEF Shapes, DriverPc, BoundaryPc
<1>6. CASE Connect
  <2>1. /\ arrived' = arrived + 1 /\ arrived < NRequests
        /\ conn' = [conn EXCEPT ![arrived + 1] = "queued"]
        /\ born' = [born EXCEPT ![arrived + 1] =
                      [probes |-> Cardinality({p \in Probe : conn[p] # "none"}),
                       scope |-> scope]]
        /\ UNCHANGED <<driver, gen, calls, accepted, checkpoints, admission, cleanup,
                       batch, verdict, home, sealed>>
    BY <1>6 DEF Connect
  <2>2. Cardinality({p \in Probe : conn[p] # "none"}) \in Nat
    BY ConnCardinality, Connections
  <2>3. born' \in [Conn -> [probes : Nat, scope : 0 .. NTests]]
    BY <1>1, <1>2, <2>1, <2>2 DEF Shapes
  <2>4. conn' \in [Conn -> Stage]
    BY <1>1, <2>1 DEF Shapes, Stage
  <2>5. arrived' \in 0 .. NRequests
    BY <1>1, <2>1, Connections DEF Shapes
  <2> QED BY <1>1, <2>1, <2>3, <2>4, <2>5 DEF Shapes
<1>7. CASE SealBoundary
  <2>1. driver \in BoundaryPc
    BY <1>7 DEF SealBoundary, BoundaryPc
  <2>2. sealed' \in Seq([test : 1 .. NTests, count : Counters,
                         status : {"validated", "not_observed", "violation"}])
    <3>1. CASE Beginning
      BY <1>1, <1>7, <3>1 DEF SealBoundary, Shapes
    <3>2. CASE ~Beginning
      <4>1. sealed' = Append(sealed, [test |-> scope, count |-> acc,
                                      status |-> ScopeStatus(acc)])
        BY <1>7, <3>2 DEF SealBoundary
      <4>2. scope \in 1 .. NTests /\ acc \in Counters
        BY <1>1, <2>1, <3>2, BoundaryPhase DEF BridgeInv, CounterInv
      <4>3. ScopeStatus(acc) \in {"validated", "not_observed", "violation"}
        BY DEF ScopeStatus
      <4> QED BY <1>1, <4>1, <4>2, <4>3 DEF Shapes
    <3> QED BY <3>1, <3>2
  <2>3. driver' \in DriverPc
    BY <1>7 DEF SealBoundary, DriverPc
  <2> QED BY <1>1, <1>2, <1>7, <2>2, <2>3 DEF SealBoundary, Shapes
<1>8. CASE Stop
  BY <1>1, <1>2, <1>8 DEF Stop, Shapes, DriverPc
<1>9. CASE AdmissionStep \/ CleanupStep
  BY <1>1, <1>9 DEF AdmissionStep, CleanupStep, AdmissionAsked, Shapes
<1>10. ASSUME NEW c \in Conn, Handler(c) PROVE Shapes'
  <2>1. HandlerFrame /\ HandlerMoves(c) /\ conn' = [conn EXCEPT ![c] = conn'[c]]
        /\ conn'[c] \in Stage /\ batch' \in [Conn -> [origin : Nat, synthetic : Nat]]
    BY <1>10, HandlerStep DEF BridgeInv
  <2>2. conn' \in [Conn -> Stage]
    BY <1>1, <2>1 DEF Shapes
  <2>3. verdict' \in [Conn -> Fate \cup {"none", "stale", "dropped", "unserved"}]
    BY <1>1, <2>1 DEF Shapes, HandlerMoves
  <2> QED BY <1>1, <2>1, <2>2, <2>3 DEF Shapes, HandlerFrame
<1>11. CASE Loop
  <2>1. CASE LoopAccept \/ LoopResume \/ LoopRegister \/ LoopExit
    BY <1>1, <2>1 DEF LoopAccept, LoopResume, LoopRegister, LoopExit, Shapes
  <2>2. CASE LoopProbe
    <3>1. loop.item \in Probe /\ accepted' = accepted \cup {loop.item}
          /\ conn' = [conn EXCEPT ![loop.item] = "closed"]
      BY <1>1, <2>2 DEF LoopProbe, LoopInv, AtLoop
    <3>2. conn' \in [Conn -> Stage]
      BY <1>1, <3>1 DEF Shapes, Stage
    <3> QED BY <1>1, <2>2, <3>1, <3>2 DEF LoopProbe, Shapes
  <2>3. CASE LoopAdmit
    <3>1. /\ conn' \in {conn, [conn EXCEPT ![loop.item] = "closed"]}
          /\ verdict' \in {verdict, [verdict EXCEPT ![loop.item] = "stale"],
                           [verdict EXCEPT ![loop.item] = "dropped"]}
          /\ home' \in {home, [home EXCEPT ![loop.item] = scope]}
          /\ admission' \in {admission, "starting"}
          /\ UNCHANGED <<driver, gen, arrived, calls, accepted, checkpoints, cleanup,
                         batch, born, sealed>>
      BY <2>3 DEF LoopAdmit, Refuse, AdmissionAsked
    <3>2. conn' \in [Conn -> Stage]
      BY <1>1, <3>1 DEF Shapes, Stage
    <3>3. verdict' \in [Conn -> Fate \cup {"none", "stale", "dropped", "unserved"}]
      BY <1>1, <3>1 DEF Shapes
    <3>4. home' \in [Conn -> 0 .. NTests]
      BY <1>1, <1>2, <3>1 DEF Shapes
    <3> QED BY <1>1, <3>1, <3>2, <3>3, <3>4 DEF Shapes
  <2>4. CASE LoopDispatch
    <3>1. /\ conn' \in {[conn EXCEPT ![loop.item] = "handling"],
                        [conn EXCEPT ![loop.item] = "closed"]}
          /\ verdict' \in {verdict, [verdict EXCEPT ![loop.item] = "unserved"],
                           [verdict EXCEPT ![loop.item] = "limit"]}
          /\ UNCHANGED <<driver, gen, arrived, calls, accepted, checkpoints, cleanup,
                         batch, born, sealed, home, admission>>
      BY <2>4 DEF LoopDispatch
    <3>2. conn' \in [Conn -> Stage]
      BY <1>1, <3>1 DEF Shapes, Stage, Handling
    <3>3. verdict' \in [Conn -> Fate \cup {"none", "stale", "dropped", "unserved"}]
      BY <1>1, <3>1 DEF Shapes, Fate, RejectionKind
    <3> QED BY <1>1, <3>1, <3>2, <3>3 DEF Shapes
  <2> QED BY <1>11, <2>1, <2>2, <2>3, <2>4 DEF Loop
<1>12. CASE UNCHANGED vars
  BY <1>1, <1>12 DEF vars, Shapes
<1> QED BY <1>3, <1>4, <1>5, <1>6, <1>7, <1>8, <1>9, <1>10, <1>11, <1>12, NextSteps

-----------------------------------------------------------------------------
(* What a step leaves alone.                                               *)

(* A connection is never unmade, a closed one stays closed, and a queued   *)
(* one leaves the queue in the loop's hands only.                          *)
SameConnections ==
    /\ UNCHANGED <<born, arrived>>
    /\ \A c \in Conn :
        /\ conn'[c] = "none" <=> conn[c] = "none"
        /\ conn[c] = "closed" => conn'[c] = "closed"
        /\ conn'[c] = "queued" => conn[c] = "queued"
        /\ conn[c] = "queued" /\ conn'[c] # "queued" =>
              loop.pc \in {"probe", "admit", "dispatch"} /\ loop.item = c

(* A step of another thread does not change what the loop holds.           *)
LEMMA OutsideLoop ==
    ASSUME BridgeInv, [Next]_vars, ~Loop
    PROVE  UNCHANGED <<loop, accepted, pending, home>>
<1> USE DEF listener, history
<1>1. CASE DriverMoves
  BY <1>1 DEF DriverMoves, DeadlinePasses, CallBoundary, ProbeAccepted, Drain,
     StopHandlers, StopJoin, StopPostflight, StopExpires, Done, vars
<1>2. CASE BoundaryRaises \/ Connect \/ Start \/ ProbeConnect
  BY <1>2 DEF BoundaryRaises, BoundaryFails, Connect, Start, ProbeConnect
<1>3. CASE SealBoundary \/ Stop \/ AdmissionStep \/ CleanupStep \/ UNCHANGED vars
  BY <1>3 DEF SealBoundary, Stop, AdmissionStep, CleanupStep, vars
<1>4. CASE \E c \in Conn : Handler(c)
  BY <1>4, HandlerStep DEF BridgeInv, HandlerFrame
<1> QED BY <1>1, <1>2, <1>3, <1>4, NextSteps

(* Only Connect and ProbeConnect make connections.                         *)
LEMMA ConnectionStep ==
    ASSUME BridgeInv, [Next]_vars, ~Connect, ~ProbeConnect \/ BoundaryRaises
    PROVE  SameConnections
<1> USE DEF counting, listener, stopping, boundary, history
<1>1. Shapes /\ LoopInv
  BY DEF BridgeInv
<1>2. CASE UNCHANGED <<conn, born, arrived>>
  BY <1>2 DEF SameConnections
<1>3. CASE DriverMoves
  BY <1>2, <1>3 DEF DriverMoves, DeadlinePasses, CallBoundary, ProbeAccepted, Drain,
     StopHandlers, StopJoin, StopPostflight, StopExpires, Done, vars
<1>4. CASE BoundaryRaises \/ Start \/ SealBoundary \/ Stop \/ AdmissionStep \/ CleanupStep
           \/ UNCHANGED vars
  BY <1>2, <1>4 DEF BoundaryRaises, BoundaryFails, Start, SealBoundary, Stop,
     AdmissionStep, CleanupStep, vars
<1>5. ASSUME NEW c \in Conn, Handler(c) PROVE SameConnections
  <2>1. HandlerFrame /\ HandlerMoves(c) /\ conn' = [conn EXCEPT ![c] = conn'[c]]
    BY <1>1, <1>5, HandlerStep DEF BridgeInv
  <2>2. conn[c] \notin {"none", "queued", "closed"} /\ conn'[c] \notin {"none", "queued"}
    BY <2>1 DEF HandlerMoves
  <2>3. \A d \in Conn \ {c} : conn'[d] = conn[d]
    BY <1>1, <2>1 DEF Shapes
  <2> QED BY <2>1, <2>2, <2>3 DEF SameConnections, HandlerFrame
<1>6. CASE Loop
  <2>1. CASE LoopAccept \/ LoopResume \/ LoopRegister \/ LoopExit
    BY <1>2, <2>1 DEF LoopAccept, LoopResume, LoopRegister, LoopExit
  <2>2. CASE LoopProbe \/ LoopAdmit \/ LoopDispatch
    <3>1. loop.pc \in {"probe", "admit", "dispatch"}
      BY <2>2 DEF LoopProbe, LoopAdmit, LoopDispatch, AtLoop
    <3>2. loop.item \in Conn /\ conn[loop.item] = "queued"
      BY <1>1, <3>1 DEF LoopInv
    <3>3. \E st \in {"queued", "closed", "handling"} :
             conn' = [conn EXCEPT ![loop.item] = st]
      <4>1. conn = [conn EXCEPT ![loop.item] = "queued"]
        BY <1>1, <3>2 DEF Shapes
      <4> QED BY <2>2, <4>1 DEF LoopProbe, LoopAdmit, LoopDispatch, Refuse
    <3>4. UNCHANGED <<born, arrived>>
      BY <2>2 DEF LoopProbe, LoopAdmit, LoopDispatch
    <3>5. conn'[loop.item] \in {"queued", "closed", "handling"}
          /\ \A d \in Conn \ {loop.item} : conn'[d] = conn[d]
      BY <1>1, <3>2, <3>3 DEF Shapes
    <3> QED BY <3>1, <3>2, <3>4, <3>5 DEF SameConnections
  <2> QED BY <1>6, <2>1, <2>2 DEF Loop
<1> QED BY <1>3, <1>4, <1>5, <1>6, NextSteps

(* What Connect does: one more request, at the end of the queue.           *)
LEMMA ConnectEffect ==
    ASSUME BridgeInv, Connect
    PROVE  \E c \in Request :
              /\ c = arrived + 1 /\ arrived' = c /\ conn[c] = "none" /\ conn'[c] = "queued"
              /\ \A d \in Conn \ {c} : conn'[d] = conn[d] /\ born'[d] = born[d]
              /\ born'[c] = [probes |-> Cardinality({p \in Probe : conn[p] # "none"}),
                             scope |-> scope]
              /\ backlog' = Append(backlog, c)
              /\ admission \in {"open", "starting"}
              /\ UNCHANGED <<driver, late, calls, gen, scope, closed, saturated, pending,
                             inflight, ctr, acc, sealed, abandoned, checkpoints, accepted,
                             loop, admission, cleanup, shut, batch, verdict, home>>
<1> DEFINE c == arrived + 1
<1>1. arrived < NRequests /\ arrived' = c /\ Shapes
  BY DEF Connect, BridgeInv
<1>2. c \in Request /\ c \in Conn /\ arrived \in Nat
  BY <1>1, NextRequest
<1>3. conn[c] = "none"
  BY <1>2 DEF BridgeInv, SentInv
<1>4. /\ conn' = [conn EXCEPT ![c] = "queued"]
      /\ born' = [born EXCEPT ![c] =
            [probes |-> Cardinality({p \in Probe : conn[p] # "none"}), scope |-> scope]]
      /\ backlog' = Append(backlog, c)
      /\ admission \in {"open", "starting"}
      /\ UNCHANGED <<driver, late, calls, gen, scope, closed, saturated, pending,
                     inflight, ctr, acc, sealed, abandoned, checkpoints, accepted,
                     loop, admission, cleanup, shut, batch, verdict, home>>
  BY <1>1 DEF Connect, counting, stopping, boundary
<1> HIDE DEF c
<1>5. /\ conn'[c] = "queued" /\ \A d \in Conn \ {c} : conn'[d] = conn[d] /\ born'[d] = born[d]
      /\ born'[c] = [probes |-> Cardinality({p \in Probe : conn[p] # "none"}),
                     scope |-> scope]
  BY <1>1, <1>2, <1>4 DEF Shapes
<1>6. c = arrived + 1
  BY DEF c
<1> QED BY <1>1, <1>2, <1>3, <1>4, <1>5, <1>6

(* What a boundary call's probe does.                                      *)
LEMMA ProbeEffect ==
    ASSUME BridgeInv, ProbeConnect, ~BoundaryRaises
    PROVE  \E p \in Probe :
              /\ p = NRequests + calls /\ conn[p] = "none" /\ conn'[p] = "queued"
              /\ \A d \in Conn \ {p} : conn'[d] = conn[d]
              /\ backlog' = Append(backlog, p)
              /\ driver = "connect" /\ driver' = "await" /\ admission # "closed"
              /\ UNCHANGED <<late, calls, gen, scope, closed, saturated, pending,
                             inflight, ctr, acc, sealed, abandoned, accepted, arrived,
                             loop, admission, cleanup, shut, batch, verdict, home, born>>
<1>1. driver = "connect" /\ driver \in BoundaryPc /\ Shapes
  BY DEF ProbeConnect, BoundaryPc, BridgeInv
<1>2. ThisProbe \in Probe /\ ThisProbe \in Conn
  BY <1>1, ThisProbeType
<1>3. PICK p \in Probe : p = ThisProbe
  BY <1>2
<1>4. /\ driver' = "await" /\ admission # "closed"
      /\ backlog' = Append(backlog, p) /\ conn' = [conn EXCEPT ![p] = "queued"]
      /\ UNCHANGED <<late, calls, gen, scope, closed, saturated, pending,
                     inflight, ctr, acc, sealed, abandoned, accepted, arrived,
                     loop, admission, cleanup, shut, batch, verdict, home, born>>
  BY <1>1, <1>3 DEF ProbeConnect, BoundaryRaises, counting, stopping, boundary, history
<1>5. p = NRequests + calls /\ p \in Conn
  BY <1>3, Connections DEF ThisProbe
<1>6. conn[p] = "none"
  <2>1. calls \in Nat /\ \A q \in Probe : conn[q] # "none" <=> q <= NRequests + (calls - 1)
    BY <1>1 DEF BridgeInv, SentInv, Shapes
  <2>2. ~(p <= NRequests + (calls - 1))
    BY <1>5, <2>1, Connections
  <2> QED BY <2>1, <2>2
<1>7. conn'[p] = "queued" /\ \A d \in Conn \ {p} : conn'[d] = conn[d]
  BY <1>1, <1>4, <1>5 DEF Shapes
<1> QED BY <1>1, <1>4, <1>5, <1>6, <1>7

(* Outside of the loop a queued connection stays queued, and the queue     *)
(* gains one connection at its end, keeps what it has or is dropped.       *)
LEMMA OutsideQueue ==
    ASSUME BridgeInv, [Next]_vars, ~Loop
    PROVE  /\ \A c \in Conn : conn[c] = "queued" => conn'[c] = "queued"
           /\ \/ backlog' = backlog
              \/ backlog' = <<>> /\ admission' = "closed"
              \/ \E c \in Conn : conn[c] = "none" /\ conn'[c] = "queued"
                                /\ backlog' = Append(backlog, c)
<1> USE DEF counting, listener, stopping, boundary, history
<1>1. Shapes
  BY DEF BridgeInv
<1>2. CASE UNCHANGED <<conn, backlog>>
  BY <1>2
<1>3. CASE DriverMoves
  BY <1>2, <1>3 DEF DriverMoves, DeadlinePasses, CallBoundary, ProbeAccepted, Drain,
     StopHandlers, StopJoin, StopPostflight, StopExpires, Done, vars
<1>4. CASE BoundaryRaises \/ Start \/ SealBoundary \/ Stop \/ CleanupStep
           \/ UNCHANGED vars
  BY <1>2, <1>4 DEF BoundaryRaises, BoundaryFails, Start, SealBoundary, Stop,
     CleanupStep, vars
<1>5. CASE AdmissionStep
  BY <1>5 DEF AdmissionStep
<1>6. CASE Connect
  BY <1>6, ConnectEffect, Connections
<1>7. CASE ProbeConnect /\ ~BoundaryRaises
  BY <1>7, ProbeEffect, Connections
<1>8. ASSUME NEW c \in Conn, Handler(c)
      PROVE  backlog' = backlog /\ \A d \in Conn : conn[d] = "queued" => conn'[d] = "queued"
  <2>1. HandlerFrame /\ HandlerMoves(c) /\ conn' = [conn EXCEPT ![c] = conn'[c]]
    BY <1>1, <1>8, HandlerStep DEF BridgeInv
  <2>2. conn[c] # "queued"
    BY <2>1 DEF HandlerMoves
  <2> QED BY <1>1, <2>1, <2>2 DEF Shapes, HandlerFrame
<1> QED BY <1>3, <1>4, <1>5, <1>6, <1>7, <1>8, NextSteps

(* The listener closes in order, and only once the loop has ended.         *)
LEMMA AdmissionOrder ==
    ASSUME BridgeInv, [Next]_vars
    PROVE  /\ admission = "closed" => admission' = "closed"
           /\ admission = "shutdown" => admission' \in {"shutdown", "closed"}
           /\ admission' = "closed" => loop.pc = "ended" /\ loop' = loop
           /\ admission = "unbound" => admission' = "unbound" \/ driver' # "unstarted"
<1> USE DEF counting, listener, stopping, boundary, history
<1>1. LoopInv /\ Shapes
  BY DEF BridgeInv
<1>2. admission = "closed" => loop.pc = "ended" /\ loop' = loop
  <2>1. CASE ~Loop
    BY <1>1, <2>1, OutsideLoop DEF LoopInv
  <2>2. CASE Loop
    BY <1>1, <2>2 DEF Loop, LoopInv, LoopAccept, LoopProbe, LoopResume, LoopRegister,
       LoopAdmit, LoopDispatch, LoopExit, AtLoop
  <2> QED BY <2>1, <2>2
<1>3. CASE UNCHANGED admission
  BY <1>2, <1>3
<1>4. CASE DriverMoves
  BY <1>3, <1>4 DEF DriverMoves, DeadlinePasses, CallBoundary, ProbeAccepted, Drain,
     StopHandlers, StopJoin, StopPostflight, StopExpires, Done, vars
<1>5. CASE BoundaryRaises \/ Connect \/ SealBoundary \/ Stop \/ ProbeConnect
           \/ UNCHANGED vars
  BY <1>3, <1>5 DEF BoundaryRaises, BoundaryFails, Connect, SealBoundary, Stop,
     ProbeConnect, vars
<1>6. CASE Start
  BY <1>1, <1>6 DEF Start, LoopInv
<1>7. CASE Loop
  <2>1. CASE LoopAdmit
    BY <1>2, <2>1 DEF LoopAdmit, AdmissionAsked
  <2> QED BY <1>3, <1>7, <2>1 DEF Loop, LoopAccept, LoopProbe, LoopResume, LoopRegister,
       LoopDispatch, LoopExit
<1>8. CASE AdmissionStep
  BY <1>2, <1>8 DEF AdmissionStep, AtLoop
<1>9. CASE CleanupStep
  BY <1>2, <1>9 DEF CleanupStep, AdmissionAsked
<1>10. CASE \E c \in Conn : Handler(c)
  BY <1>3, <1>10, HandlerStep DEF BridgeInv, HandlerFrame
<1> QED BY <1>4, <1>5, <1>6, <1>7, <1>8, <1>9, <1>10, NextSteps

-----------------------------------------------------------------------------
(* The accept loop.                                                        *)

(* What is in a queue of which the head is taken.                          *)
LEMMA TailOf ==
    ASSUME NEW S, NEW s \in Seq(S), s # <<>>
    PROVE  /\ Tail(s) \in Seq(S) /\ Len(s) \in Nat \ {0} /\ Len(Tail(s)) = Len(s) - 1
           /\ Head(s) = s[1] /\ Head(s) \in S
           /\ \A i \in 1 .. Len(Tail(s)) : Tail(s)[i] = s[i + 1] /\ i + 1 \in 1 .. Len(s)
  OBVIOUS

(* What is in a queue to which one is added.                               *)
LEMMA AppendOf ==
    ASSUME NEW S, NEW s \in Seq(S), NEW c \in S
    PROVE  /\ Append(s, c) \in Seq(S) /\ Len(s) \in Nat /\ Len(Append(s, c)) = Len(s) + 1
           /\ Append(s, c)[Len(s) + 1] = c
           /\ \A i \in 1 .. Len(s) : Append(s, c)[i] = s[i]
           /\ \A i \in 1 .. Len(s) + 1 : i \in 1 .. Len(s) \/ i = Len(s) + 1
  OBVIOUS

(* The scanner thread starts once.                                         *)
LEMMA StartsOnce ==
    ASSUME BridgeInv, [Next]_vars, driver' = "unstarted"
    PROVE  driver = "unstarted"
<1> USE DEF counting, listener, stopping, boundary, history
<1>1. CASE DriverMoves
  BY <1>1 DEF DriverMoves, DeadlinePasses, CallBoundary, ProbeAccepted, Drain,
     StopHandlers, StopJoin, StopPostflight, StopExpires, Done, vars
<1>2. CASE BoundaryRaises \/ Connect \/ Start \/ ProbeConnect \/ SealBoundary \/ Stop
  BY <1>2 DEF BoundaryRaises, BoundaryFails, Connect, Start, ProbeConnect, SealBoundary,
     Stop
<1>3. CASE Loop
  BY <1>3 DEF Loop, LoopAccept, LoopProbe, LoopResume, LoopRegister, LoopAdmit,
     LoopDispatch, LoopExit
<1>4. CASE AdmissionStep \/ CleanupStep \/ UNCHANGED vars
  BY <1>4 DEF AdmissionStep, CleanupStep, vars
<1>5. CASE \E c \in Conn : Handler(c)
  BY <1>5, HandlerStep DEF BridgeInv, HandlerFrame
<1> QED BY <1>1, <1>2, <1>3, <1>4, <1>5, NextSteps

(* What the loop itself does.                                              *)
LEMMA LoopMoves ==
    ASSUME BridgeInv, Loop
    PROVE  /\ UNCHANGED <<driver, late, calls, gen, scope, closed, sealed, arrived, batch,
                          born, abandoned, cleanup, shut>>
           /\ \/ LoopAccept /\ loop.pc = "select"
                 /\ loop'.pc \in {"probe", "register"} /\ loop'.item = Head(backlog)
                 /\ loop'.gen \in {0, gen} /\ backlog # <<>> /\ backlog' = Tail(backlog)
                 /\ admission \in {"open", "starting"}
                 /\ (loop'.pc = "probe" <=> Head(backlog) \in checkpoints)
                 /\ (loop'.pc = "register" => loop'.gen = gen)
                 /\ UNCHANGED <<pending, conn, verdict, home, accepted, admission, inflight,
                                ctr, saturated>>
              \/ LoopProbe /\ loop.pc = "probe" /\ loop' = [loop EXCEPT !.pc = "pause"]
                 /\ accepted' = accepted \cup {loop.item}
                 /\ conn' = [conn EXCEPT ![loop.item] = "closed"]
                 /\ UNCHANGED <<pending, backlog, verdict, home, admission, inflight, ctr,
                                saturated>>
              \/ LoopResume /\ loop.pc = "pause" /\ loop' = Idle
                 /\ UNCHANGED <<pending, backlog, conn, verdict, home, accepted, admission,
                                inflight, ctr, saturated>>
              \/ LoopRegister /\ loop.pc = "register" /\ loop' = [loop EXCEPT !.pc = "admit"]
                 /\ pending' = pending + 1
                 /\ UNCHANGED <<backlog, conn, verdict, home, accepted, admission, inflight,
                                ctr, saturated>>
              \/ LoopAdmit /\ loop.pc = "admit" /\ pending' = pending - 1
                 /\ UNCHANGED <<backlog, accepted>>
                 /\ admission' \in {admission, "starting"}
                 /\ (admission # "open" => admission' = admission)
              \/ LoopDispatch /\ loop.pc = "dispatch" /\ loop' = Idle
                 /\ UNCHANGED <<pending, backlog, home, accepted, admission, saturated>>
              \/ LoopExit /\ loop.pc = "select" /\ loop' = [loop EXCEPT !.pc = "ended"]
                 /\ admission = "shutdown"
                 /\ UNCHANGED <<pending, backlog, conn, verdict, home, accepted, admission,
                                inflight, ctr, saturated>>
<1> USE DEF counting, listener, stopping, boundary, history, AtLoop, LoopAt, LoopDone
<1>1. CASE LoopAccept
  BY <1>1 DEF LoopAccept
<1>2. CASE LoopProbe
  BY <1>2 DEF LoopProbe
<1>3. CASE LoopResume
  BY <1>3 DEF LoopResume
<1>4. CASE LoopRegister
  BY <1>4 DEF LoopRegister
<1>5. CASE LoopAdmit
  BY <1>5 DEF LoopAdmit, AdmissionAsked
<1>6. CASE LoopDispatch
  BY <1>6 DEF LoopDispatch
<1>7. CASE LoopExit
  BY <1>7 DEF LoopExit
<1> QED BY <1>1, <1>2, <1>3, <1>4, <1>5, <1>6, <1>7 DEF Loop

(* The three answers of admission.                                         *)
Answered(why) ==
    /\ conn' = [conn EXCEPT ![loop.item] = "closed"]
    /\ verdict' = [verdict EXCEPT ![loop.item] = why]
    /\ loop' = Idle /\ UNCHANGED <<saturated, inflight, home>>
TakenOn ==
    /\ ~closed /\ loop.gen = gen /\ ~saturated
    /\ ctr' = CountHttp(ctr) /\ inflight' = inflight + 1
    /\ home' = [home EXCEPT ![loop.item] = scope]
    /\ saturated' = (ctr.http + 1 = MaxHttp)
    /\ loop' = [loop EXCEPT !.pc = "dispatch", !.gen = 0]
    /\ UNCHANGED <<conn, verdict>>

(* LoopAdmit gives one of them.                                            *)
LEMMA AdmitAnswers ==
    ASSUME LoopAdmit
    PROVE  \/ (closed \/ loop.gen # gen) /\ Answered("stale") /\ ctr' = CountRefusal(ctr)
           \/ ~closed /\ loop.gen = gen /\ saturated /\ Answered("dropped") /\ ctr' = ctr
           \/ TakenOn
  BY DEF LoopAdmit, Stale, Refuse, LoopDone, Answered, TakenOn, Saturates

(* After it the connection is on its way to a handler or done with.        *)
LEMMA AdmitLeaves ==
    ASSUME BridgeInv, LoopAdmit
    PROVE  /\ loop'.pc \in {"select", "dispatch"}
           /\ TakenOn => loop'.pc = "dispatch" /\ loop'.item = loop.item
<1>1. loop \in [pc : {"select", "probe", "pause", "register", "admit", "dispatch", "ended"},
                item : Conn \cup {0}, gen : Nat]
  BY DEF BridgeInv, LoopInv
<1>2. CASE TakenOn
  <2>1. loop' = [loop EXCEPT !.pc = "dispatch", !.gen = 0]
    BY <1>2 DEF TakenOn
  <2>2. loop'.pc = "dispatch" /\ loop'.item = loop.item
    BY <1>1, <2>1
  <2> QED BY <2>2
<1>3. CASE ~TakenOn
  <2>1. loop' = Idle
    BY <1>3, AdmitAnswers DEF Answered
  <2> QED BY <1>3, <2>1 DEF Idle
<1> QED BY <1>2, <1>3

(* The loop's hold on its connection is exclusive in the next state too.   *)
LEMMA LoopInvStep ==
    ASSUME BridgeInv, [Next]_vars
    PROVE  LoopInv'
<1>1. Shapes /\ LoopInv /\ BacklogInv
  BY DEF BridgeInv
<1>2. gen <= gen' /\ gen \in Nat /\ gen' \in Nat /\ loop.gen \in Nat
  BY <1>1, PhaseStep DEF BridgeInv, Shapes, LoopInv
<1>3. Len(backlog) \in Nat
  BY <1>1 DEF BacklogInv
<1>4. driver' = "unstarted" => admission' = "unbound"
  BY <1>1, StartsOnce, AdmissionOrder DEF LoopInv
<1>5. CASE ~Loop
  <2>1. UNCHANGED <<loop, pending>>
    BY <1>5, OutsideLoop
  <2>2. ASSUME loop.pc \in {"probe", "register", "admit", "dispatch"}
        PROVE  /\ loop.item \in Conn /\ conn'[loop.item] = "queued"
               /\ \A i \in 1 .. Len(backlog') : backlog'[i] # loop.item
    <3>1. loop.item \in Conn /\ conn[loop.item] = "queued"
          /\ \A i \in 1 .. Len(backlog) : backlog[i] # loop.item
      BY <1>1, <2>2 DEF LoopInv
    <3>2. conn'[loop.item] = "queued"
      BY <1>5, <3>1, OutsideQueue
    <3>3. CASE backlog' = backlog
      BY <3>1, <3>2, <3>3
    <3>4. CASE backlog' = <<>>
      BY <3>1, <3>2, <3>4
    <3>5. ASSUME NEW c \in Conn, conn[c] = "none", backlog' = Append(backlog, c)
          PROVE  \A i \in 1 .. Len(backlog') : backlog'[i] # loop.item
      <4>1. c # loop.item
        BY <3>1, <3>5
      <4> QED BY <1>1, <3>1, <3>5, <4>1, AppendOf DEF BacklogInv
    <3> QED BY <1>5, <3>1, <3>2, <3>3, <3>4, <3>5, OutsideQueue
  <2>3. loop.pc = "ended" => admission' \in {"shutdown", "closed"}
    BY <1>1, AdmissionOrder DEF LoopInv
  <2>4. admission' = "closed" => loop.pc = "ended"
    BY AdmissionOrder
  <2>5. loop.gen <= gen'
    BY <1>1, <1>2 DEF LoopInv
  <2> QED BY <1>1, <1>4, <2>1, <2>2, <2>3, <2>4, <2>5 DEF LoopInv
<1>6. CASE Loop
  <2>0. UNCHANGED gen
    BY <1>6, LoopMoves
  <2>1. ASSUME loop' = Idle \/ loop'.pc = "ended" \/ loop'.pc = "pause",
               pending' = 0, loop' \in [pc : {"select", "pause", "ended"},
                                        item : Conn \cup {0}, gen : Nat],
               loop'.gen <= gen', loop'.pc = "pause" => loop'.item \in Probe,
               admission' = "closed" => loop'.pc = "ended",
               loop'.pc = "ended" => admission' \in {"shutdown", "closed"}
        PROVE  LoopInv'
    BY <1>4, <2>1 DEF LoopInv, Idle
  <2>2. admission # "closed"
    BY <1>1, <1>6 DEF Loop, LoopInv, LoopAccept, LoopProbe, LoopResume, LoopRegister,
       LoopAdmit, LoopDispatch, LoopExit, AtLoop
  <2>3. Idle \in [pc : {"select", "pause", "ended"}, item : Conn \cup {0}, gen : Nat]
        /\ Idle.gen <= gen /\ Idle.pc = "select"
    BY <1>2 DEF Idle
  <2>4. CASE LoopAccept
    <3>1. /\ backlog # <<>> /\ backlog' = Tail(backlog) /\ loop.pc = "select"
          /\ admission \in {"open", "starting"}
          /\ loop' = [pc |-> IF Head(backlog) \in checkpoints THEN "probe" ELSE "register",
                      item |-> Head(backlog),
                      gen |-> IF Head(backlog) \in checkpoints THEN 0 ELSE gen]
          /\ UNCHANGED <<pending, conn, admission, gen>>
      BY <2>4 DEF LoopAccept, AtLoop, boundary
    <3>2. Head(backlog) \in Conn /\ Head(backlog) = backlog[1] /\ 1 \in 1 .. Len(backlog)
          /\ \A i \in 1 .. Len(backlog') :
                backlog'[i] = backlog[i + 1] /\ i + 1 \in 1 .. Len(backlog)
      BY <1>1, <3>1, TailOf DEF BacklogInv
    <3>3. conn[Head(backlog)] = "queued"
      BY <1>1, <3>2 DEF BacklogInv
    <3>4. \A i \in 1 .. Len(backlog') : backlog'[i] # Head(backlog)
      BY <1>1, <1>3, <3>2 DEF BacklogInv
    <3>5. Head(backlog) \in checkpoints => Head(backlog) \in Probe
      BY <1>1 DEF Shapes
    <3>6. pending = 0
      BY <1>1, <3>1 DEF LoopInv
    <3>7. loop' \in [pc : {"probe", "register"}, item : Conn, gen : Nat] /\ loop'.gen <= gen
          /\ (loop'.pc = "probe" => loop'.item \in Probe) /\ loop'.item = Head(backlog)
      BY <1>2, <3>1, <3>2, <3>5
    <3> QED BY <1>4, <2>2, <3>1, <3>3, <3>4, <3>6, <3>7 DEF LoopInv
  <2>5. CASE LoopProbe
    <3>1. loop.pc = "probe" /\ loop' = [loop EXCEPT !.pc = "pause"]
          /\ UNCHANGED <<pending, admission>>
      BY <2>5 DEF LoopProbe, AtLoop, LoopAt
    <3>2. loop' \in [pc : {"select", "pause", "ended"}, item : Conn \cup {0}, gen : Nat]
          /\ loop'.pc = "pause" /\ loop'.item \in Probe /\ loop'.gen = loop.gen
          /\ pending = 0 /\ loop.gen <= gen
      BY <1>1, <3>1 DEF LoopInv
    <3> QED BY <2>0, <2>1, <2>2, <3>1, <3>2
  <2>6. CASE LoopResume \/ LoopDispatch
    <3>1. loop' = Idle /\ UNCHANGED <<pending, admission>> /\ loop.pc \in {"pause", "dispatch"}
      BY <2>6 DEF LoopResume, LoopDispatch, AtLoop, LoopDone
    <3>2. pending = 0
      BY <1>1, <3>1 DEF LoopInv
    <3> QED BY <2>0, <2>1, <2>2, <2>3, <3>1, <3>2
  <2>7. CASE LoopRegister
    <3>1. loop.pc = "register" /\ loop' = [loop EXCEPT !.pc = "admit"] /\ pending' = pending + 1
          /\ UNCHANGED <<conn, backlog, admission>>
      BY <2>7 DEF LoopRegister, AtLoop, LoopAt
    <3>2. loop' \in [pc : {"admit"}, item : Conn, gen : Nat]
          /\ loop'.item = loop.item /\ loop'.gen = loop.gen /\ loop'.pc = "admit"
          /\ pending' = 1
      BY <1>1, <3>1 DEF LoopInv
    <3>3. /\ conn[loop.item] = "queued" /\ loop.gen <= gen
          /\ \A i \in 1 .. Len(backlog) : backlog[i] # loop.item
      BY <1>1, <3>1 DEF LoopInv
    <3> QED BY <1>4, <2>0, <2>2, <3>1, <3>2, <3>3 DEF LoopInv
  <2>8. CASE LoopAdmit
    <3>1. loop.pc = "admit" /\ pending' = pending - 1 /\ backlog' = backlog
          /\ admission' \in {admission, "starting"}
      BY <2>8 DEF LoopAdmit, AtLoop, AdmissionAsked
    <3>2. pending' = 0 /\ loop.item \in Conn /\ conn[loop.item] = "queued"
          /\ \A i \in 1 .. Len(backlog) : backlog[i] # loop.item
      BY <1>1, <3>1 DEF LoopInv
    <3>3. CASE loop' = Idle
      BY <2>0, <2>1, <2>2, <2>3, <3>1, <3>2, <3>3
    <3>4. CASE TakenOn
      <4>1. loop' = [loop EXCEPT !.pc = "dispatch", !.gen = 0] /\ conn' = conn
        BY <3>4 DEF TakenOn
      <4>2. loop' \in [pc : {"dispatch"}, item : Conn, gen : Nat] /\ loop'.gen = 0
            /\ loop'.item = loop.item /\ loop'.pc = "dispatch"
        BY <1>1, <3>2, <4>1 DEF LoopInv
      <4>3. /\ conn'[loop'.item] = "queued" /\ loop'.gen <= gen' /\ admission' # "closed"
            /\ \A i \in 1 .. Len(backlog') : backlog'[i] # loop'.item
        BY <1>2, <2>0, <2>2, <3>1, <3>2, <4>1, <4>2
      <4>4. pending' = 0
        BY <3>2
      <4> QED BY <1>4, <4>2, <4>3, <4>4 DEF LoopInv
    <3> QED BY <2>8, <3>3, <3>4, AdmitAnswers DEF Answered
  <2>9. CASE LoopExit
    <3>1. loop.pc = "select" /\ loop' = [loop EXCEPT !.pc = "ended"] /\ admission = "shutdown"
          /\ UNCHANGED <<pending, admission>>
      BY <2>9 DEF LoopExit, AtLoop, LoopAt
    <3>2. loop' \in [pc : {"select", "pause", "ended"}, item : Conn \cup {0}, gen : Nat]
          /\ loop'.pc = "ended" /\ loop'.gen = loop.gen /\ pending = 0 /\ loop.gen <= gen
      BY <1>1, <3>1 DEF LoopInv
    <3> QED BY <2>0, <2>1, <3>1, <3>2
  <2> QED BY <1>6, <2>4, <2>5, <2>6, <2>7, <2>8, <2>9 DEF Loop
<1> QED BY <1>5, <1>6

-----------------------------------------------------------------------------
(* The connections and their fates.                                        *)

(* Threads other than the loop and the handlers only make connections.     *)
LEMMA Bystanders ==
    ASSUME BridgeInv, [Next]_vars, ~Loop, \A c \in Conn : ~Handler(c)
    PROVE  /\ UNCHANGED <<verdict, inflight, ctr, saturated>>
           /\ \A c \in Conn : conn'[c] = conn[c] \/ (conn[c] = "none" /\ conn'[c] = "queued")
<1> USE DEF counting, listener, stopping, boundary, history
<1>1. CASE DriverMoves
  BY <1>1 DEF DriverMoves, DeadlinePasses, CallBoundary, ProbeAccepted, Drain,
     StopHandlers, StopJoin, StopPostflight, StopExpires, Done, vars
<1>2. CASE BoundaryRaises \/ Start \/ SealBoundary \/ Stop
  BY <1>2 DEF BoundaryRaises, BoundaryFails, Start, SealBoundary, Stop
<1>3. CASE Connect
  BY <1>3, ConnectEffect, Connections
<1>4. CASE ProbeConnect /\ ~BoundaryRaises
  BY <1>4, ProbeEffect, Connections
<1>5. CASE AdmissionStep \/ CleanupStep \/ UNCHANGED vars
  BY <1>5 DEF AdmissionStep, CleanupStep, vars
<1> QED BY <1>1, <1>2, <1>3, <1>4, <1>5, NextSteps

(* What the loop does to the connection it holds.                          *)
LEMMA LoopVerdicts ==
    ASSUME BridgeInv, Loop
    PROVE  \/ UNCHANGED <<conn, verdict, home>>
           \/ /\ loop.pc \in {"probe", "admit", "dispatch"}
              /\ loop.item \in Conn /\ conn[loop.item] = "queued"
              /\ \A d \in Conn \ {loop.item} :
                    conn'[d] = conn[d] /\ verdict'[d] = verdict[d] /\ home'[d] = home[d]
              /\ \/ conn'[loop.item] = "closed" /\ home'[loop.item] = home[loop.item]
                 \/ conn'[loop.item] \in {"queued", "handling"}
                    /\ verdict'[loop.item] = verdict[loop.item]
<1>1. Shapes /\ LoopInv
  BY DEF BridgeInv
<1>2. CASE LoopAccept \/ LoopResume \/ LoopRegister \/ LoopExit
  BY <1>2 DEF LoopAccept, LoopResume, LoopRegister, LoopExit, history
<1>3. CASE LoopProbe \/ LoopAdmit \/ LoopDispatch
  <2>1. loop.pc \in {"probe", "admit", "dispatch"}
    BY <1>3 DEF LoopProbe, LoopAdmit, LoopDispatch, AtLoop
  <2>2. loop.item \in Conn /\ conn[loop.item] = "queued"
    BY <1>1, <2>1 DEF LoopInv
  <2>3. CASE LoopProbe
    <3>1. conn' = [conn EXCEPT ![loop.item] = "closed"] /\ UNCHANGED <<verdict, home>>
      BY <2>3 DEF LoopProbe, history
    <3> QED BY <1>1, <2>1, <2>2, <3>1 DEF Shapes
  <2>4. CASE LoopAdmit
    <3>1. \/ conn' = [conn EXCEPT ![loop.item] = "closed"] /\ home' = home
             /\ \E why \in {"stale", "dropped"} : verdict' = [verdict EXCEPT ![loop.item] = why]
          \/ home' = [home EXCEPT ![loop.item] = scope] /\ UNCHANGED <<conn, verdict>>
      BY <2>4, AdmitAnswers DEF Answered, TakenOn
    <3> QED BY <1>1, <2>1, <2>2, <3>1 DEF Shapes
  <2>5. CASE LoopDispatch
    <3>1. /\ home' = home
          /\ \/ conn' = [conn EXCEPT ![loop.item] = "handling"] /\ UNCHANGED verdict
             \/ conn' = [conn EXCEPT ![loop.item] = "closed"]
                /\ \E why \in {"unserved", "limit"} :
                      verdict' = [verdict EXCEPT ![loop.item] = why]
      BY <2>5 DEF LoopDispatch
    <3> QED BY <1>1, <2>1, <2>2, <3>1 DEF Shapes
  <2> QED BY <1>3, <2>3, <2>4, <2>5
<1> QED BY <1>2, <1>3 DEF Loop

(* A handler changes the connection it serves.                             *)
LEMMA HandlerVerdicts ==
    ASSUME BridgeInv, NEW c \in Conn, Handler(c)
    PROVE  /\ UNCHANGED home
           /\ \A d \in Conn \ {c} : conn'[d] = conn[d] /\ verdict'[d] = verdict[d]
           /\ \/ conn[c] \in {"handling", "permitted", "forward"}
                 /\ conn'[c] \in {"permitted", "forward"} /\ verdict' = verdict
              \/ conn[c] \in {"handling", "permitted", "forward"}
                 /\ conn'[c] = "finish" /\ verdict'[c] \in Fate
              \/ conn[c] = "finish" /\ conn'[c] = "released" /\ verdict' = verdict
              \/ conn[c] = "released" /\ conn'[c] = "closed" /\ verdict' = verdict
<1>1. Shapes
  BY DEF BridgeInv
<1>2. HandlerFrame /\ HandlerMoves(c) /\ conn' = [conn EXCEPT ![c] = conn'[c]]
  BY HandlerStep DEF BridgeInv
<1>3. \A d \in Conn \ {c} : conn'[d] = conn[d]
  BY <1>1, <1>2 DEF Shapes
<1>4. \A d \in Conn \ {c} : verdict'[d] = verdict[d]
  BY <1>1, <1>2 DEF Shapes, HandlerMoves
<1>5. ASSUME NEW v \in Fate, verdict' = [verdict EXCEPT ![c] = v] PROVE verdict'[c] \in Fate
  BY <1>1, <1>5 DEF Shapes
<1> QED BY <1>2, <1>3, <1>4, <1>5 DEF HandlerMoves, HandlerFrame

(* Nothing is judged before it is served or refused.                       *)
LEMMA VerdictStep ==
    ASSUME BridgeInv, [Next]_vars, NEW c \in Conn
    PROVE  VerdictInv(c)'
<1>1. VerdictInv(c)
  BY DEF BridgeInv
<1>2. CASE Loop
  <2>1. CASE UNCHANGED <<conn, verdict, home>> \/ c # loop.item
    BY <1>1, <1>2, <2>1, LoopVerdicts DEF VerdictInv
  <2>2. CASE c = loop.item /\ conn[c] = "queued"
             /\ (conn'[c] = "closed" \/ (conn'[c] \in {"queued", "handling"}
                                        /\ verdict'[c] = verdict[c]))
    BY <1>1, <2>2 DEF VerdictInv
  <2> QED BY <1>2, <2>1, <2>2, LoopVerdicts
<1>3. ASSUME NEW d \in Conn, Handler(d) PROVE VerdictInv(c)'
  <2>1. CASE c # d
    BY <1>1, <1>3, <2>1, HandlerVerdicts DEF VerdictInv
  <2>2. CASE c = d
    BY <1>1, <1>3, <2>2, HandlerVerdicts DEF VerdictInv
  <2> QED BY <2>1, <2>2
<1>4. CASE ~Loop /\ \A d \in Conn : ~Handler(d)
  <2>1. UNCHANGED <<verdict, home>>
        /\ (conn'[c] = conn[c] \/ (conn[c] = "none" /\ conn'[c] = "queued"))
    BY <1>4, Bystanders, OutsideLoop
  <2> QED BY <1>1, <2>1 DEF VerdictInv
<1> QED BY <1>2, <1>3, <1>4

(* Where the scanner thread may go, and what that means for its calls.     *)
LEMMA DriverSteps ==
    ASSUME BridgeInv, [Next]_vars
    PROVE  \/ UNCHANGED <<driver, calls>>
           \/ calls' = calls + 1 /\ driver \in {"suite", "testing"} /\ driver' = "connect"
           \/ /\ calls' = calls
              /\ \/ driver \in BoundaryPc /\ driver' = "abort"
                 \/ driver = "connect" /\ driver' = "await"
                 \/ driver = "await" /\ driver' = "pending" /\ ThisProbe \in accepted
                 \/ driver \in {"pending", "handlers", "inflight"}
                    /\ driver' \in {"handlers", "inflight", "seal"}
                 \/ driver = "seal" /\ driver' \in {"testing", "suite", "abort"}
                 \/ driver = "unstarted" /\ driver' \in {"suite", "dead"}
                 \/ driver \in {"suite", "abort"} /\ driver' = "stopping"
                 \/ driver \in {"stopping", "join", "postflight"}
                    /\ driver' \in {"join", "postflight", "stopped", "unclean"}
<1> USE DEF counting, listener, stopping, boundary, history
<1>1. CASE DriverMoves
  BY <1>1 DEF DriverMoves, DeadlinePasses, CallBoundary, ProbeAccepted, Drain,
     StopHandlers, StopJoin, StopPostflight, StopExpires, Done, vars
<1>2. CASE BoundaryRaises \/ Connect \/ Start \/ Stop
  BY <1>2 DEF BoundaryRaises, BoundaryFails, Connect, Start, Stop
<1>3. CASE ProbeConnect /\ ~BoundaryRaises
  BY <1>3, ProbeEffect
<1>4. CASE SealBoundary
  BY <1>4 DEF SealBoundary
<1>5. CASE Loop
  BY <1>5, LoopMoves
<1>6. CASE AdmissionStep \/ CleanupStep \/ UNCHANGED vars
  BY <1>6 DEF AdmissionStep, CleanupStep, vars
<1>7. CASE \E c \in Conn : Handler(c)
  BY <1>7, HandlerStep DEF BridgeInv, HandlerFrame
<1> QED BY <1>1, <1>2, <1>3, <1>4, <1>5, <1>6, <1>7, NextSteps

(* As many probes as have been sent.                                       *)
LEMMA ProbesSent ==
    ASSUME NEW n \in Nat, n <= 2 * NTests,
           \A p \in Probe : conn[p] # "none" <=> p <= NRequests + n
    PROVE  Cardinality({p \in Probe : conn[p] # "none"}) = n
<1>1. NRequests \in Nat /\ NTests \in Nat
  BY Connections
<1>2. {p \in Probe : conn[p] # "none"} = (NRequests + 1) .. (NRequests + n)
  BY <1>1 DEF Probe
<1>3. PICK a \in Int, b \in Int : a = NRequests + 1 /\ b = NRequests + n
  BY <1>1
<1>4. Cardinality(a .. b) = IF a > b THEN 0 ELSE b - a + 1
  BY FS_Interval
<1>5. (IF a > b THEN 0 ELSE b - a + 1) = n
  BY <1>1, <1>3
<1> QED BY <1>2, <1>3, <1>4, <1>5

(* Requests and probes are sent in order.                                  *)
LEMMA SentStep ==
    ASSUME BridgeInv, [Next]_vars
    PROVE  SentInv'
<1>1. Shapes /\ PhaseInv /\ SentInv
  BY DEF BridgeInv
<1>2. calls \in Nat /\ calls <= 2 * NTests /\ calls' \in Nat /\ NTests \in Nat
      /\ NRequests \in Nat /\ arrived \in Nat
  BY <1>1, ScopeType, PhaseStep, Connections DEF BridgeInv, Shapes
<1>3. PICK n \in {calls - 1, calls} \cap Nat :
        /\ \A p \in Probe : conn[p] # "none" <=> p <= NRequests + n
        /\ driver = "connect" => n = calls - 1
        /\ driver \in {"suite", "testing"} \cup (BoundaryPc \ {"connect"}) => n = calls
        /\ \A c \in 1 .. arrived : born[c].probes <= n
  BY <1>1 DEF SentInv
<1>4. driver = "unstarted" => calls = 0
  BY <1>1 DEF PhaseInv
<1>5. CASE SameConnections
  <2>1. \A c \in Request : conn'[c] = "none" <=> c > arrived'
    BY <1>1, <1>5, Connections DEF SameConnections, SentInv
  <2>2. \A p \in Probe : conn'[p] # "none" <=> p <= NRequests + n
    BY <1>3, <1>5, Connections DEF SameConnections
  <2>3. \A c \in 1 .. arrived' : born'[c].probes <= n
    BY <1>3, <1>5 DEF SameConnections
  <2>4. CASE ~(driver = "connect" /\ driver' = "await")
    <3>1. /\ n \in {calls' - 1, calls'} \cap Nat
          /\ driver' = "connect" => n = calls' - 1
          /\ driver' \in {"suite", "testing"} \cup (BoundaryPc \ {"connect"}) => n = calls'
      <4>1. CASE UNCHANGED <<driver, calls>>
        BY <1>3, <4>1
      <4>2. CASE calls' = calls + 1 /\ driver \in {"suite", "testing"} /\ driver' = "connect"
        BY <1>2, <1>3, <4>2 DEF BoundaryPc
      <4>3. CASE calls' = calls /\ ~UNCHANGED driver
        <5>1. driver' # "connect"
              /\ (driver' \in {"suite", "testing"} \cup (BoundaryPc \ {"connect"}) => n = calls)
          BY <1>2, <1>3, <1>4, <2>4, <4>3, DriverSteps DEF BoundaryPc
        <5> QED BY <1>3, <4>3, <5>1
      <4> QED BY <4>1, <4>2, <4>3, DriverSteps
    <3> QED BY <2>1, <2>2, <2>3, <3>1 DEF SentInv
  <2>5. CASE driver = "connect" /\ driver' = "await"
    <3>1. ProbeConnect /\ ~BoundaryRaises
      <4>1. ~DriverMoves /\ ~BoundaryRaises
        BY <2>5 DEF DriverMoves, DeadlinePasses, CallBoundary, ProbeAccepted, Drain,
           StopHandlers, StopJoin, StopPostflight, StopExpires, Done, vars,
           BoundaryRaises, BoundaryFails
      <4>2. ~Connect /\ ~Start /\ ~SealBoundary /\ ~Stop /\ ~AdmissionStep /\ ~CleanupStep
            /\ ~UNCHANGED vars
        BY <2>5 DEF Connect, Start, SealBoundary, Stop, AdmissionStep, CleanupStep, vars
      <4>3. ~Loop
        BY <2>5, LoopMoves
      <4>4. ASSUME NEW c \in Conn, Handler(c) PROVE FALSE
        BY <2>5, <4>4, HandlerStep DEF BridgeInv, HandlerFrame
      <4> QED BY <4>1, <4>2, <4>3, <4>4, NextSteps
    <3>2. PICK p \in Probe : conn[p] = "none" /\ conn'[p] = "queued"
      BY <3>1, ProbeEffect
    <3> QED BY <1>5, <3>2, Connections DEF SameConnections
  <2> QED BY <2>4, <2>5
<1>6. CASE Connect
  <2>1. PICK c \in Request :
          /\ c = arrived + 1 /\ arrived' = c /\ conn'[c] = "queued"
          /\ \A d \in Conn \ {c} : conn'[d] = conn[d] /\ born'[d] = born[d]
          /\ born'[c] = [probes |-> Cardinality({p \in Probe : conn[p] # "none"}),
                         scope |-> scope]
          /\ UNCHANGED <<driver, calls>>
    BY <1>6, ConnectEffect
  <2>2. \A d \in Request : conn'[d] = "none" <=> d > arrived'
    BY <1>1, <1>2, <2>1, Connections DEF SentInv, Request
  <2>3. \A p \in Probe : conn'[p] # "none" <=> p <= NRequests + n
    BY <1>3, <2>1, Connections
  <2>4. born'[c].probes = n
    BY <1>2, <1>3, <2>1, ProbesSent
  <2>5. \A d \in 1 .. arrived' : born'[d].probes <= n
    <3>1. \A d \in 1 .. arrived : d \in Conn \ {c}
      BY <1>2, <2>1 DEF Request, Conn
    <3> QED BY <1>2, <1>3, <2>1, <2>4, <3>1
  <2> QED BY <1>3, <2>1, <2>2, <2>3, <2>5 DEF SentInv
<1>7. CASE ProbeConnect /\ ~BoundaryRaises
  <2>1. PICK p \in Probe :
          /\ p = NRequests + calls /\ conn'[p] = "queued"
          /\ \A d \in Conn \ {p} : conn'[d] = conn[d]
          /\ driver = "connect" /\ driver' = "await"
          /\ UNCHANGED <<calls, arrived, born>>
    BY <1>7, ProbeEffect
  <2>2. \A d \in Request : conn'[d] = "none" <=> d > arrived'
    BY <1>1, <2>1, Connections DEF SentInv
  <2>3. \A q \in Probe : conn'[q] # "none" <=> q <= NRequests + calls
    BY <1>2, <1>3, <2>1, Connections
  <2>4. \A d \in 1 .. arrived' : born'[d].probes <= calls
    <3>1. \A d \in 1 .. arrived : d \in Conn
      BY <1>1, <1>2 DEF Shapes, Conn, Request
    <3>2. \A d \in Conn : born[d].probes \in Nat
      BY <1>1 DEF Shapes
    <3> QED BY <1>2, <1>3, <2>1, <3>1, <3>2
  <2>5. calls' \in {calls' - 1, calls'} \cap Nat
    BY <1>2, <2>1
  <2> QED BY <1>2, <2>1, <2>2, <2>3, <2>4, <2>5 DEF SentInv
<1> QED BY <1>5, <1>6, <1>7, ConnectionStep

(* The queue stays in the order the connections were made.                 *)
LEMMA BacklogStep ==
    ASSUME BridgeInv, [Next]_vars
    PROVE  BacklogInv'
<1>1. Shapes /\ PhaseInv /\ SentInv /\ BacklogInv /\ LoopInv
  BY DEF BridgeInv
<1>2. calls \in Nat /\ calls <= 2 * NTests /\ NTests \in Nat /\ NRequests \in Nat
      /\ arrived \in Nat /\ Len(backlog) \in Nat
  BY <1>1, ScopeType, Connections DEF Shapes, BacklogInv
<1>3. PICK n \in {calls - 1, calls} \cap Nat :
        /\ \A p \in Probe : conn[p] # "none" <=> p <= NRequests + n
        /\ driver = "connect" => n = calls - 1
        /\ \A c \in 1 .. arrived : born[c].probes <= n
  BY <1>1 DEF SentInv
<1>4. \A c \in Conn : conn[c] # "none" => Key(c) <= n
  <2>1. \A c \in Request : conn[c] # "none" => c \in 1 .. arrived
    BY <1>1, <1>2 DEF SentInv, Request
  <2> QED BY <1>2, <1>3, <2>1, Connections DEF Key, Probe
<1>5. CASE SameConnections
  <2>1. \A c \in Conn : Key(c)' = Key(c)
    BY <1>5 DEF SameConnections, Key
  <2>2. CASE Loop
    <3>1. CASE LoopAccept
      <4>1. backlog # <<>> /\ backlog' = Tail(backlog) /\ conn' = conn
        BY <3>1 DEF LoopAccept
      <4>2. /\ backlog' \in Seq(Conn) /\ Len(backlog') \in Nat
            /\ \A i \in 1 .. Len(backlog') : backlog'[i] = backlog[i + 1]
                                             /\ i + 1 \in 1 .. Len(backlog)
        BY <1>1, <1>2, <4>1, TailOf DEF BacklogInv
      <4>3. \A i \in 1 .. Len(backlog') : backlog'[i] \in Conn /\ conn'[backlog'[i]] = "queued"
        BY <1>1, <4>1, <4>2 DEF BacklogInv
      <4>4. \A i, j \in 1 .. Len(backlog') : i < j =>
               backlog'[i] # backlog'[j] /\ Key(backlog'[i]) <= Key(backlog'[j])
        BY <1>1, <4>2 DEF BacklogInv
      <4>5. \A i \in 1 .. Len(backlog') : Key(backlog'[i]) = Key(backlog[i])'
        BY <2>1, <4>3
      <4> QED BY <4>2, <4>3, <4>4, <4>5 DEF BacklogInv
    <3>2. CASE ~LoopAccept
      <4>1. backlog' = backlog
        BY <2>2, <3>2, LoopMoves
      <4>2. \A i \in 1 .. Len(backlog) : backlog[i] \in Conn /\ conn'[backlog[i]] = "queued"
        <5> SUFFICES ASSUME NEW i \in 1 .. Len(backlog)
                     PROVE  backlog[i] \in Conn /\ conn'[backlog[i]] = "queued"
          OBVIOUS
        <5>1. backlog[i] \in Conn /\ conn[backlog[i]] = "queued"
          BY <1>1 DEF BacklogInv
        <5>2. loop.pc \in {"probe", "admit", "dispatch"} => loop.item # backlog[i]
          BY <1>1 DEF LoopInv
        <5> QED BY <1>5, <5>1, <5>2 DEF SameConnections
      <4>3. \A i \in 1 .. Len(backlog) : Key(backlog[i])' = Key(backlog[i])
        BY <2>1, <4>1, <4>2
      <4> QED BY <1>1, <4>1, <4>2, <4>3 DEF BacklogInv
    <3> QED BY <3>1, <3>2
  <2>3. CASE ~Loop
    <3>1. CASE backlog' = backlog
      <4>1. \A i \in 1 .. Len(backlog) : backlog[i] \in Conn /\ conn'[backlog[i]] = "queued"
        BY <1>1, <2>3, OutsideQueue DEF BacklogInv
      <4>2. \A i \in 1 .. Len(backlog) : Key(backlog[i])' = Key(backlog[i])
        BY <2>1, <3>1, <4>1
      <4> QED BY <1>1, <3>1, <4>1, <4>2 DEF BacklogInv
    <3>2. CASE backlog' = <<>>
      BY <3>2 DEF BacklogInv
    <3>3. ASSUME NEW c \in Conn, conn[c] = "none", conn'[c] = "queued" PROVE FALSE
      BY <1>5, <3>3 DEF SameConnections
    <3> QED BY <2>3, <3>1, <3>2, <3>3, OutsideQueue
  <2> QED BY <2>2, <2>3
<1>6. ASSUME NEW c \in Conn, conn[c] = "none", conn'[c] = "queued",
             \A d \in Conn \ {c} : conn'[d] = conn[d] /\ born'[d] = born[d],
             backlog' = Append(backlog, c), Key(c)' >= n, Key(c)' \in Nat
      PROVE  BacklogInv'
  <2>1. \A d \in Conn \ {c} : Key(d)' = Key(d)
    BY <1>6 DEF Key
  <2>2. \A i \in 1 .. Len(backlog) :
           backlog[i] \in Conn \ {c} /\ conn[backlog[i]] = "queued"
    BY <1>1, <1>6 DEF BacklogInv
  <2>3. /\ backlog' \in Seq(Conn) /\ Len(backlog') = Len(backlog) + 1
        /\ backlog'[Len(backlog) + 1] = c
        /\ \A i \in 1 .. Len(backlog) : backlog'[i] = backlog[i]
    BY <1>1, <1>6, AppendOf DEF BacklogInv
  <2>4. \A i \in 1 .. Len(backlog') : i \in 1 .. Len(backlog) \/ i = Len(backlog) + 1
    BY <1>2, <2>3
  <2>5. \A i \in 1 .. Len(backlog') : conn'[backlog'[i]] = "queued"
    BY <1>6, <2>2, <2>3, <2>4
  <2>6. \A i \in 1 .. Len(backlog) : Key(backlog[i])' = Key(backlog[i]) /\ Key(backlog[i]) <= n
    BY <1>4, <2>1, <2>2, <2>3
  <2>7. \A d \in Conn : Key(d) \in Int
    BY <1>1, Connections DEF Shapes, Key
  <2>8. ASSUME NEW i \in 1 .. Len(backlog'), NEW j \in 1 .. Len(backlog'), i < j
        PROVE  backlog'[i] # backlog'[j] /\ Key(backlog[i])' <= Key(backlog[j])'
    <3>1. i \in 1 .. Len(backlog)
      BY <1>2, <2>3, <2>8
    <3>2. CASE j \in 1 .. Len(backlog)
      BY <1>1, <2>3, <2>6, <2>8, <3>1, <3>2 DEF BacklogInv
    <3>3. CASE j = Len(backlog) + 1
      <4>1. backlog'[i] # c /\ backlog'[j] = c
        BY <2>2, <2>3, <3>1, <3>3
      <4>2. Key(backlog[i])' <= n /\ Key(backlog[i])' \in Int
        BY <2>2, <2>6, <2>7, <3>1
      <4> QED BY <1>6, <4>1, <4>2
    <3> QED BY <2>4, <3>2, <3>3
  <2> QED BY <2>3, <2>5, <2>8 DEF BacklogInv
<1>7. CASE Connect
  <2>1. PICK c \in Request :
          /\ conn[c] = "none" /\ conn'[c] = "queued"
          /\ \A d \in Conn \ {c} : conn'[d] = conn[d] /\ born'[d] = born[d]
          /\ born'[c] = [probes |-> Cardinality({p \in Probe : conn[p] # "none"}),
                         scope |-> scope]
          /\ backlog' = Append(backlog, c)
    BY <1>7, ConnectEffect
  <2>2. Cardinality({p \in Probe : conn[p] # "none"}) = n
    BY <1>2, <1>3, ProbesSent
  <2>3. Key(c)' = n
    BY <2>1, <2>2 DEF Key
  <2> QED BY <1>2, <1>6, <2>1, <2>3, Connections
<1>8. CASE ProbeConnect /\ ~BoundaryRaises
  <2>1. PICK p \in Probe :
          /\ p = NRequests + calls /\ conn[p] = "none" /\ conn'[p] = "queued"
          /\ \A d \in Conn \ {p} : conn'[d] = conn[d]
          /\ backlog' = Append(backlog, p) /\ born' = born
    BY <1>8, ProbeEffect
  <2>2. Key(p)' = calls
    BY <1>2, <2>1, Connections DEF Key
  <2>3. Key(p)' >= n /\ Key(p)' \in Nat
    BY <1>2, <2>2
  <2>4. p \in Conn /\ \A d \in Conn \ {p} : conn'[d] = conn[d] /\ born'[d] = born[d]
    BY <2>1, Connections
  <2> QED BY <1>6, <2>1, <2>3, <2>4
<1> QED BY <1>5, <1>7, <1>8, ConnectionStep

-----------------------------------------------------------------------------
(* Boundaries and the requests that wait.                                  *)

(* The generation says which scope is open.                                *)
LEMMA OpenScope ==
    ASSUME PhaseInv, Shapes
    PROVE  /\ scope # 0 => ~closed /\ gen = 2 * scope - 1 /\ calls <= 2 * scope
           /\ \A s \in Nat : ~closed /\ gen = 2 * s - 1 => scope = s
<1>1. NTests \in Nat /\ gen \in Nat /\ calls \in Nat /\ driver \in DriverPc
  BY Connections DEF Shapes
<1>2. CASE closed
  BY <1>2 DEF PhaseInv
<1>3. CASE ~closed
  <2>1. driver \in {"unstarted", "dead", "suite", "testing", "abort"} \cup BoundaryPc
    BY <1>1, <1>3 DEF PhaseInv, DriverPc
  <2>2. PICK k \in 0 .. NTests : AfterEnd(k) \/ AfterBegin(k) \/ InBegin(k) \/ InEnd(k)
    BY <2>1 DEF PhaseInv
  <2> QED BY <1>1, <1>3, <2>2 DEF AfterEnd, AfterBegin, InBegin, InEnd
<1> QED BY <1>2, <1>3

(* Only a sealed boundary and a stop advance the generation.               *)
LEMMA GenSteps ==
    ASSUME BridgeInv, [Next]_vars
    PROVE  \/ UNCHANGED <<gen, sealed>>
           \/ SealBoundary
           \/ closed' /\ sealed' = sealed
<1> USE DEF counting, listener, stopping, boundary, history
<1>1. CASE DriverMoves
  BY <1>1 DEF DriverMoves, DeadlinePasses, CallBoundary, ProbeAccepted, Drain,
     StopHandlers, StopJoin, StopPostflight, StopExpires, Done, vars
<1>2. CASE BoundaryRaises \/ Connect \/ Start \/ Stop \/ ProbeConnect
  BY <1>2 DEF BoundaryRaises, BoundaryFails, Connect, Start, Stop, ProbeConnect
<1>3. CASE Loop
  BY <1>3, LoopMoves
<1>4. CASE AdmissionStep \/ CleanupStep \/ UNCHANGED vars
  BY <1>4 DEF AdmissionStep, CleanupStep, vars
<1>5. CASE \E c \in Conn : Handler(c)
  BY <1>5, HandlerStep DEF BridgeInv, HandlerFrame
<1> QED BY <1>1, <1>2, <1>3, <1>4, <1>5, NextSteps

(* Accepted probes stay accepted; the loop accepts the one it holds.       *)
LEMMA AcceptedSteps ==
    ASSUME BridgeInv, [Next]_vars
    PROVE  \/ accepted' = accepted
           \/ LoopProbe /\ loop.pc = "probe" /\ accepted' = accepted \cup {loop.item}
<1>1. CASE ~Loop
  BY <1>1, OutsideLoop
<1>2. CASE Loop
  BY <1>2, LoopMoves
<1> QED BY <1>1, <1>2

(* What is closed stays closed, what was made stays as it was made.        *)
LEMMA Lasting ==
    ASSUME BridgeInv, [Next]_vars, NEW c \in Conn
    PROVE  /\ conn[c] = "closed" => conn'[c] = "closed"
           /\ conn[c] # "none" => born'[c] = born[c] /\ conn'[c] # "none"
           /\ conn[c] # "none" /\ conn'[c] = "queued" => conn[c] = "queued"
<1>1. CASE SameConnections
  BY <1>1 DEF SameConnections
<1>2. CASE Connect
  BY <1>2, ConnectEffect
<1>3. CASE ProbeConnect /\ ~BoundaryRaises
  BY <1>3, ProbeEffect
<1> QED BY <1>1, <1>2, <1>3, ConnectionStep

(* A boundary is sealed only after its probe was accepted.                 *)
LEMMA AcceptedStep ==
    ASSUME BridgeInv, [Next]_vars
    PROVE  AcceptedInv'
<1>1. Shapes /\ PhaseInv /\ AcceptedInv /\ LoopInv
  BY DEF BridgeInv
<1>2. accepted \subseteq accepted'
  BY AcceptedSteps
<1>3. \A p \in accepted' : conn'[p] = "closed"
  <2>1. \A p \in accepted : p \in Conn /\ conn[p] = "closed"
    BY <1>1, Connections DEF AcceptedInv, Shapes
  <2>2. CASE accepted' = accepted
    BY <2>1, <2>2, Lasting
  <2>3. CASE LoopProbe /\ loop.pc = "probe" /\ accepted' = accepted \cup {loop.item}
    <3>1. conn' = [conn EXCEPT ![loop.item] = "closed"] /\ loop.item \in Conn
      BY <1>1, <2>3 DEF LoopProbe, LoopInv
    <3>2. conn'[loop.item] = "closed"
      BY <1>1, <3>1 DEF Shapes
    <3> QED BY <2>1, <2>3, <3>2, Lasting
  <2> QED BY <2>2, <2>3, AcceptedSteps
<1>4. driver' \in {"pending", "handlers", "inflight", "seal"} => ThisProbe' \in accepted'
  <2>1. calls' = calls => ThisProbe' = ThisProbe
    BY DEF ThisProbe
  <2>2. ASSUME driver' \in {"pending", "handlers", "inflight", "seal"}
        PROVE  calls' = calls /\ ThisProbe \in accepted
    BY <1>1, <2>2, DriverSteps DEF AcceptedInv
  <2> QED BY <1>2, <2>1, <2>2
<1>5. SealBoundary => NRequests + calls \in accepted /\ gen = calls - 1 /\ gen' = calls
                      /\ calls \in Nat
  <2>1. SealBoundary => driver = "seal" /\ driver \in BoundaryPc /\ gen' = gen + 1
    BY DEF SealBoundary, BoundaryPc
  <2> QED BY <1>1, <2>1, BoundaryPhase DEF AcceptedInv, ThisProbe
<1>6. ~closed' => \A k \in 1 .. gen' : NRequests + k \in accepted'
  <2>1. closed => closed'
    BY PhaseStep DEF BridgeInv
  <2>2. CASE UNCHANGED <<gen, sealed>>
    BY <1>1, <1>2, <2>1, <2>2 DEF AcceptedInv
  <2>3. CASE SealBoundary
    <3>1. ~closed' => \A k \in 1 .. calls : k \in 1 .. gen \/ k = calls
      BY <1>5, <2>3
    <3> QED BY <1>1, <1>2, <1>5, <2>1, <2>3, <3>1 DEF AcceptedInv
  <2> QED BY <2>2, <2>3, GenSteps
<1>7. \A i \in 1 .. Len(sealed') : NRequests + 2 * sealed'[i].test \in accepted'
  <2>1. CASE sealed' = sealed
    BY <1>1, <1>2, <2>1 DEF AcceptedInv
  <2>2. CASE SealBoundary /\ sealed' # sealed
    <3>1. ~Beginning /\ sealed' = Append(sealed, [test |-> scope, count |-> acc,
                                                  status |-> ScopeStatus(acc)])
          /\ driver \in BoundaryPc
      BY <2>2 DEF SealBoundary, BoundaryPc
    <3>2. calls = 2 * scope
      BY <1>1, <3>1, BoundaryPhase
    <3>3. /\ Len(sealed) \in Nat /\ Len(sealed') = Len(sealed) + 1
          /\ \A i \in 1 .. Len(sealed) : sealed'[i] = sealed[i]
          /\ sealed'[Len(sealed) + 1].test = scope
      BY <1>1, <3>1 DEF Shapes
    <3> QED BY <1>1, <1>2, <1>5, <2>2, <3>2, <3>3 DEF AcceptedInv
  <2> QED BY <2>1, <2>2, GenSteps
<1> QED BY <1>3, <1>4, <1>6, <1>7 DEF AcceptedInv

(* A request that is made in this step joins the end of the queue, after   *)
(* every probe that was sent.                                              *)
LEMMA NewRequest ==
    ASSUME BridgeInv, [Next]_vars, NEW c \in Request, conn[c] = "none", conn'[c] # "none"
    PROVE  /\ conn'[c] = "queued" /\ born'[c].scope = scope
           /\ \E i \in 1 .. Len(backlog') : backlog'[i] = c
           /\ \A p \in Probe : p - NRequests > born'[c].probes => conn[p] = "none"
           /\ UNCHANGED <<gen, closed, loop, accepted, home>>
           /\ loop.pc \in {"probe", "register", "admit", "dispatch"} => loop.item # c
<1>1. Shapes /\ PhaseInv /\ SentInv /\ BacklogInv /\ LoopInv
  BY DEF BridgeInv
<1>2. Connect
  <2>1. CASE SameConnections
    BY <2>1, Connections DEF SameConnections
  <2>2. CASE ProbeConnect /\ ~BoundaryRaises
    BY <2>2, ProbeEffect, Connections
  <2> QED BY <2>1, <2>2, ConnectionStep
<1>3. PICK d \in Request :
        /\ conn'[d] = "queued"
        /\ \A e \in Conn \ {d} : conn'[e] = conn[e]
        /\ born'[d] = [probes |-> Cardinality({p \in Probe : conn[p] # "none"}),
                       scope |-> scope]
        /\ backlog' = Append(backlog, d)
        /\ UNCHANGED <<gen, closed, loop, accepted, home>>
  BY <1>2, ConnectEffect
<1>4. c = d
  BY <1>3, Connections
<1>5. \E i \in 1 .. Len(backlog') : backlog'[i] = c
  <2>1. Len(backlog) \in Nat /\ Len(backlog') = Len(backlog) + 1 /\ backlog'[Len(backlog) + 1] = c
    BY <1>1, <1>3, <1>4, Connections, AppendOf DEF BacklogInv
  <2> QED BY <2>1
<1>6. \A p \in Probe : p - NRequests > born'[c].probes => conn[p] = "none"
  <2>1. PICK n \in {calls - 1, calls} \cap Nat :
          \A p \in Probe : conn[p] # "none" <=> p <= NRequests + n
    BY <1>1 DEF SentInv
  <2>2. n <= 2 * NTests
    <3>1. calls \in 0 .. 2 * NTests /\ NTests \in Nat
      BY <1>1, ScopeType, Connections
    <3> QED BY <3>1
  <2>3. born'[c].probes = n
    BY <1>3, <1>4, <2>1, <2>2, ProbesSent
  <2> QED BY <2>1, <2>3, Connections DEF Probe
<1>7. loop.pc \in {"probe", "register", "admit", "dispatch"} => loop.item # c
  BY <1>1 DEF LoopInv
<1> QED BY <1>3, <1>4, <1>5, <1>6, <1>7

(* A request that waits was waiting or is new.                             *)
LEMMA StillWaiting ==
    ASSUME BridgeInv, [Next]_vars, NEW c \in Request, Waiting(c)', conn[c] # "none"
    PROVE  Waiting(c) /\ born'[c] = born[c]
<1>1. c \in Conn /\ LoopInv /\ Shapes
  BY Connections DEF BridgeInv
<1>2. conn[c] = "queued" /\ born'[c] = born[c]
  BY <1>1, Lasting DEF Waiting
<1>3. ASSUME loop.pc = "dispatch", loop.item = c PROVE FALSE
  <2>1. CASE ~Loop
    BY <1>3, <2>1, OutsideLoop DEF Waiting
  <2>2. CASE Loop
    <3>1. LoopDispatch
      BY <1>3, <2>2, LoopMoves
    <3>2. conn' \in {[conn EXCEPT ![c] = "handling"], [conn EXCEPT ![c] = "closed"]}
      BY <1>3, <3>1 DEF LoopDispatch
    <3> QED BY <1>1, <3>2 DEF Waiting, Shapes
  <2> QED BY <2>1, <2>2
<1> QED BY <1>2, <1>3 DEF Waiting

(* A request in the queue or in the loop's hands does not get lost, and is *)
(* not overtaken by a probe sent after it.                                 *)
LEMMA WaitingStep ==
    ASSUME BridgeInv, [Next]_vars, NEW c \in Request
    PROVE  WaitingInv(c)'
<1>1. /\ c \in Conn /\ Shapes /\ LoopInv /\ BacklogInv /\ AcceptedInv /\ WaitingInv(c)
      /\ Len(backlog) \in Nat
  BY Connections DEF BridgeInv, BacklogInv
<1>2. SUFFICES ASSUME Waiting(c)'
               PROVE  /\ \/ \E i \in 1 .. Len(backlog') : backlog'[i] = c
                         \/ loop'.pc \in {"register", "admit"} /\ loop'.item = c
                         \/ admission' = "closed"
                      /\ \A p \in Probe : p - NRequests > born'[c].probes =>
                            p \notin accepted' /\ ~(loop'.pc = "probe" /\ loop'.item = p)
  BY DEF WaitingInv
<1>3. CASE conn[c] = "none"
  <2>1. conn'[c] # "none"
    BY <1>2 DEF Waiting
  <2>2. /\ \E i \in 1 .. Len(backlog') : backlog'[i] = c
        /\ \A p \in Probe : p - NRequests > born'[c].probes => conn[p] = "none"
        /\ UNCHANGED <<loop, accepted>>
    BY <1>3, <2>1, NewRequest
  <2>3. \A p \in Probe : conn[p] = "none" =>
           p \notin accepted /\ ~(loop.pc = "probe" /\ loop.item = p)
    BY <1>1 DEF AcceptedInv, LoopInv
  <2> QED BY <2>2, <2>3
<1>4. CASE conn[c] # "none"
  <2>1. Waiting(c) /\ born'[c] = born[c]
    BY <1>2, <1>4, StillWaiting
  <2>2. \/ \E i \in 1 .. Len(backlog) : backlog[i] = c
        \/ loop.pc \in {"register", "admit"} /\ loop.item = c
        \/ admission = "closed"
    BY <1>1, <2>1 DEF WaitingInv
  <2>3. \A p \in Probe : p - NRequests > born[c].probes =>
           p \notin accepted /\ ~(loop.pc = "probe" /\ loop.item = p)
    BY <1>1, <2>1 DEF WaitingInv
  <2>4. \/ \E i \in 1 .. Len(backlog') : backlog'[i] = c
        \/ loop'.pc \in {"register", "admit"} /\ loop'.item = c
        \/ admission' = "closed"
    <3>1. CASE admission = "closed"
      BY <3>1, AdmissionOrder
    <3>2. CASE \E i \in 1 .. Len(backlog) : backlog[i] = c
      <4>1. PICK i \in 1 .. Len(backlog) : backlog[i] = c
        BY <3>2
      <4>2. CASE ~Loop
        <5>1. CASE backlog' = backlog
          BY <4>1, <5>1
        <5>2. ASSUME NEW d \in Conn, backlog' = Append(backlog, d)
              PROVE  \E j \in 1 .. Len(backlog') : backlog'[j] = c
          <6>1. Len(backlog') = Len(backlog) + 1 /\ backlog'[i] = backlog[i]
            BY <1>1, <5>2, AppendOf DEF BacklogInv
          <6> QED BY <1>1, <4>1, <6>1
        <5> QED BY <4>2, <5>1, <5>2, OutsideQueue
      <4>3. CASE Loop /\ LoopAccept
        <5>1. /\ backlog # <<>> /\ backlog' = Tail(backlog)
              /\ loop'.item = Head(backlog)
              /\ loop'.pc = IF Head(backlog) \in checkpoints THEN "probe" ELSE "register"
          BY <4>3 DEF LoopAccept
        <5>2. Head(backlog) = backlog[1] /\ Len(backlog') = Len(backlog) - 1
              /\ \A j \in 1 .. Len(backlog') : backlog'[j] = backlog[j + 1]
          BY <1>1, <5>1, TailOf DEF BacklogInv
        <5>3. CASE i = 1
          <6>1. Head(backlog) = c /\ c \notin checkpoints
            BY <1>1, <4>1, <5>2, <5>3, Connections DEF Shapes
          <6> QED BY <5>1, <6>1
        <5>4. CASE i # 1
          <6>1. i - 1 \in 1 .. Len(backlog') /\ (i - 1) + 1 = i
            BY <1>1, <5>2, <5>4
          <6>2. backlog'[i - 1] = c
            BY <4>1, <5>2, <6>1
          <6> QED BY <6>1, <6>2
        <5> QED BY <5>3, <5>4
      <4>4. CASE Loop /\ ~LoopAccept
        <5>1. backlog' = backlog
          BY <4>4, LoopMoves
        <5> QED BY <4>1, <5>1
      <4> QED BY <4>2, <4>3, <4>4
    <3>3. CASE loop.pc \in {"register", "admit"} /\ loop.item = c
      <4>1. CASE ~Loop
        BY <3>3, <4>1, OutsideLoop
      <4>2. CASE Loop /\ loop.pc = "register"
        <5>1. loop' = [loop EXCEPT !.pc = "admit"]
          BY <4>2, LoopMoves
        <5> QED BY <1>1, <3>3, <5>1 DEF LoopInv
      <4>3. CASE Loop /\ loop.pc = "admit"
        <5>1. LoopAdmit
          BY <4>3, LoopMoves
        <5>2. CASE conn' = [conn EXCEPT ![loop.item] = "closed"]
          BY <1>1, <1>2, <3>3, <5>2 DEF Waiting, Shapes
        <5>3. CASE loop' = [loop EXCEPT !.pc = "dispatch", !.gen = 0]
          <6>1. loop'.pc = "dispatch" /\ loop'.item = c
            BY <1>1, <3>3, <5>3 DEF LoopInv
          <6> QED BY <1>2, <6>1 DEF Waiting
        <5> QED BY <5>1, <5>2, <5>3, AdmitAnswers DEF Answered, TakenOn
      <4> QED BY <3>3, <4>1, <4>2, <4>3
    <3> QED BY <2>2, <3>1, <3>2, <3>3
  <2>5. ASSUME NEW p \in Probe, p - NRequests > born[c].probes
        PROVE  p \notin accepted' /\ ~(loop'.pc = "probe" /\ loop'.item = p)
    <3>1. p \notin accepted'
      BY <2>3, <2>5, AcceptedSteps
    <3>2. ASSUME loop'.pc = "probe", loop'.item = p PROVE FALSE
      <4>1. CASE ~Loop
        BY <2>3, <2>5, <3>2, <4>1, OutsideLoop
      <4>2. CASE Loop
        <5>1. loop.pc = "select" /\ backlog # <<>> /\ p = Head(backlog)
              /\ admission \in {"open", "starting"}
          <6>1. CASE LoopAccept
            BY <3>2, <6>1 DEF LoopAccept, AtLoop
          <6>2. CASE LoopAdmit
            <7>1. loop'.pc \in {"select", "dispatch"}
              BY <6>2, AdmitLeaves
            <7> QED BY <3>2, <7>1
          <6>3. CASE ~LoopAccept /\ ~LoopAdmit
            BY <1>1, <3>2, <4>2, <6>3, LoopMoves DEF Idle, LoopInv
          <6> QED BY <6>1, <6>2, <6>3
        <5>2. PICK i \in 1 .. Len(backlog) : backlog[i] = c
          BY <2>2, <5>1
        <5>3. Head(backlog) = backlog[1] /\ 1 \in 1 .. Len(backlog)
          BY <1>1, <5>1, TailOf DEF BacklogInv
        <5>4. i # 1
          BY <5>1, <5>2, <5>3, Connections
        <5>5. Key(p) <= Key(c)
          BY <1>1, <5>1, <5>2, <5>3, <5>4 DEF BacklogInv
        <5>6. Key(p) = p - NRequests /\ Key(c) = born[c].probes /\ born[c].probes \in Nat
          BY <1>1, Connections DEF Key, Shapes
        <5> QED BY <2>5, <5>5, <5>6, Connections
      <4> QED BY <4>1, <4>2
    <3> QED BY <3>1, <3>2
  <2> QED BY <2>1, <2>4, <2>5
<1> QED BY <1>3, <1>4

(* The scope a waiting request was made in, against the loop's generation. *)
LEMMA BornStep ==
    ASSUME BridgeInv, [Next]_vars, NEW c \in Request
    PROVE  BornInv(c)'
<1>1. /\ c \in Conn /\ Shapes /\ LoopInv /\ BacklogInv /\ PhaseInv /\ SentInv /\ AcceptedInv
      /\ WaitingInv(c) /\ BornInv(c)
  BY Connections DEF BridgeInv
<1>2. /\ gen \in Nat /\ gen' \in Nat /\ gen <= gen' /\ (closed => closed')
      /\ \A d \in Conn : born[d].probes \in Nat /\ born[d].scope \in Nat
      /\ loop.gen \in Nat
  <2>1. gen \in Nat /\ gen' \in Nat /\ gen <= gen' /\ (closed => closed')
    BY PhaseStep DEF BridgeInv, Shapes
  <2>2. \A d \in Conn : born[d].probes \in Nat /\ born[d].scope \in 0 .. NTests
    BY <1>1 DEF Shapes
  <2>3. loop.gen \in Nat
    BY <1>1 DEF LoopInv
  <2> QED BY <2>1, <2>2, <2>3, Connections
<1>3. CASE conn'[c] = "none"
  <2>1. c > arrived' /\ ~(loop'.pc \in {"register", "admit"} /\ loop'.item = c)
    <3>1. SentInv' /\ LoopInv'
      BY SentStep, LoopInvStep
    <3> QED BY <1>3, <3>1 DEF SentInv, LoopInv
  <2>2. ~(c <= arrived')
    <3>1. arrived' \in Nat /\ c \in Nat
      BY ShapesStep, Connections DEF Shapes
    <3> QED BY <2>1, <3>1
  <2> QED BY <2>1, <2>2 DEF BornInv
<1>4. CASE conn'[c] # "none" /\ conn[c] = "none"
  <2>1. /\ born'[c].scope = scope /\ UNCHANGED <<gen, closed, loop>>
        /\ ~(loop.pc \in {"register", "admit"} /\ loop.item = c)
    BY <1>4, NewRequest
  <2>2. scope # 0 => 2 * scope - 1 <= gen
    BY <1>1, <1>2, OpenScope
  <2> QED BY <2>1, <2>2 DEF BornInv
<1>5. CASE conn[c] # "none"
  <2>1. born'[c] = born[c] /\ c <= arrived
    <3>1. ~(c > arrived) /\ arrived \in Nat /\ c \in Nat
      BY <1>1, <1>5, Connections DEF SentInv, Shapes
    <3> QED BY <1>1, <1>5, <3>1, Lasting
  <2>2. born[c].scope # 0 => 2 * born[c].scope - 1 <= gen
    BY <1>1, <2>1 DEF BornInv
  <2>3. born[c].scope # 0 => 2 * born[c].scope - 1 <= gen'
    BY <1>1, <1>2, <2>2
  <2>4. ASSUME loop'.pc \in {"register", "admit"}, loop'.item = c
        PROVE  \/ loop' = loop
               \/ loop'.gen = loop.gen /\ loop.pc = "register" /\ loop.item = c /\ closed' = closed
               \/ loop'.gen = gen /\ closed' = closed /\ Waiting(c)
    <3>1. CASE ~Loop
      BY <3>1, OutsideLoop
    <3>2. CASE LoopAccept
      <4>1. /\ backlog # <<>> /\ loop'.item = Head(backlog) /\ closed' = closed
            /\ (Head(backlog) \notin checkpoints => loop'.gen = gen)
            /\ (Head(backlog) \in checkpoints => loop'.pc = "probe") /\ loop.pc = "select"
        BY <3>2 DEF LoopAccept, boundary, AtLoop
      <4>2. Head(backlog) = backlog[1] /\ 1 \in 1 .. Len(backlog)
        BY <1>1, <4>1, TailOf DEF BacklogInv
      <4>3. conn[c] = "queued"
        BY <1>1, <2>4, <4>1, <4>2 DEF BacklogInv
      <4> QED BY <2>4, <4>1, <4>3 DEF Waiting
    <3>3. CASE LoopRegister
      <4>1. loop.pc = "register" /\ loop' = [loop EXCEPT !.pc = "admit"] /\ closed' = closed
        BY <3>3 DEF LoopRegister, AtLoop, LoopAt, boundary
      <4> QED BY <1>1, <2>4, <4>1 DEF LoopInv
    <3>4. CASE LoopAdmit
      BY <2>4, <3>4, AdmitLeaves
    <3>5. CASE Loop /\ ~LoopAccept /\ ~LoopRegister /\ ~LoopAdmit
      BY <1>1, <2>4, <3>5, LoopMoves DEF Idle, LoopInv
    <3> QED BY <3>1, <3>2, <3>3, <3>4, <3>5
  <2>5. ASSUME Waiting(c), ~closed PROVE gen <= born[c].probes
    <3>1. CASE gen = 0
      BY <1>1, <1>2, <3>1
    <3>2. CASE gen # 0
      <4>1. NRequests + gen \in accepted /\ NRequests + gen \in Probe
        BY <1>1, <1>2, <2>5, <3>2 DEF AcceptedInv, Shapes
      <4>2. ~((NRequests + gen) - NRequests > born[c].probes)
        BY <1>1, <2>5, <4>1 DEF WaitingInv
      <4> QED BY <1>1, <1>2, <4>2, Connections
    <3> QED BY <3>1, <3>2
  <2>6. ASSUME loop'.pc \in {"register", "admit"}, loop'.item = c
        PROVE  /\ born[c].scope # 0 => 2 * born[c].scope - 1 <= loop'.gen
               /\ ~closed' => loop'.gen <= born[c].probes
    BY <1>1, <1>2, <2>1, <2>2, <2>4, <2>5, <2>6 DEF BornInv
  <2> QED BY <2>1, <2>3, <2>6 DEF BornInv
<1> QED BY <1>3, <1>4, <1>5

(* A request the loop is about to decide on: if it was made in scope s     *)
(* before its end was asked for, the decision finds the scope still open.  *)
LEMMA DecidedInTime ==
    ASSUME BridgeInv, NEW c \in Request, Waiting(c), loop.pc = "admit", loop.item = c,
           born[c].scope # 0, born[c].probes = 2 * born[c].scope - 1
    PROVE  /\ ~closed => loop.gen = gen /\ scope = born[c].scope
           /\ \A i \in 1 .. Len(sealed) : sealed[i].test # born[c].scope
<1>1. /\ c \in Conn /\ Shapes /\ LoopInv /\ PhaseInv /\ SentInv /\ AcceptedInv
      /\ WaitingInv(c) /\ BornInv(c)
  BY Connections DEF BridgeInv
<1>2. gen \in Nat /\ loop.gen \in Nat /\ loop.gen <= gen
  BY <1>1 DEF Shapes, LoopInv
<1>3. PICK s \in 1 .. NTests : s = born[c].scope
  <2>1. born[c].scope \in 0 .. NTests /\ NTests \in Nat
    BY <1>1, Connections DEF Shapes
  <2> QED BY <2>1
<1>4. NRequests + 2 * s \notin accepted
  <2>1. NRequests + 2 * s \in Probe /\ (NRequests + 2 * s) - NRequests > 2 * s - 1
    BY <1>3, Connections DEF Probe
  <2> QED BY <1>1, <1>3, <2>1 DEF WaitingInv
<1>5. \A i \in 1 .. Len(sealed) : sealed[i].test # s
  BY <1>1, <1>4 DEF AcceptedInv
<1>6. ASSUME ~closed PROVE loop.gen = gen /\ scope = s
  <2>1. c <= arrived
    <3>1. ~(c > arrived) /\ arrived \in Nat /\ c \in Nat
      BY <1>1, Connections DEF SentInv, Shapes, Waiting
    <3> QED BY <3>1
  <2>2. loop.gen = 2 * s - 1
    <3>1. 2 * s - 1 <= loop.gen /\ loop.gen <= 2 * s - 1
      BY <1>1, <1>3, <1>6, <2>1 DEF BornInv
    <3> QED BY <1>2, <1>3, <3>1, Connections
  <2>3. ~(gen >= 2 * s)
    <3>1. ASSUME gen >= 2 * s PROVE FALSE
      <4>1. 2 * s \in 1 .. gen
        BY <1>2, <1>3, <3>1, Connections
      <4> QED BY <1>1, <1>4, <1>6, <4>1 DEF AcceptedInv
    <3> QED BY <3>1
  <2>4. gen = 2 * s - 1
    BY <1>2, <1>3, <2>2, <2>3, Connections
  <2> QED BY <1>1, <1>6, <2>2, <2>4, OpenScope, <1>3, Connections
<1> QED BY <1>3, <1>5, <1>6

(* A request is accounted to the test that was running.                    *)
LEMMA WindowStep ==
    ASSUME BridgeInv, [Next]_vars, NEW c \in Request
    PROVE  WindowInv(c)'
<1>1. /\ c \in Conn /\ Shapes /\ LoopInv /\ PhaseInv /\ SentInv /\ VerdictInv(c)
      /\ BornInv(c) /\ WindowInv(c)
  BY Connections DEF BridgeInv
<1>2. c \in Nat /\ arrived \in Nat /\ arrived' \in Nat
  BY <1>1, ShapesStep, Connections DEF Shapes
<1>3. CASE conn[c] = "none"
  <2>1. home[c] = 0
    BY <1>1, <1>3 DEF VerdictInv
  <2>2. CASE conn'[c] = "none"
    <3>1. ~(c <= arrived') /\ home'[c] = 0
      <4>1. SentInv' /\ VerdictInv(c)'
        BY <1>1, SentStep, VerdictStep
      <4> QED BY <1>2, <2>2, <4>1 DEF SentInv, VerdictInv
    <3> QED BY <3>1 DEF WindowInv
  <2>3. CASE conn'[c] # "none"
    <3>1. /\ conn'[c] = "queued" /\ UNCHANGED <<loop, home>>
          /\ ~(loop.pc = "dispatch" /\ loop.item = c)
      BY <1>3, <2>3, NewRequest
    <3>2. Waiting(c)' /\ home'[c] = 0
      BY <2>1, <3>1 DEF Waiting
    <3> QED BY <3>2 DEF WindowInv
  <2> QED BY <2>2, <2>3
<1>4. CASE conn[c] # "none"
  <2>1. born'[c] = born[c] /\ c <= arrived
    <3>1. ~(c > arrived)
      BY <1>1, <1>4 DEF SentInv
    <3> QED BY <1>1, <1>2, <1>4, <3>1, Lasting
  <2>2. CASE LoopAdmit /\ loop.item = c
    <3>1. loop.pc = "admit" /\ conn[c] = "queued" /\ Waiting(c)
          /\ UNCHANGED <<closed, sealed>>
      BY <1>1, <2>2 DEF LoopAdmit, AtLoop, LoopInv, Waiting, boundary
    <3>2. CASE TakenOn
      <4>1. home'[c] = scope /\ ~closed /\ loop.gen = gen
        BY <1>1, <2>2, <3>2 DEF TakenOn, Shapes
      <4>2. scope # 0 => born[c].probes \in {2 * scope - 1, 2 * scope}
        <5>1. loop.gen <= born[c].probes
          BY <1>1, <2>2, <3>1, <4>1 DEF BornInv
        <5>2. PICK n \in {calls - 1, calls} \cap Nat : born[c].probes <= n
          <6>1. c \in 1 .. arrived
            BY <1>2, <2>1 DEF Request
          <6> QED BY <1>1, <6>1 DEF SentInv
        <5>3. calls \in Nat /\ born[c].probes \in Nat /\ scope \in Nat
          BY <1>1, ScopeType, Connections DEF Shapes
        <5>4. scope # 0 => gen = 2 * scope - 1 /\ calls <= 2 * scope
          BY <1>1, OpenScope
        <5> QED BY <4>1, <5>1, <5>2, <5>3, <5>4
      <4>3. born[c].scope # 0 /\ born[c].probes = 2 * born[c].scope - 1 =>
               scope = born[c].scope
        BY <2>2, <3>1, <4>1, DecidedInTime
      <4> QED BY <2>1, <4>1, <4>2, <4>3 DEF WindowInv
    <3>3. CASE ~TakenOn
      <4>1. home' = home
            /\ \/ (closed \/ loop.gen # gen) /\ verdict' = [verdict EXCEPT ![c] = "stale"]
               \/ verdict' = [verdict EXCEPT ![c] = "dropped"]
        BY <2>2, <3>3, AdmitAnswers DEF Answered
      <4>2. CASE verdict' = [verdict EXCEPT ![c] = "dropped"]
        <5>1. verdict'[c] = "dropped"
          BY <1>1, <4>2 DEF Shapes
        <5> QED BY <1>1, <2>1, <4>1, <5>1 DEF WindowInv
      <4>3. CASE closed \/ loop.gen # gen
        <5>1. ASSUME born[c].scope # 0, born[c].probes = 2 * born[c].scope - 1
              PROVE  Unsealed(born[c].scope)'
          <6>1. closed /\ \A i \in 1 .. Len(sealed) : sealed[i].test # born[c].scope
            BY <2>2, <3>1, <4>3, <5>1, DecidedInTime
          <6> QED BY <2>1, <3>1, <6>1 DEF Unsealed
        <5> QED BY <1>1, <2>1, <4>1, <5>1 DEF WindowInv
      <4> QED BY <4>1, <4>2, <4>3
    <3> QED BY <3>2, <3>3
  <2>3. CASE ~(LoopAdmit /\ loop.item = c)
    <3>1. home'[c] = home[c]
      <4>1. CASE Loop /\ ~LoopAdmit
        BY <4>1, LoopMoves
      <4>2. CASE LoopAdmit
        <5>1. loop.item # c /\ (home' = home \/ home' = [home EXCEPT ![loop.item] = scope])
          BY <2>3, <4>2, AdmitAnswers DEF Answered, TakenOn
        <5> QED BY <1>1, <5>1 DEF Shapes
      <4>3. CASE ~Loop
        BY <4>3, OutsideLoop
      <4> QED BY <4>1, <4>2, <4>3
    <3>2. Waiting(c) => Waiting(c)'
      <4>1. CASE ~Loop
        BY <1>1, <4>1, OutsideLoop, OutsideQueue DEF Waiting
      <4>2. CASE Loop
        <5>1. ASSUME Waiting(c) PROVE conn'[c] = "queued"
          <6>1. conn[c] = "queued" /\ (loop.pc = "dispatch" => loop.item # c)
            BY <5>1 DEF Waiting
          <6>2. loop.pc = "probe" => loop.item # c
            BY <1>1, Connections DEF LoopInv
          <6>3. loop.pc = "admit" => loop.item # c
            BY <2>3, <4>2, LoopMoves
          <6> QED BY <1>1, <4>2, <6>1, <6>2, <6>3, LoopVerdicts
        <5>2. ASSUME loop'.pc = "dispatch", loop'.item = c PROVE FALSE
          <6>1. LoopAdmit
            <7>1. CASE ~LoopAdmit
              BY <1>1, <4>2, <5>2, <7>1, LoopMoves DEF Idle, LoopInv
            <7> QED BY <7>1
          <6>2. TakenOn
            BY <5>2, <6>1, AdmitAnswers DEF Answered, Idle
          <6> QED BY <2>3, <5>2, <6>1, <6>2, AdmitLeaves
        <5> QED BY <5>1, <5>2 DEF Waiting
      <4> QED BY <4>1, <4>2
    <3>3. verdict[c] = "dropped" => verdict'[c] = "dropped"
      <4>1. verdict[c] = "dropped" => conn[c] = "closed"
        BY <1>1 DEF VerdictInv, Shapes, Stage, Handling, Fate, RejectionKind
      <4>2. CASE Loop
        BY <1>1, <4>1, <4>2, LoopVerdicts
      <4>3. ASSUME NEW d \in Conn, Handler(d)
            PROVE  verdict[c] = "dropped" => verdict'[c] = "dropped"
        BY <1>1, <4>1, <4>3, HandlerVerdicts
      <4>4. CASE ~Loop /\ \A d \in Conn : ~Handler(d)
        BY <4>4, Bystanders
      <4> QED BY <4>2, <4>3, <4>4
    <3>4. \A s : Unsealed(s) => Unsealed(s)'
      <4>1. closed => closed' /\ ~SealBoundary
        <5>1. SealBoundary => driver \in BoundaryPc
          BY DEF SealBoundary, BoundaryPc
        <5> QED BY <1>1, <5>1, PhaseStep, BoundaryPhase DEF BridgeInv
      <4>2. closed => sealed' = sealed
        BY <4>1, GenSteps
      <4> QED BY <4>1, <4>2 DEF Unsealed
    <3> QED BY <1>1, <2>1, <3>1, <3>2, <3>3, <3>4 DEF WindowInv
  <2> QED BY <2>2, <2>3
<1> QED BY <1>3, <1>4

-----------------------------------------------------------------------------
(* The clean stop.                                                         *)

(* What a clean stop waited for stays so.                                  *)
LEMMA StopStep ==
    ASSUME BridgeInv, [Next]_vars
    PROVE  StopInv'
<1> USE DEF counting, listener, stopping, boundary, history
<1>1. Shapes /\ LoopInv /\ StopInv /\ PhaseInv
  BY DEF BridgeInv
<1>2. \/ UNCHANGED cleanup
      \/ cleanup' = "admission" /\ driver' = "stopping"
      \/ CleanupStep
  <2>1. CASE DriverMoves
    BY <2>1 DEF DriverMoves, DeadlinePasses, CallBoundary, ProbeAccepted, Drain,
       StopHandlers, StopJoin, StopPostflight, StopExpires, Done, vars
  <2>2. CASE BoundaryRaises \/ Connect \/ Start \/ ProbeConnect \/ SealBoundary \/ Stop
    BY <2>2 DEF BoundaryRaises, BoundaryFails, Connect, Start, ProbeConnect, SealBoundary,
       Stop
  <2>3. CASE Loop
    BY <2>3, LoopMoves
  <2>4. CASE AdmissionStep \/ UNCHANGED vars
    BY <2>4 DEF AdmissionStep, vars
  <2>5. CASE \E c \in Conn : Handler(c)
    BY <2>5, HandlerStep DEF BridgeInv, HandlerFrame
  <2> QED BY <2>1, <2>2, <2>3, <2>4, <2>5, NextSteps
<1>3. cleanup' = "done" => admission' = "closed"
  BY <1>1, <1>2, AdmissionOrder DEF StopInv, CleanupStep
<1>4. ASSUME driver' \in {"join", "postflight", "stopped"}, driver' # driver
      PROVE  /\ cleanup' = "done" /\ \A c \in Conn : conn'[c] \notin Handling
    <2>1. StopHandlers \/ StopJoin \/ StopPostflight
      <3>1. CASE DriverMoves
        BY <1>4, <3>1 DEF DriverMoves, DeadlinePasses, CallBoundary, ProbeAccepted, Drain,
           StopExpires, Done, vars
      <3>2. CASE BoundaryRaises \/ Connect \/ Start \/ ProbeConnect \/ SealBoundary \/ Stop
        BY <1>4, <3>2 DEF BoundaryRaises, BoundaryFails, Connect, Start, ProbeConnect,
           SealBoundary, Stop
      <3>3. CASE Loop
        BY <1>4, <3>3, LoopMoves
      <3>4. CASE AdmissionStep \/ CleanupStep \/ UNCHANGED vars
        BY <1>4, <3>4 DEF AdmissionStep, CleanupStep, vars
      <3>5. CASE \E c \in Conn : Handler(c)
        BY <1>4, <3>5, HandlerStep DEF BridgeInv, HandlerFrame
      <3> QED BY <3>1, <3>2, <3>3, <3>4, <3>5, NextSteps
    <2>2. UNCHANGED <<conn, cleanup>>
      BY <2>1 DEF StopHandlers, StopJoin, StopPostflight
    <2>3. cleanup = "done" /\ \A c \in Conn : conn[c] \notin Handling
      BY <1>1, <2>1 DEF StopHandlers, StopJoin, StopPostflight, StopInv, Active
    <2> QED BY <2>2, <2>3
<1>5. ASSUME driver \in {"join", "postflight", "stopped"}, driver' = driver
      PROVE  /\ cleanup' = "done" /\ \A c \in Conn : conn'[c] \notin Handling
  <2>1. cleanup = "done" /\ admission = "closed" /\ \A c \in Conn : conn[c] \notin Handling
    BY <1>1, <1>5 DEF StopInv
  <2>2. cleanup' = "done"
    BY <1>2, <1>5, <2>1 DEF CleanupStep
  <2>3. ~Loop
    BY <1>1, <2>1 DEF LoopInv, Loop, LoopAccept, LoopProbe, LoopResume, LoopRegister,
       LoopAdmit, LoopDispatch, LoopExit, AtLoop
  <2>4. CASE \A c \in Conn : ~Handler(c)
    BY <2>1, <2>2, <2>3, <2>4, Bystanders DEF Handling
  <2>5. ASSUME NEW c \in Conn, Handler(c)
        PROVE  \A d \in Conn : conn'[d] \notin Handling
    BY <2>1, <2>5, HandlerVerdicts DEF Handling
  <2> QED BY <2>2, <2>4, <2>5
<1> QED BY <1>3, <1>4, <1>5 DEF StopInv

(* Nothing counts once a clean stop is over.                               *)
LEMMA FrozenStep ==
    ASSUME BridgeInv, [Next]_vars, driver = "stopped"
    PROVE  UNCHANGED <<ctr, acc, sealed>>
<1> USE DEF counting, listener, stopping, boundary, history
<1>1. Shapes /\ LoopInv /\ StopInv /\ CounterInv
  BY DEF BridgeInv
<1>2. admission = "closed" /\ \A c \in Conn : conn[c] \notin Handling
  BY <1>1 DEF StopInv
<1>3. CASE Loop
  BY <1>1, <1>2, <1>3 DEF LoopInv, Loop, LoopAccept, LoopProbe, LoopResume, LoopRegister,
     LoopAdmit, LoopDispatch, LoopExit, AtLoop
<1>4. ASSUME NEW c \in Conn, Handler(c) PROVE UNCHANGED <<ctr, acc, sealed>>
  <2>1. conn[c] = "released"
    BY <1>2, <1>4, HandlerVerdicts DEF Handling
  <2> QED BY <1>1, <1>4, <2>1, HandlerStep DEF HandlerFrame
<1>5. CASE DriverMoves
  BY <1>5 DEF DriverMoves, DeadlinePasses, CallBoundary, ProbeAccepted, Drain,
     StopHandlers, StopJoin, StopPostflight, StopExpires, Done, vars
<1>6. CASE BoundaryRaises \/ Connect \/ Start \/ ProbeConnect \/ SealBoundary \/ Stop
  BY <1>6 DEF BoundaryRaises, BoundaryFails, Connect, Start, ProbeConnect, SealBoundary,
     Stop
<1>7. CASE AdmissionStep \/ CleanupStep \/ UNCHANGED vars
  BY <1>7 DEF AdmissionStep, CleanupStep, vars
<1> QED BY <1>3, <1>4, <1>5, <1>6, <1>7, NextSteps

-----------------------------------------------------------------------------
(* The HTTP budget.                                                        *)

(* Counting a set of connections with one more or one less in it.          *)
LEMMA OneMore ==
    ASSUME NEW S \in SUBSET Conn, NEW c \in Conn
    PROVE  /\ c \notin S => Cardinality(S \cup {c}) = Cardinality(S) + 1
           /\ c \in S => Cardinality(S \ {c}) = Cardinality(S) - 1
           /\ Cardinality(S) \in Nat
<1>1. IsFiniteSet(S) /\ Cardinality(S) \in Nat
  BY ConnCardinality
<1>2. c \notin S => Cardinality(S \cup {c}) = Cardinality(S) + 1
  BY <1>1, FS_AddElement
<1>3. c \in S => Cardinality(S \ {c}) = Cardinality(S) - 1
  BY <1>1, FS_RemoveElement
<1> QED BY <1>1, <1>2, <1>3

(* Who is served, admitted and refused, one connection at a time.          *)
Serves(c) == conn[c] \in Handling \cup {"released"} \/ (loop.pc = "dispatch" /\ loop.item = c)
Admits(c) ==
    \/ conn[c] \in Handling \cup {"released"}
    \/ verdict[c] \in Fate \cup {"unserved"}
    \/ loop.pc = "dispatch" /\ loop.item = c

(* The sets of the invariant, by their members.                            *)
LEMMA Members ==
    /\ Serving = {c \in Conn : Serves(c)} /\ Admitted = {c \in Conn : Admits(c)}
    /\ Refused = {c \in Conn : verdict[c] = "stale"}
    /\ Serving' = {c \in Conn : Serves(c)'} /\ Admitted' = {c \in Conn : Admits(c)'}
    /\ Refused' = {c \in Conn : verdict'[c] = "stale"}
  BY DEF Serving, Admitted, Refused, Serves, Admits, AtLoop, Fate

(* The invariant's sums hold again when nobody changes sides.              *)
LEMMA SameSides ==
    ASSUME HttpInv, CounterInv, UNCHANGED <<inflight, saturated>>, ctr'.http = ctr.http,
           \A c \in Conn : /\ Serves(c)' <=> Serves(c)
                           /\ Admits(c)' <=> Admits(c)
                           /\ verdict'[c] = "stale" <=> verdict[c] = "stale"
    PROVE  HttpInv'
<1>1. Serving' = Serving /\ Admitted' = Admitted /\ Refused' = Refused
  BY Members
<1> QED BY <1>1 DEF HttpInv

(* The requests in flight and the admitted ones are counted exactly, and   *)
(* the budget holds as long as nothing was refused as stale.               *)
LEMMA HttpStep ==
    ASSUME BridgeInv, [Next]_vars
    PROVE  HttpInv'
<1>1. Shapes /\ LoopInv /\ HttpInv /\ CounterInv /\ (\A c \in Conn : VerdictInv(c)) /\ Flags
  BY DEF BridgeInv
<1>2. MaxHttp \in Nat \ {0} /\ ctr.http \in Nat
  BY <1>1, BoundsAssumption DEF CounterInv, Counters
<1>3. /\ Cardinality(Serving) \in Nat /\ Cardinality(Admitted) \in Nat
      /\ Cardinality(Refused) \in Nat
  <2>1. Serving \in SUBSET Conn /\ Admitted \in SUBSET Conn /\ Refused \in SUBSET Conn
    BY DEF Serving, Admitted, Refused
  <2> QED BY <2>1, ConnCardinality
<1>4. CASE ~Loop /\ \A d \in Conn : ~Handler(d)
  <2>1. /\ UNCHANGED <<verdict, inflight, ctr, saturated, loop>>
        /\ \A c \in Conn : conn'[c] = conn[c] \/ (conn[c] = "none" /\ conn'[c] = "queued")
    BY <1>4, Bystanders, OutsideLoop
  <2>2. \A c \in Conn : /\ Serves(c)' <=> Serves(c)
                        /\ Admits(c)' <=> Admits(c)
                        /\ verdict'[c] = "stale" <=> verdict[c] = "stale"
    BY <2>1 DEF Serves, Admits, Handling
  <2> QED BY <1>1, <2>1, <2>2, SameSides
<1>5. ASSUME NEW d \in Conn, Handler(d) PROVE HttpInv'
  <2>1. ctr'.http = ctr.http /\ HandlerFrame /\ HandlerMoves(d)
    BY <1>1, <1>5, HandlerStep
  <2>2. UNCHANGED <<saturated, loop>>
    BY <2>1 DEF HandlerFrame, listener
  <2>3. \A c \in Conn \ {d} : conn'[c] = conn[c] /\ verdict'[c] = verdict[c]
    BY <1>5, HandlerVerdicts
  <2>4. \A c \in Conn \ {d} : /\ Serves(c)' <=> Serves(c)
                              /\ Admits(c)' <=> Admits(c)
                              /\ verdict'[c] = "stale" <=> verdict[c] = "stale"
    BY <2>2, <2>3 DEF Serves, Admits
  <2>5. loop.pc = "dispatch" => loop.item # d
    <3>1. conn[d] # "queued"
      BY <1>5, HandlerVerdicts
    <3> QED BY <1>1, <3>1 DEF LoopInv
  <2>6. CASE conn[d] # "released"
    <3>1. inflight' = inflight
      BY <2>1, <2>6 DEF HandlerMoves
    <3>2. conn[d] \in Handling /\ conn'[d] \in Handling \cup {"released"}
      BY <1>5, <2>6, HandlerVerdicts DEF Handling
    <3>3. verdict[d] # "stale" /\ verdict'[d] # "stale"
      BY <1>1, <1>5, <2>6, HandlerVerdicts DEF VerdictInv, Fate, RejectionKind
    <3>4. /\ Serves(d)' <=> Serves(d)
          /\ Admits(d)' <=> Admits(d)
          /\ verdict'[d] = "stale" <=> verdict[d] = "stale"
      BY <3>2, <3>3 DEF Serves, Admits
    <3> QED BY <1>1, <2>1, <2>2, <2>4, <3>1, <3>4, SameSides
  <2>7. CASE conn[d] = "released"
    <3>1. inflight' = inflight - 1 /\ conn'[d] = "closed" /\ verdict' = verdict
      BY <2>1, <2>7 DEF HandlerMoves
    <3>2. verdict[d] \in Fate
      BY <1>1, <2>7 DEF VerdictInv
    <3>3. Serves(d) /\ ~Serves(d)' /\ Admits(d) /\ Admits(d)'
      BY <2>2, <2>5, <2>7, <3>1, <3>2 DEF Serves, Admits, Handling
    <3>4. Serving' = Serving \ {d} /\ d \in Serving /\ Admitted' = Admitted /\ Refused' = Refused
      BY <2>4, <3>1, <3>3, Members
    <3>5. Cardinality(Serving') = Cardinality(Serving) - 1
      BY <3>4, OneMore DEF Serving
    <3> QED BY <1>1, <2>1, <2>2, <3>1, <3>4, <3>5 DEF HttpInv
  <2> QED BY <2>6, <2>7
<1>6. CASE Loop /\ loop.pc \notin {"admit", "dispatch"}
  <2>1. UNCHANGED <<verdict, inflight, ctr, saturated>> /\ loop'.pc # "dispatch"
    BY <1>1, <1>6, LoopMoves DEF Idle, LoopInv
  <2>2. \/ UNCHANGED conn
        \/ /\ loop.pc = "probe" /\ loop.item \in Conn
           /\ conn[loop.item] = "queued" /\ conn'[loop.item] = "closed"
           /\ \A d \in Conn \ {loop.item} : conn'[d] = conn[d]
    <3>1. CASE LoopProbe
      <4>1. loop.pc = "probe" /\ conn' = [conn EXCEPT ![loop.item] = "closed"]
        BY <3>1 DEF LoopProbe, AtLoop
      <4>2. loop.item \in Conn /\ conn[loop.item] = "queued"
        BY <1>1, <4>1 DEF LoopInv
      <4> QED BY <1>1, <4>1, <4>2 DEF Shapes
    <3> QED BY <1>6, <3>1, LoopMoves
  <2>3. \A c \in Conn : /\ Serves(c)' <=> Serves(c)
                        /\ Admits(c)' <=> Admits(c)
                        /\ verdict'[c] = "stale" <=> verdict[c] = "stale"
    BY <1>6, <2>1, <2>2, Zenon DEF Serves, Admits, Handling
  <2> QED BY <1>1, <2>1, <2>3, SameSides
<1>7. ASSUME Loop, loop.pc \in {"admit", "dispatch"}
      PROVE  \E c \in Conn : /\ c = loop.item /\ conn[c] = "queued" /\ verdict[c] = "none"
                             /\ \A d \in Conn \ {c} :
                                   conn'[d] = conn[d] /\ verdict'[d] = verdict[d]
  <2>1. loop.item \in Conn /\ conn[loop.item] = "queued"
    BY <1>1, <1>7 DEF LoopInv
  <2>2. verdict[loop.item] = "none"
    BY <1>1, <2>1 DEF VerdictInv
  <2> QED BY <1>7, <2>1, <2>2, LoopVerdicts
<1>8. CASE Loop /\ loop.pc = "admit"
  <2>1. PICK c \in Conn : /\ c = loop.item /\ conn[c] = "queued" /\ verdict[c] = "none"
                          /\ \A d \in Conn \ {c} :
                                conn'[d] = conn[d] /\ verdict'[d] = verdict[d]
    BY <1>7, <1>8
  <2>2. LoopAdmit
    BY <1>8, LoopMoves
  <2>3. ~Serves(c) /\ ~Admits(c)
    BY <1>8, <2>1 DEF Serves, Admits, Handling, Fate, RejectionKind
  <2>4. CASE TakenOn
    <3>1. /\ ctr' = CountHttp(ctr) /\ inflight' = inflight + 1 /\ UNCHANGED <<conn, verdict>>
          /\ ~saturated /\ saturated' = (ctr.http + 1 = MaxHttp)
      BY <2>4 DEF TakenOn
    <3>2. loop'.pc = "dispatch" /\ loop'.item = c
      BY <2>1, <2>2, <2>4, AdmitLeaves
    <3>3. Serves(c)' /\ Admits(c)'
      BY <3>2 DEF Serves, Admits
    <3>4. \A d \in Conn \ {c} : (Serves(d)' <=> Serves(d)) /\ (Admits(d)' <=> Admits(d))
      BY <1>8, <3>1, <3>2 DEF Serves, Admits
    <3>5. /\ Serving' = Serving \cup {c} /\ c \notin Serving
          /\ Admitted' = Admitted \cup {c} /\ c \notin Admitted /\ Refused' = Refused
      BY <2>3, <3>1, <3>3, <3>4, Members
    <3>6. /\ Cardinality(Serving') = Cardinality(Serving) + 1
          /\ Cardinality(Admitted') = Cardinality(Admitted) + 1
      BY <3>5, OneMore DEF Serving, Admitted
    <3>7. ctr'.http = ctr.http + 1
      BY <1>1, <3>1, Counting DEF CounterInv
    <3>8. Refused' = {} => ctr'.http <= MaxHttp /\ (ctr'.http = MaxHttp => saturated')
      <4>1. Refused' = {} => ctr.http <= MaxHttp /\ ctr.http # MaxHttp
        BY <1>1, <3>1, <3>5, Zenon DEF HttpInv
      <4>2. Refused' = {} => ctr'.http <= MaxHttp
        BY <1>2, <3>7, <4>1
      <4>3. ctr'.http = MaxHttp => saturated'
        BY <3>1, <3>7, Zenon
      <4> QED BY <4>2, <4>3, Zenon
    <3>9. /\ inflight' = Cardinality(Serving')
          /\ ctr'.http = Cardinality(Admitted') + Cardinality(Refused')
      BY <1>1, <1>3, <3>1, <3>5, <3>6, <3>7 DEF HttpInv
    <3> QED BY <3>8, <3>9 DEF HttpInv
  <2>5. CASE ~TakenOn
    <3>1. /\ conn' = [conn EXCEPT ![loop.item] = "closed"] /\ loop' = Idle
          /\ UNCHANGED <<saturated, inflight>>
          /\ \/ ctr' = CountRefusal(ctr) /\ verdict' = [verdict EXCEPT ![loop.item] = "stale"]
             \/ ctr' = ctr /\ verdict' = [verdict EXCEPT ![loop.item] = "dropped"]
      BY <2>2, <2>5, AdmitAnswers DEF Answered
    <3>2. conn'[c] = "closed" /\ loop'.pc = "select" /\ verdict'[c] \in {"stale", "dropped"}
      BY <1>1, <2>1, <3>1 DEF Shapes, Idle
    <3>3. ~Serves(c)' /\ ~Admits(c)'
      BY <3>2 DEF Serves, Admits, Handling, Fate, RejectionKind
    <3>4. \A d \in Conn : (Serves(d)' <=> Serves(d)) /\ (Admits(d)' <=> Admits(d))
      BY <1>8, <2>1, <2>3, <3>2, <3>3 DEF Serves, Admits
    <3>5. CASE verdict'[c] = "dropped"
      <4>1. ctr' = ctr
        BY <1>1, <2>1, <3>1, <3>5 DEF Shapes
      <4>2. \A d \in Conn : verdict'[d] = "stale" <=> verdict[d] = "stale"
        BY <2>1, <3>5
      <4> QED BY <1>1, <3>1, <3>4, <4>1, <4>2, SameSides
    <3>6. CASE verdict'[c] = "stale"
      <4>1. ctr' = CountRefusal(ctr)
        BY <1>1, <2>1, <3>1, <3>6 DEF Shapes
      <4>2. ctr'.http = ctr.http + 1
        BY <1>1, <4>1, Counting DEF CounterInv
      <4>3. Serving' = Serving /\ Admitted' = Admitted
            /\ Refused' = Refused \cup {c} /\ c \notin Refused
        BY <2>1, <3>4, <3>6, Members
      <4>4. Cardinality(Refused') = Cardinality(Refused) + 1
        BY <4>3, OneMore DEF Refused
      <4> QED BY <1>1, <1>2, <1>3, <3>1, <4>2, <4>3, <4>4 DEF HttpInv
    <3> QED BY <3>2, <3>5, <3>6
  <2> QED BY <2>4, <2>5
<1>9. CASE Loop /\ loop.pc = "dispatch"
  <2>1. PICK c \in Conn : /\ c = loop.item /\ conn[c] = "queued" /\ verdict[c] = "none"
                          /\ \A d \in Conn \ {c} :
                                conn'[d] = conn[d] /\ verdict'[d] = verdict[d]
    BY <1>7, <1>9
  <2>2. LoopDispatch /\ loop' = Idle /\ loop'.pc = "select" /\ UNCHANGED saturated
    BY <1>9, LoopMoves DEF Idle
  <2>3. Serves(c) /\ Admits(c)
    BY <1>9, <2>1 DEF Serves, Admits
  <2>4. \A d \in Conn \ {c} : (Serves(d)' <=> Serves(d)) /\ (Admits(d)' <=> Admits(d))
    BY <2>1, <2>2 DEF Serves, Admits
  <2>5. CASE conn' = [conn EXCEPT ![loop.item] = "handling"] /\ UNCHANGED <<inflight, verdict, ctr>>
    <3>1. Serves(c)' /\ Admits(c)'
      BY <1>1, <2>1, <2>5 DEF Serves, Admits, Shapes, Handling
    <3> QED BY <1>1, <2>2, <2>3, <2>4, <2>5, <3>1, SameSides
  <2>6. ASSUME NEW why \in {"unserved", "limit"}, inflight' = inflight - 1,
               conn' = [conn EXCEPT ![loop.item] = "closed"],
               verdict' = [verdict EXCEPT ![loop.item] = why],
               ctr'.http = ctr.http
        PROVE  HttpInv'
    <3>1. conn'[c] = "closed" /\ verdict'[c] = why
      BY <1>1, <2>1, <2>6 DEF Shapes
    <3>2. ~Serves(c)' /\ Admits(c)'
      BY <2>2, <3>1 DEF Serves, Admits, Handling, Fate, RejectionKind
    <3>3. \A d \in Conn : verdict'[d] = "stale" <=> verdict[d] = "stale"
      BY <2>1, <3>1
    <3>4. /\ Serving' = Serving \ {c} /\ c \in Serving
          /\ Admitted' = Admitted /\ Refused' = Refused
      BY <2>3, <2>4, <3>2, <3>3, Members
    <3>5. Cardinality(Serving') = Cardinality(Serving) - 1
      BY <3>4, OneMore DEF Serving
    <3> QED BY <1>1, <2>2, <2>6, <3>4, <3>5 DEF HttpInv
  <2>7. CountRejection(ctr, "limit").http = ctr.http
    BY <1>1, Counting DEF CounterInv, RejectionKind
  <2> QED BY <2>2, <2>5, <2>6, <2>7 DEF LoopDispatch, counting
<1> QED BY <1>4, <1>5, <1>6, <1>8, <1>9

-----------------------------------------------------------------------------
(* The theorems.                                                           *)

(* The initial state satisfies the invariant.                              *)
LEMMA BridgeInit ==
    ASSUME Init
    PROVE  BridgeInv
<1> USE DEF Init
<1>1. NRequests \in Nat /\ NTests \in Nat /\ MaxHttp \in Nat \ {0}
  BY BoundsAssumption
<1>2. Flags
  BY DEF Flags
<1>3. Zero \in Counters /\ NoCalls \in [origin : Nat, synthetic : Nat]
  BY DEF Zero, Counters, NoCalls
<1>4. Shapes
  BY <1>1, <1>3 DEF Shapes, DriverPc, Stage
<1>5. CounterInv
  BY <1>3 DEF CounterInv
<1>6. PhaseInv
  BY <1>1 DEF PhaseInv, AfterEnd, BoundaryPc
<1>7. LoopInv
  BY DEF LoopInv, Idle
<1>8. \A c \in Conn : VerdictInv(c)
  BY DEF VerdictInv
<1>9. SentInv
  <2>1. \A c \in Request : conn[c] = "none" /\ c > arrived
    BY <1>1 DEF Request, Conn
  <2>2. \A p \in Probe : conn[p] = "none" /\ ~(p <= NRequests + 0)
    BY <1>1 DEF Probe, Conn
  <2>3. 0 \in {calls - 1, calls} \cap Nat
    OBVIOUS
  <2>4. driver # "connect" /\ driver \notin {"suite", "testing"} \cup (BoundaryPc \ {"connect"})
    BY DEF BoundaryPc
  <2>5. 1 .. arrived = {}
    OBVIOUS
  <2> QED BY <2>1, <2>2, <2>3, <2>4, <2>5 DEF SentInv
<1>10. BacklogInv
  BY DEF BacklogInv
<1>11. AcceptedInv
  BY DEF AcceptedInv
<1>12. ASSUME NEW c \in Request PROVE WaitingInv(c) /\ BornInv(c) /\ WindowInv(c)
  <2>1. c \in Conn /\ ~(c <= arrived) /\ ~Waiting(c) /\ home[c] = 0
    BY <1>1 DEF Request, Conn, Waiting
  <2>2. loop.pc = "select"
    BY DEF Idle
  <2> QED BY <2>1, <2>2 DEF WaitingInv, BornInv, WindowInv
<1>13. StopInv
  BY DEF StopInv
<1>14. HttpInv
  <2>1. Serving = {} /\ Admitted = {} /\ Refused = {}
    BY DEF Serving, Admitted, Refused, Handling, Idle, AtLoop, RejectionKind
  <2>2. Cardinality({}) = 0
    BY FS_EmptySet
  <2>3. ctr.http = 0
    BY DEF Zero
  <2> QED BY <1>1, <2>1, <2>2, <2>3 DEF HttpInv
<1> QED BY <1>2, <1>4, <1>5, <1>6, <1>7, <1>8, <1>9, <1>10, <1>11, <1>12, <1>13, <1>14
     DEF BridgeInv

(* The inductive invariant of the bridge.                                  *)
THEOREM BridgeInvariant == Spec => []BridgeInv
<1>1. Init => BridgeInv
  BY BridgeInit
<1>2. BridgeInv /\ [Next]_vars => BridgeInv'
  <2> SUFFICES ASSUME BridgeInv, [Next]_vars PROVE BridgeInv'
    OBVIOUS
  <2>1. Flags' /\ PhaseInv'
    BY FlagsStep, PhaseStep DEF BridgeInv
  <2>2. Shapes' /\ CounterInv' /\ LoopInv' /\ SentInv' /\ BacklogInv' /\ AcceptedInv'
    BY ShapesStep, CounterStep, LoopInvStep, SentStep, BacklogStep, AcceptedStep
  <2>3. \A c \in Conn : VerdictInv(c)'
    BY VerdictStep
  <2>4. \A c \in Request : WaitingInv(c)' /\ BornInv(c)' /\ WindowInv(c)'
    BY WaitingStep, BornStep, WindowStep
  <2>5. StopInv' /\ HttpInv'
    BY StopStep, HttpStep
  <2> QED BY <2>1, <2>2, <2>3, <2>4, <2>5 DEF BridgeInv
<1> QED BY <1>1, <1>2, PTL DEF Spec

(* Every variable of the bridge has its type in every reachable state; in  *)
(* particular one connection at most is between accept and admission.      *)
THEOREM BridgeTypeCorrect == Spec => []TypeOK
<1>1. BridgeInv => TypeOK
  <2> SUFFICES ASSUME BridgeInv PROVE TypeOK
    OBVIOUS
  <2>1. Flags /\ Shapes /\ CounterInv /\ PhaseInv /\ LoopInv /\ BacklogInv /\ HttpInv
    BY DEF BridgeInv
  <2>2. late \in BOOLEAN /\ closed \in BOOLEAN /\ saturated \in BOOLEAN
        /\ abandoned \in BOOLEAN /\ shut \in BOOLEAN
    BY <2>1 DEF Flags
  <2>3. scope \in 0 .. NTests /\ calls \in 0 .. 2 * NTests
    BY <2>1, ScopeType
  <2>4. pending \in 0 .. 1 /\ loop \in [pc : {"select", "probe", "pause", "register", "admit",
           "dispatch", "ended"}, item : Conn \cup {0}, gen : Nat]
    BY <2>1 DEF LoopInv
  <2>5. inflight \in Nat
    BY <2>1, ConnCardinality DEF HttpInv, Serving
  <2>6. backlog \in Seq(Conn)
    BY <2>1 DEF BacklogInv
  <2>7. ctr \in Counters /\ acc \in Counters
    BY <2>1 DEF CounterInv
  <2>8. verdict \in [Conn -> RejectionKind \cup {"none", "answered", "stale", "dropped",
                                                 "unserved"}]
    <3>1. Fate \cup {"none", "stale", "dropped", "unserved"} =
            RejectionKind \cup {"none", "answered", "stale", "dropped", "unserved"}
      BY DEF Fate
    <3> QED BY <2>1, <3>1 DEF Shapes
  <2> QED BY <2>1, <2>2, <2>3, <2>4, <2>5, <2>6, <2>7, <2>8, Zenon
       DEF TypeOK, Shapes, DriverPc, Stage
<1> QED BY <1>1, BridgeInvariant, PTL

(* A request is accounted to the test that was running when it was made,   *)
(* whatever the order in which the accept loop, the handlers, the deadline *)
(* and the scanner thread move.                                            *)
THEOREM BridgeScopeWindow == Spec => []ScopeWindow
<1>1. BridgeInv => ScopeWindow
  <2> SUFFICES ASSUME BridgeInv PROVE ScopeWindow
    OBVIOUS
  <2>1. Shapes /\ AcceptedInv /\ \A c \in Request : WaitingInv(c) /\ WindowInv(c)
    BY DEF BridgeInv
  <2>2. \A c \in Request :
           home[c] # 0 => born[c].probes \in {2 * home[c] - 1, 2 * home[c]}
    BY <2>1 DEF WindowInv
  <2>3. ASSUME NEW i \in DOMAIN sealed, NEW c \in 1 .. arrived,
               born[c] = [probes |-> 2 * sealed[i].test - 1, scope |-> sealed[i].test]
        PROVE  home[c] = sealed[i].test \/ verdict[c] = "dropped"
    <3>1. c \in Request /\ c <= arrived
      BY <2>1, Connections DEF Shapes, Request
    <3>2. PICK s \in 1 .. NTests : s = sealed[i].test
      <4> DEFINE S == [test : 1 .. NTests, count : Counters,
                       status : {"validated", "not_observed", "violation"}]
      <4>1. sealed \in Seq(S)
        BY <2>1 DEF Shapes
      <4>2. \A x \in S : x.test \in 1 .. NTests
        OBVIOUS
      <4> HIDE DEF S
      <4>3. sealed[i] \in S
        BY <4>1
      <4> QED BY <4>2, <4>3
    <3>3. i \in 1 .. Len(sealed)
      BY <2>1 DEF Shapes
    <3>4. born[c].scope = s /\ born[c].probes = 2 * s - 1 /\ s # 0
      BY <2>3, <3>2, Connections
    <3>5. NRequests + 2 * s \in accepted
      BY <2>1, <3>2, <3>3 DEF AcceptedInv
    <3>6. ~Waiting(c)
      <4>1. NRequests + 2 * s \in Probe /\ (NRequests + 2 * s) - NRequests > 2 * s - 1
        BY <3>2, Connections DEF Probe
      <4> QED BY <2>1, <3>1, <3>4, <3>5, <4>1 DEF WaitingInv
    <3>7. ~Unsealed(s)
      BY <3>2, <3>3 DEF Unsealed
    <3> QED BY <2>1, <3>1, <3>2, <3>4, <3>6, <3>7 DEF WindowInv
  <2> QED BY <2>2, <2>3 DEF ScopeWindow
<1> QED BY <1>1, BridgeInvariant, PTL

(* The HTTP budget bounds what is admitted, unless a connection was        *)
(* refused as stale.                                                       *)
THEOREM BridgeBudget == Spec => []BudgetHolds
<1>1. BridgeInv => BudgetHolds
  <2> SUFFICES ASSUME BridgeInv, Refused = {} PROVE Cardinality(Admitted) <= MaxHttp
    BY DEF BudgetHolds
  <2>1. ctr.http = Cardinality(Admitted) + Cardinality(Refused) /\ ctr.http <= MaxHttp
    BY DEF BridgeInv, HttpInv
  <2>2. Cardinality(Admitted) \in Nat /\ Cardinality(Refused) = 0
    BY ConnCardinality, FS_EmptySet DEF Admitted
  <2> QED BY <2>1, <2>2
<1> QED BY <1>1, BridgeInvariant, PTL

(* Once stop() has returned cleanly, no handler, accept or boundary step   *)
(* changes the bridge's evidence.                                          *)
THEOREM BridgeFrozen == Spec => FrozenAfterStop
<1>1. BridgeInv /\ [Next]_vars => [driver = "stopped" => UNCHANGED <<ctr, acc, sealed>>]_vars
  BY FrozenStep
<1> QED BY <1>1, BridgeInvariant, PTL DEF Spec, FrozenAfterStop

-----------------------------------------------------------------------------
(* Sums over the connections.                                              *)

(* The coins laid out beside the connections can be counted.               *)
LEMMA SumType ==
    ASSUME NEW f \in [Conn -> Nat]
    PROVE  IsFiniteSet(Coins(f)) /\ Sum(f) \in Nat
<1> DEFINE piles == {{c} \X (1 .. f[c]) : c \in Conn}
           lay == [c \in Conn |-> {c} \X (1 .. f[c])]
<1>1. lay \in Surjection(Conn, piles)
  BY DEF Surjection
<1>2. IsFiniteSet(piles)
  <2>1. IsFiniteSet(Conn)
    BY Connections
  <2>2. PICK T, h : T = piles /\ h \in Surjection(Conn, T)
    BY <1>1
  <2>3. IsFiniteSet(T)
    BY <2>1, <2>2, FS_Surjection
  <2> QED BY <2>2, <2>3
<1>3. ASSUME NEW c \in Conn PROVE IsFiniteSet({c} \X (1 .. f[c]))
  <2>1. PICK n \in Int : n = f[c]
    OBVIOUS
  <2>2. IsFiniteSet(1 .. n)
    BY FS_Interval
  <2>3. IsFiniteSet({c})
    BY FS_Singleton
  <2> QED BY <2>1, <2>2, <2>3, FS_Product
<1>4. IsFiniteSet(UNION piles)
  BY <1>2, <1>3, FS_UNION
<1>5. DOMAIN f = Conn
  OBVIOUS
<1> QED BY <1>4, <1>5, FS_CardinalityType DEF Coins, Sum

(* A term that was zero adds what it becomes.                              *)
LEMMA SumRaise ==
    ASSUME NEW f \in [Conn -> Nat], NEW g \in [Conn -> Nat], NEW c \in Conn, f[c] = 0,
           \A d \in Conn \ {c} : g[d] = f[d]
    PROVE  Sum(g) = Sum(f) + g[c]
<1> DEFINE pile == {c} \X (1 .. g[c])
<1>1. DOMAIN f = Conn /\ DOMAIN g = Conn /\ 1 .. f[c] = {}
  OBVIOUS
<1>2. Coins(g) = Coins(f) \cup pile /\ Coins(f) \cap pile = {}
  BY <1>1 DEF Coins
<1>3. IsFiniteSet(pile) /\ Cardinality(pile) = g[c]
  <2>1. g[c] \in Nat
    OBVIOUS
  <2>2. IsFiniteSet({c}) /\ Cardinality({c}) = 1
    BY FS_Singleton
  <2>3. IsFiniteSet(1 .. g[c]) /\ Cardinality(1 .. g[c]) = g[c]
    BY <2>1, FS_Interval
  <2>4. IsFiniteSet(pile) /\ Cardinality(pile) = 1 * g[c]
    BY <2>2, <2>3, FS_Product
  <2> QED BY <2>1, <2>4
<1>4. Cardinality(Coins(g)) = Cardinality(Coins(f)) + g[c] - Cardinality(Coins(f) \cap pile)
  BY <1>2, <1>3, SumType, FS_Union
<1>5. Cardinality(Coins(f) \cap pile) = 0
  BY <1>2, FS_EmptySet
<1> QED BY <1>4, <1>5, SumType DEF Sum

(* A term that changes changes the sum by as much.                         *)
LEMMA SumChange ==
    ASSUME NEW f \in [Conn -> Nat], NEW g \in [Conn -> Nat], NEW c \in Conn,
           \A d \in Conn \ {c} : g[d] = f[d]
    PROVE  Sum(g) + f[c] = Sum(f) + g[c]
<1>1. PICK h \in [Conn -> Nat] : h = [d \in Conn |-> IF d = c THEN 0 ELSE f[d]]
  OBVIOUS
<1>2. /\ h[c] = 0 /\ (\A d \in Conn \ {c} : f[d] = h[d])
      /\ (\A d \in Conn \ {c} : g[d] = h[d])
  BY <1>1
<1>3. Sum(f) = Sum(h) + f[c] /\ Sum(g) = Sum(h) + g[c]
  BY <1>2, SumRaise
<1>4. Sum(h) \in Nat /\ f[c] \in Nat /\ g[c] \in Nat
  BY SumType
<1> QED BY <1>3, <1>4

(* Terms that are zero may be left out.                                    *)
LEMMA SumPart ==
    ASSUME NEW S \in SUBSET Conn, NEW f \in [Conn -> Nat], NEW g \in [S -> Nat],
           \A c \in Conn : f[c] = IF c \in S THEN g[c] ELSE 0
    PROVE  Sum(g) = Sum(f)
<1>1. DOMAIN f = Conn /\ DOMAIN g = S
  OBVIOUS
<1>2. \A c \in Conn : c \notin S => 1 .. f[c] = {}
  OBVIOUS
<1>3. Coins(g) = Coins(f)
  <2>1. ASSUME NEW x \in Coins(g) PROVE x \in Coins(f)
    <3>1. PICK c \in S : x \in {c} \X (1 .. g[c])
      BY <1>1 DEF Coins
    <3>2. c \in Conn /\ f[c] = g[c]
      OBVIOUS
    <3> QED BY <1>1, <3>1, <3>2 DEF Coins
  <2>2. ASSUME NEW x \in Coins(f) PROVE x \in Coins(g)
    <3>1. PICK c \in Conn : x \in {c} \X (1 .. f[c])
      BY <1>1 DEF Coins
    <3>2. c \in S
      BY <1>2, <3>1
    <3>3. f[c] = g[c]
      BY <3>2
    <3> QED BY <1>1, <3>1, <3>2, <3>3 DEF Coins
  <2> QED BY <2>1, <2>2
<1> QED BY <1>3 DEF Sum

(* A sum of ones is the size of a set.                                     *)
LEMMA SumOnes ==
    ASSUME NEW S \in SUBSET Conn, NEW f \in [Conn -> Nat],
           \A c \in Conn : f[c] = IF c \in S THEN 1 ELSE 0
    PROVE  Sum(f) = Cardinality(S)
<1>1. DOMAIN f = Conn /\ 1 .. 1 = {1} /\ 1 .. 0 = {}
  OBVIOUS
<1>2. Coins(f) = S \X {1}
  <2>1. ASSUME NEW x \in Coins(f) PROVE x \in S \X {1}
    <3>1. PICK c \in Conn : x \in {c} \X (1 .. f[c])
      BY <1>1 DEF Coins
    <3>2. CASE c \in S
      BY <1>1, <3>1, <3>2
    <3>3. CASE c \notin S
      BY <1>1, <3>1, <3>3
    <3> QED BY <3>2, <3>3
  <2>2. ASSUME NEW c \in S PROVE <<c, 1>> \in Coins(f)
    <3>1. c \in Conn /\ <<c, 1>> \in {c} \X (1 .. f[c])
      BY <1>1
    <3> QED BY <1>1, <3>1 DEF Coins
  <2> QED BY <2>1, <2>2
<1>3. IsFiniteSet(S) /\ Cardinality(S) \in Nat
  BY ConnCardinality
<1>4. IsFiniteSet({1}) /\ Cardinality({1}) = 1
  BY FS_Singleton
<1>5. Cardinality(S \X {1}) = Cardinality(S) * Cardinality({1})
  BY <1>3, <1>4, FS_Product
<1> QED BY <1>2, <1>3, <1>4, <1>5 DEF Sum

(* A sum is at most another whose terms are, and less if one of them is.   *)
LEMMA SumBelow ==
    ASSUME NEW f \in [Conn -> Nat], NEW g \in [Conn -> Nat],
           \A c \in Conn : f[c] <= g[c]
    PROVE  /\ Sum(f) <= Sum(g)
           /\ (\E c \in Conn : f[c] < g[c]) => Sum(f) < Sum(g)
<1>1. DOMAIN f = Conn /\ DOMAIN g = Conn /\ \A c \in Conn : 1 .. f[c] \subseteq 1 .. g[c]
  OBVIOUS
<1>2. Coins(f) \subseteq Coins(g)
  BY <1>1 DEF Coins
<1>3. IsFiniteSet(Coins(g)) /\ IsFiniteSet(Coins(f)) /\ Sum(f) \in Nat /\ Sum(g) \in Nat
  BY SumType
<1>4. Sum(f) <= Sum(g)
  BY <1>2, <1>3, FS_Subset DEF Sum
<1>5. ASSUME NEW c \in Conn, f[c] < g[c] PROVE Sum(f) < Sum(g)
  <2>1. PICK h \in [Conn -> Nat] : h = [g EXCEPT ![c] = f[c]]
    OBVIOUS
  <2>2. (\A d \in Conn : f[d] <= h[d]) /\ h[c] = f[c] /\ \A d \in Conn \ {c} : h[d] = g[d]
    BY <2>1
  <2>3. DOMAIN h = Conn /\ \A d \in Conn : 1 .. f[d] \subseteq 1 .. h[d]
    BY <2>2
  <2>4. Coins(f) \subseteq Coins(h)
    BY <1>1, <2>3 DEF Coins
  <2>5. Sum(f) <= Sum(h) /\ Sum(h) \in Nat
    BY <2>4, SumType, FS_Subset DEF Sum
  <2>6. Sum(h) + g[c] = Sum(g) + h[c]
    BY <2>2, SumChange
  <2>7. f[c] \in Nat /\ g[c] \in Nat
    OBVIOUS
  <2> QED BY <1>3, <1>5, <2>2, <2>5, <2>6, <2>7
<1> QED BY <1>4, <1>5

-----------------------------------------------------------------------------
(* The books: what each connection adds to the counters.                   *)

Item == {"http", "permitted", "attempted", "validated", "synthetic"} \cup RejectionKind
Calls == [origin : Nat, synthetic : Nat]
Judgement == Fate \cup {"none", "stale", "dropped", "unserved"}

(* What a request with calls b and fate v adds to the counter x.           *)
Share(b, v, x) ==
    CASE x = "http" -> 1
      [] x = "permitted" -> b.origin + b.synthetic
      [] x = "attempted" -> b.origin
      [] x = "validated" -> IF v = "answered" THEN b.origin ELSE 0
      [] x = "synthetic" -> b.synthetic
      [] OTHER -> IF v = x THEN 1 ELSE 0
Reading(n, x) ==
    CASE x = "http" -> n.http
      [] x = "permitted" -> n.permitted
      [] x = "attempted" -> n.attempted
      [] x = "validated" -> n.validated
      [] x = "synthetic" -> n.synthetic
      [] OTHER -> n.rejected[x]

(* The counters n are those of the connections cs.                         *)
Part(bs, vs, cs, x) == [c \in Conn |-> IF c \in cs THEN Share(bs[c], vs[c], x) ELSE 0]
Adds(n, bs, vs, cs) == \A x \in Item : Reading(n, x) = Sum(Part(bs, vs, cs, x))

(* Counters and shares are natural numbers.                                *)
LEMMA Shares ==
    ASSUME NEW x \in Item
    PROVE  /\ \A n \in Counters : Reading(n, x) \in Nat
           /\ \A b \in Calls, v \in Judgement : Share(b, v, x) \in Nat
           /\ Reading(Zero, x) = 0
<1>1. \A n \in Counters : Reading(n, x) \in Nat
  BY DEF Reading, Item, Counters, RejectionKind
<1>2. \A b \in Calls, v \in Judgement : Share(b, v, x) \in Nat
  BY DEF Share, Item, Calls, Judgement, RejectionKind
<1>3. Reading(Zero, x) = 0
  BY DEF Reading, Zero, Item, RejectionKind
<1> QED BY <1>1, <1>2, <1>3

(* How the counting operators change the readings.                         *)
LEMMA Readings ==
    ASSUME NEW n \in Counters, NEW x \in Item
    PROVE  /\ Reading(CountHttp(n), x) = Reading(n, x) + IF x = "http" THEN 1 ELSE 0
           /\ \A kind \in RejectionKind : Reading(CountRejection(n, kind), x) =
                 Reading(n, x) + IF x = kind THEN 1 ELSE 0
           /\ \A b \in Calls : Reading(CountValidated(n, b), x) =
                 Reading(n, x) + IF x = "validated" THEN b.origin ELSE 0
<1>1. Reading(CountHttp(n), x) = Reading(n, x) + IF x = "http" THEN 1 ELSE 0
  BY DEF Reading, Item, Counters, RejectionKind, CountHttp
<1>2. ASSUME NEW kind \in RejectionKind
      PROVE  Reading(CountRejection(n, kind), x) = Reading(n, x) + IF x = kind THEN 1 ELSE 0
  BY DEF Reading, Item, Counters, RejectionKind, CountRejection
<1>3. ASSUME NEW b \in Calls
      PROVE  Reading(CountValidated(n, b), x) =
                Reading(n, x) + IF x = "validated" THEN b.origin ELSE 0
  BY DEF Reading, Item, Counters, RejectionKind, CountValidated, Calls
<1> QED BY <1>1, <1>2, <1>3

(* The same for the calls of a batch.                                      *)
LEMMA PermittedReadings ==
    ASSUME NEW n \in Counters, NEW x \in Item, NEW b \in Calls
    PROVE  Reading(CountPermitted(n, b), x) =
              Reading(n, x) + CASE x = "permitted" -> b.origin + b.synthetic
                                [] x = "attempted" -> b.origin
                                [] x = "synthetic" -> b.synthetic
                                [] OTHER -> 0
<1>1. /\ CountPermitted(n, b).http = n.http /\ CountPermitted(n, b).rejected = n.rejected
      /\ CountPermitted(n, b).permitted = n.permitted + b.origin + b.synthetic
      /\ CountPermitted(n, b).attempted = n.attempted + b.origin
      /\ CountPermitted(n, b).synthetic = n.synthetic + b.synthetic
      /\ CountPermitted(n, b).validated = n.validated
  BY DEF CountPermitted, Counters
<1>2. /\ n.http \in Nat /\ n.permitted \in Nat /\ n.attempted \in Nat /\ n.synthetic \in Nat
      /\ n.validated \in Nat /\ \A k \in RejectionKind : n.rejected[k] \in Nat
      /\ b.origin \in Nat /\ b.synthetic \in Nat
  BY DEF Counters, Calls
<1> HIDE DEF CountPermitted
<1> QED BY <1>1, <1>2 DEF Reading, Item, RejectionKind

(* The terms of a book are natural numbers.                                *)
LEMMA PartType ==
    ASSUME NEW bs \in [Conn -> Calls], NEW vs \in [Conn -> Judgement], NEW cs \in SUBSET Conn,
           NEW x \in Item
    PROVE  Part(bs, vs, cs, x) \in [Conn -> Nat]
<1>1. \A c \in Conn : Share(bs[c], vs[c], x) \in Nat
  BY Shares
<1> QED BY <1>1 DEF Part

(* The counters of a book follow the one connection that changes.          *)
Follows(n, m, bs, as, vs, us, cs, ds, c) ==
    /\ n \in Counters /\ m \in Counters /\ c \in Conn
    /\ bs \in [Conn -> Calls] /\ as \in [Conn -> Calls]
    /\ vs \in [Conn -> Judgement] /\ us \in [Conn -> Judgement]
    /\ cs \in SUBSET Conn /\ ds \in SUBSET Conn
    /\ \A d \in Conn \ {c} : as[d] = bs[d] /\ us[d] = vs[d] /\ (d \in ds <=> d \in cs)
    /\ \A x \in Item : Reading(m, x) + Part(bs, vs, cs, x)[c] =
                       Reading(n, x) + Part(as, us, ds, x)[c]

(* The book is then still exact.                                           *)
LEMMA AddsStep ==
    ASSUME NEW n, NEW m, NEW bs, NEW as, NEW vs, NEW us, NEW cs, NEW ds, NEW c,
           Follows(n, m, bs, as, vs, us, cs, ds, c), Adds(n, bs, vs, cs)
    PROVE  Adds(m, as, us, ds)
<1> USE DEF Follows
<1> SUFFICES ASSUME NEW x \in Item PROVE Reading(m, x) = Sum(Part(as, us, ds, x))
  BY DEF Adds
<1>1. PICK f \in [Conn -> Nat] : f = Part(bs, vs, cs, x)
  BY PartType
<1>2. PICK g \in [Conn -> Nat] : g = Part(as, us, ds, x)
  BY PartType
<1>3. \A d \in Conn \ {c} : g[d] = f[d]
  BY <1>1, <1>2 DEF Part
<1>4. Sum(g) + f[c] = Sum(f) + g[c]
  BY <1>3, SumChange
<1>5. Reading(m, x) + f[c] = Reading(n, x) + g[c]
  BY <1>1, <1>2
<1>6. Reading(n, x) = Sum(f)
  BY <1>1 DEF Adds
<1>7. Reading(m, x) \in Nat /\ Reading(n, x) \in Nat /\ Sum(g) \in Nat
      /\ f[c] \in Nat /\ g[c] \in Nat
  BY Shares, SumType
<1>8. \A r, q, s, t, u, v \in Nat : r + u = q + v /\ s + u = t + v /\ q = t => r = s
  OBVIOUS
<1>9. Sum(f) \in Nat
  BY SumType
<1>10. Reading(m, x) = Sum(g)
  BY <1>4, <1>5, <1>6, <1>7, <1>8, <1>9
<1> QED BY <1>2, <1>10

(* Nothing changes for the connections of a book.                          *)
Same(bs, as, vs, us, cs, ds) ==
    \A d \in Conn : /\ d \in ds <=> d \in cs
                    /\ d \in cs => as[d] = bs[d] /\ us[d] = vs[d]

(* A book does not depend on the connections that are not in it.           *)
LEMMA AddsSame ==
    ASSUME NEW n, NEW bs, NEW as, NEW vs, NEW us, NEW cs, NEW ds, Adds(n, bs, vs, cs),
           Same(bs, as, vs, us, cs, ds)
    PROVE  Adds(n, as, us, ds)
<1> USE DEF Same
<1> SUFFICES ASSUME NEW x \in Item PROVE Reading(n, x) = Sum(Part(as, us, ds, x))
  BY DEF Adds
<1>1. Part(as, us, ds, x) = Part(bs, vs, cs, x)
  BY DEF Part
<1> QED BY <1>1 DEF Adds

(* The empty book.                                                         *)
LEMMA AddsNone ==
    ASSUME NEW bs, NEW vs, NEW cs, cs \cap Conn = {}
    PROVE  Adds(Zero, bs, vs, cs)
<1> SUFFICES ASSUME NEW x \in Item PROVE Reading(Zero, x) = Sum(Part(bs, vs, cs, x))
  BY DEF Adds
<1>1. PICK f \in [Conn -> Nat] : f = [c \in Conn |-> 0]
  OBVIOUS
<1>2. Part(bs, vs, cs, x) = f
  BY <1>1 DEF Part
<1>3. Sum(f) = Cardinality({})
  BY <1>1, SumOnes
<1> QED BY <1>2, <1>3, Shares, FS_EmptySet

(* What a verdict, or a permission, adds to a request's share.             *)
LEMMA ShareSteps ==
    ASSUME NEW x \in Item, NEW b \in Calls
    PROVE  /\ Share(NoCalls, "none", x) = IF x = "http" THEN 1 ELSE 0
           /\ \A kind \in RejectionKind :
                 Share(b, kind, x) = Share(b, "none", x) + IF x = kind THEN 1 ELSE 0
           /\ Share(b, "unserved", x) = Share(b, "none", x)
           /\ Share(b, "answered", x) =
                 Share(b, "none", x) + IF x = "validated" THEN b.origin ELSE 0
           /\ \A v \in {"none", "answered"} : (v = "answered" => b.origin = 0) =>
                 Share(b, v, x) = Share(NoCalls, "none", x)
                    + CASE x = "permitted" -> b.origin + b.synthetic
                        [] x = "attempted" -> b.origin
                        [] x = "synthetic" -> b.synthetic
                        [] OTHER -> 0
<1>1. b.origin \in Nat /\ b.synthetic \in Nat /\ NoCalls.origin = 0 /\ NoCalls.synthetic = 0
  BY DEF Calls, NoCalls
<1>2. Share(NoCalls, "none", x) = IF x = "http" THEN 1 ELSE 0
  BY <1>1 DEF Share, Item, RejectionKind
<1>3. ASSUME NEW kind \in RejectionKind
      PROVE  Share(b, kind, x) = Share(b, "none", x) + IF x = kind THEN 1 ELSE 0
  BY <1>1 DEF Share, Item, RejectionKind
<1>4. /\ Share(b, "unserved", x) = Share(b, "none", x)
      /\ Share(b, "answered", x) =
            Share(b, "none", x) + IF x = "validated" THEN b.origin ELSE 0
  BY <1>1 DEF Share, Item, RejectionKind
<1>5. ASSUME NEW v \in {"none", "answered"}, v = "answered" => b.origin = 0
      PROVE  Share(b, v, x) = Share(NoCalls, "none", x)
                    + CASE x = "permitted" -> b.origin + b.synthetic
                        [] x = "attempted" -> b.origin
                        [] x = "synthetic" -> b.synthetic
                        [] OTHER -> 0
  BY <1>1, <1>5 DEF Share, Item, RejectionKind
<1> QED BY <1>2, <1>3, <1>4, <1>5

(* The counters m follow from n when a request changes its calls from b to *)
(* a and its fate from v to u.                                             *)
Charge(n, m, b, v, a, u) ==
    \A x \in Item : Reading(m, x) + Share(b, v, x) = Reading(n, x) + Share(a, u, x)

(* Each counting operator charges what happens to the request.             *)
LEMMA Charges ==
    ASSUME NEW n \in Counters, NEW b \in Calls
    PROVE  /\ \A kind \in RejectionKind :
                 Charge(n, CountRejection(n, kind), b, "none", b, kind)
           /\ Charge(n, CountValidated(n, b), b, "none", b, "answered")
           /\ \A v \in {"none", "answered"} : (v = "answered" => b.origin = 0) =>
                 Charge(n, CountPermitted(n, b), NoCalls, "none", b, v)
           /\ Charge(n, n, b, "none", b, "unserved")
           /\ \A v \in Judgement : Charge(n, n, b, v, b, v)
<1>1. NoCalls \in Calls /\ "none" \in Judgement /\ b.origin \in Nat /\ b.synthetic \in Nat
  BY DEF NoCalls, Calls, Judgement
<1>2. ASSUME NEW x \in Item
      PROVE  /\ Reading(n, x) \in Nat /\ Share(b, "none", x) \in Nat
             /\ Share(NoCalls, "none", x) \in Nat
  BY <1>1, Shares
<1>3. ASSUME NEW kind \in RejectionKind
      PROVE  Charge(n, CountRejection(n, kind), b, "none", b, kind)
  <2> SUFFICES ASSUME NEW x \in Item
               PROVE  Reading(CountRejection(n, kind), x) + Share(b, "none", x) =
                      Reading(n, x) + Share(b, kind, x)
    BY DEF Charge
  <2>1. Reading(CountRejection(n, kind), x) = Reading(n, x) + IF x = kind THEN 1 ELSE 0
    BY Readings
  <2>2. Share(b, kind, x) = Share(b, "none", x) + IF x = kind THEN 1 ELSE 0
    BY ShareSteps
  <2> QED BY <1>2, <2>1, <2>2
<1>4. Charge(n, CountValidated(n, b), b, "none", b, "answered")
  <2> SUFFICES ASSUME NEW x \in Item
               PROVE  Reading(CountValidated(n, b), x) + Share(b, "none", x) =
                      Reading(n, x) + Share(b, "answered", x)
    BY DEF Charge
  <2>1. Reading(CountValidated(n, b), x) =
           Reading(n, x) + IF x = "validated" THEN b.origin ELSE 0
    BY Readings
  <2>2. Share(b, "answered", x) =
           Share(b, "none", x) + IF x = "validated" THEN b.origin ELSE 0
    BY ShareSteps
  <2> QED BY <1>1, <1>2, <2>1, <2>2
<1>5. ASSUME NEW v \in {"none", "answered"}, v = "answered" => b.origin = 0
      PROVE  Charge(n, CountPermitted(n, b), NoCalls, "none", b, v)
  <2> SUFFICES ASSUME NEW x \in Item
               PROVE  Reading(CountPermitted(n, b), x) + Share(NoCalls, "none", x) =
                      Reading(n, x) + Share(b, v, x)
    BY DEF Charge
  <2>1. PICK k \in Nat : k = CASE x = "permitted" -> b.origin + b.synthetic
                               [] x = "attempted" -> b.origin
                               [] x = "synthetic" -> b.synthetic
                               [] OTHER -> 0
    BY <1>1
  <2>2. Reading(CountPermitted(n, b), x) = Reading(n, x) + k
    BY <2>1, PermittedReadings
  <2>3. Share(b, v, x) = Share(NoCalls, "none", x) + k
    BY <1>5, <2>1, ShareSteps
  <2> QED BY <1>2, <2>2, <2>3
<1>6. Charge(n, n, b, "none", b, "unserved")
  BY ShareSteps DEF Charge
<1> QED BY <1>3, <1>4, <1>5, <1>6 DEF Charge

-----------------------------------------------------------------------------
(* The books are exact: the invariant behind the accounts.                 *)

Home(h, s) == {c \in Conn : h[c] = s}

(* A request that may still be counted.                                    *)
AtWork(c) == conn[c] \in Handling \/ (loop.pc = "dispatch" /\ loop.item = c)

(* The bridge counts what it admitted and what it refused as stale, which  *)
(* it counts as refused for a limit.                                       *)
Counted == {c \in Conn : Admits(c) \/ verdict[c] = "stale"}
Billed == [c \in Conn |-> IF verdict[c] = "stale" THEN "limit" ELSE verdict[c]]

(* A request at work belongs to the scope that is open; its calls are      *)
(* those it was permitted, and only an upstream error or an answer ends a  *)
(* request whose calls go to the origin.                                   *)
RequestInv(c) ==
    /\ AtWork(c) /\ ~closed => home[c] = scope
    /\ AtWork(c) => home[c] = 0 \/ home[c] > Len(sealed)
    /\ home[c] # 0 => Admits(c)
    /\ ~Admits(c) \/ conn[c] \in {"queued", "handling"} => batch[c] = NoCalls
    /\ conn[c] \in {"permitted", "forward"} => batch[c].origin > 0
    /\ batch[c].origin > 0 =>
        conn[c] \in {"permitted", "forward"} \/ verdict[c] \in {"answered", "upstream"}
    /\ verdict[c] = "upstream" => batch[c] = NoCalls \/ batch[c].origin > 0

(* The scopes are sealed in order, and the generation counts them.         *)
ScopesInv ==
    /\ \A i \in 1 .. Len(sealed) : sealed[i].test = i
    /\ scope # 0 => scope = Len(sealed) + 1
    /\ ~closed => gen = 2 * Len(sealed) + (IF scope # 0 THEN 1 ELSE 0)
    /\ closed /\ ~abandoned => gen = 2 * Len(sealed) + 1
    /\ driver = "stopped" => ~abandoned
    /\ ~closed => \A c \in Conn : home[c] <= Len(sealed) \/ home[c] = scope

(* The open scope's counters, the sealed ones and the bridge's own.        *)
OpenBook == scope # 0 => Adds(acc, batch, verdict, Home(home, scope))
SealedBooks ==
    \A i \in 1 .. Len(sealed) : Adds(sealed[i].count, batch, verdict, Home(home, i))
BridgeBook == Adds(ctr, batch, Billed, Counted)

BookInv ==
    /\ \A c \in Conn : RequestInv(c)
    /\ ScopesInv /\ OpenBook /\ SealedBooks /\ BridgeBook
    /\ ctr.attempted + ctr.synthetic = ctr.permitted

(* The types the books rest on.                                            *)
LEMMA BookTypes ==
    ASSUME Shapes
    PROVE  /\ batch \in [Conn -> Calls] /\ verdict \in [Conn -> Judgement]
           /\ Billed \in [Conn -> Judgement] /\ Counted \in SUBSET Conn
           /\ \A s : Home(home, s) \in SUBSET Conn
           /\ sealed \in Seq([test : 1 .. NTests, count : Counters,
                              status : {"validated", "not_observed", "violation"}])
           /\ home \in [Conn -> 0 .. NTests] /\ Len(sealed) \in Nat
<1>1. "limit" \in Judgement
  BY DEF Judgement, Fate, RejectionKind
<1>2. verdict \in [Conn -> Judgement]
  BY DEF Shapes, Judgement
<1>3. Billed \in [Conn -> Judgement]
  BY <1>1, <1>2 DEF Billed
<1> QED BY <1>2, <1>3 DEF Shapes, Calls, Counted, Home

(* The same after a step.                                                  *)
LEMMA BookTypesNext ==
    ASSUME Shapes'
    PROVE  /\ batch' \in [Conn -> Calls] /\ verdict' \in [Conn -> Judgement]
           /\ Billed' \in [Conn -> Judgement] /\ Counted' \in SUBSET Conn
           /\ \A s : Home(home', s) \in SUBSET Conn
<1>1. "limit" \in Judgement
  BY DEF Judgement, Fate, RejectionKind
<1>2. verdict' \in [Conn -> Judgement]
  BY DEF Shapes, Judgement
<1>3. Billed' \in [Conn -> Judgement]
  BY <1>1, <1>2 DEF Billed
<1> QED BY <1>2, <1>3 DEF Shapes, Calls, Counted, Home

(* No book is open before the bridge has started.                          *)
LEMMA BookInit ==
    ASSUME Init
    PROVE  BookInv
<1> USE DEF Init
<1>1. ASSUME NEW c \in Conn PROVE RequestInv(c) /\ ~Admits(c) /\ verdict[c] # "stale"
  BY DEF RequestInv, AtWork, Admits, Handling, Fate, RejectionKind, Idle, NoCalls
<1>2. Len(sealed) = 0
  OBVIOUS
<1>3. ScopesInv
  BY <1>2 DEF ScopesInv
<1>4. OpenBook /\ SealedBooks
  BY <1>2 DEF OpenBook, SealedBooks
<1>5. Counted \cap Conn = {}
  BY <1>1 DEF Counted
<1>6. BridgeBook
  BY <1>5, AddsNone DEF BridgeBook
<1>7. ctr.attempted + ctr.synthetic = ctr.permitted
  BY DEF Zero
<1> QED BY <1>1, <1>3, <1>4, <1>6, <1>7 DEF BookInv

(* What is charged for the connection c, in the bridge's book and in that  *)
(* of the open scope.                                                      *)
Charged(c) ==
    /\ Charge(ctr, ctr', batch[c], verdict[c], batch'[c], verdict'[c])
    /\ scope # 0 => Charge(acc, acc', batch[c], verdict[c], batch'[c], verdict'[c])

(* How a handler leaves its connection.                                    *)
HandlerWork(c) ==
    \/ /\ conn[c] \in {"handling", "permitted", "forward"} /\ conn'[c] = "finish"
       /\ verdict'[c] \in RejectionKind /\ batch'[c] = batch[c]
       /\ conn[c] # "handling" => verdict'[c] = "upstream"
    \/ /\ conn[c] = "handling" /\ conn'[c] = "finish" /\ verdict'[c] = "answered"
       /\ batch'[c].origin = 0
    \/ /\ conn[c] = "handling" /\ conn'[c] = "permitted" /\ verdict'[c] = verdict[c]
       /\ batch'[c].origin > 0
    \/ /\ conn[c] = "permitted" /\ conn'[c] = "forward"
       /\ verdict'[c] = verdict[c] /\ batch'[c] = batch[c]
    \/ /\ conn[c] = "forward" /\ conn'[c] = "finish" /\ verdict'[c] = "answered"
       /\ batch'[c] = batch[c]
    \/ /\ conn[c] = "finish" /\ conn'[c] = "released"
       /\ verdict'[c] = verdict[c] /\ batch'[c] = batch[c]
    \/ /\ conn[c] = "released" /\ conn'[c] = "closed"
       /\ verdict'[c] = verdict[c] /\ batch'[c] = batch[c]

(* A rejection is charged.                                                 *)
LEMMA RejectCharged ==
    ASSUME BridgeInv, NEW c \in Conn, NEW kind \in RejectionKind, Reject(c, kind),
           verdict[c] = "none"
    PROVE  /\ Charged(c) /\ conn'[c] = "finish" /\ verdict'[c] = kind /\ batch' = batch
           /\ ctr'.attempted = ctr.attempted /\ ctr'.synthetic = ctr.synthetic
           /\ ctr'.permitted = ctr.permitted
<1>1. Shapes /\ CounterInv /\ batch[c] \in Calls
  BY BookTypes DEF BridgeInv
<1>2. ctr' = CountRejection(ctr, kind) /\ (scope # 0 => acc' = CountRejection(acc, kind))
  BY DEF Reject, InScope
<1>3. conn'[c] = "finish" /\ verdict'[c] = kind /\ batch' = batch
  BY <1>1 DEF Reject, Shapes
<1>4. Charge(ctr, CountRejection(ctr, kind), batch[c], "none", batch[c], kind)
      /\ Charge(acc, CountRejection(acc, kind), batch[c], "none", batch[c], kind)
  BY <1>1, Charges DEF CounterInv
<1>5. ctr'.attempted = ctr.attempted /\ ctr'.synthetic = ctr.synthetic
      /\ ctr'.permitted = ctr.permitted
  BY <1>1, <1>2 DEF CounterInv, Counters, CountRejection
<1> QED BY <1>2, <1>3, <1>4, <1>5 DEF Charged

(* A handler charges what it does to its request.                          *)
LEMMA HandlerCharged ==
    ASSUME BridgeInv, BookInv, NEW c \in Conn, Handler(c)
    PROVE  /\ Charged(c) /\ HandlerWork(c) /\ \A d \in Conn \ {c} : batch'[d] = batch[d]
           /\ ctr'.attempted + ctr'.synthetic = ctr'.permitted
<1>1. /\ Shapes /\ CounterInv /\ VerdictInv(c) /\ RequestInv(c) /\ batch \in [Conn -> Calls]
      /\ ctr \in Counters /\ acc \in Counters
      /\ ctr.attempted + ctr.synthetic = ctr.permitted
      /\ verdict[c] \in Judgement
  BY BookTypes DEF BridgeInv, BookInv, CounterInv
<1>2. conn[c] \in {"handling", "permitted", "forward"} => verdict[c] = "none"
  BY <1>1 DEF VerdictInv
<1>3. ASSUME NEW kind \in RejectionKind, Reject(c, kind),
             conn[c] \in {"handling", "permitted", "forward"},
             conn[c] # "handling" => kind = "upstream"
      PROVE  /\ Charged(c) /\ HandlerWork(c) /\ \A d \in Conn \ {c} : batch'[d] = batch[d]
             /\ ctr'.attempted + ctr'.synthetic = ctr'.permitted
  <2>1. verdict[c] = "none"
    BY <1>2, <1>3
  <2>2. /\ Charged(c) /\ conn'[c] = "finish" /\ verdict'[c] = kind /\ batch' = batch
        /\ ctr'.attempted = ctr.attempted /\ ctr'.synthetic = ctr.synthetic
        /\ ctr'.permitted = ctr.permitted
    BY <1>3, <2>1, RejectCharged
  <2>3. HandlerWork(c)
    BY <1>3, <2>2 DEF HandlerWork
  <2> QED BY <1>1, <2>2, <2>3
<1>4. ASSUME UNCHANGED <<ctr, acc, verdict, batch>>
      PROVE  /\ Charged(c) /\ \A d \in Conn \ {c} : batch'[d] = batch[d]
             /\ ctr'.attempted + ctr'.synthetic = ctr'.permitted
  <2>1. /\ Charge(ctr, ctr, batch[c], verdict[c], batch[c], verdict[c])
        /\ Charge(acc, acc, batch[c], verdict[c], batch[c], verdict[c])
    BY <1>1, Charges
  <2> QED BY <1>1, <1>4, <2>1 DEF Charged
<1>5. CASE RejectEarly(c)
  <2>1. PICK kind \in RejectionKind : Reject(c, kind)
    BY <1>5, BoundsAssumption DEF RejectEarly, RejectionKind
  <2> QED BY <1>3, <1>5, <2>1 DEF RejectEarly
<1>6. CASE Permit(c)
  <2>1. conn[c] = "handling" /\ verdict[c] = "none" /\ batch[c] = NoCalls
    BY <1>1, <1>2, <1>6 DEF Permit, RequestInv
  <2>2. CASE Reject(c, "limit")
    BY <1>3, <2>1, <2>2 DEF RejectionKind
  <2>3. CASE ~Reject(c, "limit")
    <3>1. PICK b \in Batch :
             /\ ctr' = CountPermitted(ctr, b)
             /\ (scope # 0 => acc' = CountPermitted(acc, b))
             /\ batch' = [batch EXCEPT ![c] = b]
             /\ conn' = [conn EXCEPT ![c] = IF b.origin = 0 THEN "finish" ELSE "permitted"]
             /\ verdict' = [verdict EXCEPT ![c] = IF b.origin = 0 THEN "answered" ELSE @]
      BY <1>6, <2>3 DEF Permit, InScope
    <3>2. b \in Calls /\ b.origin \in Nat
      BY BoundsAssumption DEF Calls
    <3>3. PICK v \in {"none", "answered"} : v = IF b.origin = 0 THEN "answered" ELSE "none"
      OBVIOUS
    <3>4. /\ Charge(ctr, CountPermitted(ctr, b), NoCalls, "none", b, v)
          /\ Charge(acc, CountPermitted(acc, b), NoCalls, "none", b, v)
      BY <1>1, <3>2, <3>3, Charges
    <3>5. batch'[c] = b /\ \A d \in Conn \ {c} : batch'[d] = batch[d]
      BY <1>1, <3>1
    <3>6. verdict'[c] = v /\ conn'[c] = IF b.origin = 0 THEN "finish" ELSE "permitted"
      BY <1>1, <2>1, <3>1, <3>3 DEF Shapes
    <3>7. Charged(c)
      BY <2>1, <3>1, <3>4, <3>5, <3>6 DEF Charged
    <3>8. HandlerWork(c)
      BY <2>1, <3>2, <3>3, <3>5, <3>6 DEF HandlerWork
    <3>9. ctr'.attempted + ctr'.synthetic = ctr'.permitted
      <4>1. /\ CountPermitted(ctr, b).permitted = ctr.permitted + b.origin + b.synthetic
            /\ CountPermitted(ctr, b).attempted = ctr.attempted + b.origin
            /\ CountPermitted(ctr, b).synthetic = ctr.synthetic + b.synthetic
        BY <1>1 DEF CountPermitted, Counters
      <4>2. /\ ctr.permitted \in Nat /\ ctr.attempted \in Nat /\ ctr.synthetic \in Nat
            /\ b.origin \in Nat /\ b.synthetic \in Nat
        BY <1>1, <3>2 DEF Counters, Calls
      <4> QED BY <1>1, <3>1, <4>1, <4>2
    <3> QED BY <3>5, <3>7, <3>8, <3>9
  <2> QED BY <2>2, <2>3
<1>7. CASE BeginUpstream(c)
  <2>1. conn[c] = "permitted"
    BY <1>7 DEF BeginUpstream
  <2>2. CASE Reject(c, "upstream")
    BY <1>3, <2>1, <2>2 DEF RejectionKind
  <2>3. CASE ~Reject(c, "upstream")
    <3>1. conn' = [conn EXCEPT ![c] = "forward"] /\ UNCHANGED <<ctr, acc, verdict, batch>>
      BY <1>7, <2>3 DEF BeginUpstream, counting
    <3>2. conn'[c] = "forward"
      BY <1>1, <3>1 DEF Shapes
    <3> QED BY <1>4, <2>1, <3>1, <3>2 DEF HandlerWork
  <2> QED BY <2>2, <2>3
<1>8. CASE EndUpstream(c)
  <2>1. conn[c] = "forward" /\ verdict[c] = "none"
    BY <1>2, <1>8 DEF EndUpstream
  <2>2. CASE Reject(c, "upstream")
    BY <1>3, <2>1, <2>2 DEF RejectionKind
  <2>3. CASE ~Reject(c, "upstream")
    <3>1. /\ ctr' = CountValidated(ctr, batch[c])
          /\ (scope # 0 => acc' = CountValidated(acc, batch[c]))
          /\ conn' = [conn EXCEPT ![c] = "finish"]
          /\ verdict' = [verdict EXCEPT ![c] = "answered"] /\ batch' = batch
      BY <1>8, <2>3 DEF EndUpstream, InScope
    <3>2. /\ Charge(ctr, CountValidated(ctr, batch[c]), batch[c], "none", batch[c], "answered")
          /\ Charge(acc, CountValidated(acc, batch[c]), batch[c], "none", batch[c], "answered")
      BY <1>1, Charges
    <3>3. conn'[c] = "finish" /\ verdict'[c] = "answered" /\ batch'[c] = batch[c]
      BY <1>1, <3>1 DEF Shapes
    <3>4. Charged(c)
      BY <2>1, <3>1, <3>2, <3>3 DEF Charged
    <3>5. HandlerWork(c)
      BY <2>1, <3>3 DEF HandlerWork
    <3>6. ctr'.attempted = ctr.attempted /\ ctr'.synthetic = ctr.synthetic
          /\ ctr'.permitted = ctr.permitted
      BY <1>1, <3>1 DEF CountValidated, Counters
    <3> QED BY <1>1, <3>1, <3>4, <3>5, <3>6
  <2> QED BY <2>2, <2>3
<1>9. CASE FinishHandler(c)
  <2>1. UNCHANGED <<ctr, acc, verdict, batch>>
    BY <1>9 DEF FinishHandler, counting
  <2>2. \/ conn[c] = "finish" /\ conn'[c] = "released"
        \/ conn[c] = "released" /\ conn'[c] = "closed"
    BY <1>1, <1>9 DEF FinishHandler, Shapes
  <2>3. HandlerWork(c)
    BY <2>1, <2>2 DEF HandlerWork
  <2> QED BY <1>4, <2>1, <2>3
<1> QED BY <1>5, <1>6, <1>7, <1>8, <1>9 DEF Handler

(* The loop charges a connection it cannot hand to a handler.              *)
LEMMA DispatchCharged ==
    ASSUME BridgeInv, BookInv, LoopDispatch, NEW c \in Conn, c = loop.item
    PROVE  /\ loop.pc = "dispatch" /\ loop' = Idle /\ verdict[c] = "none"
           /\ Charged(c) /\ batch' = batch
           /\ UNCHANGED <<home, sealed, boundary, driver, abandoned>>
           /\ \A d \in Conn \ {c} : conn'[d] = conn[d] /\ verdict'[d] = verdict[d]
           /\ \/ conn'[c] = "handling" /\ verdict'[c] = verdict[c]
              \/ conn'[c] = "closed" /\ verdict'[c] \in {"unserved", "limit"}
           /\ ctr'.attempted + ctr'.synthetic = ctr'.permitted
<1>1. /\ Shapes /\ LoopInv /\ VerdictInv(c) /\ batch \in [Conn -> Calls]
      /\ ctr \in Counters /\ acc \in Counters
      /\ ctr.attempted + ctr.synthetic = ctr.permitted
      /\ verdict[c] \in Judgement
  BY BookTypes DEF BridgeInv, BookInv, CounterInv
<1>2. loop.pc = "dispatch" /\ loop' = Idle /\ batch' = batch
      /\ UNCHANGED <<home, sealed, boundary, driver, abandoned>>
  BY DEF LoopDispatch, AtLoop, LoopDone, stopping
<1>3. conn[c] = "queued" /\ verdict[c] = "none"
  BY <1>1, <1>2 DEF LoopInv, VerdictInv
<1>4. CASE conn' = [conn EXCEPT ![c] = "handling"] /\ UNCHANGED <<verdict, ctr, acc>>
  <2>1. /\ Charge(ctr, ctr, batch[c], verdict[c], batch[c], verdict[c])
        /\ Charge(acc, acc, batch[c], verdict[c], batch[c], verdict[c])
    BY <1>1, Charges
  <2>2. Charged(c)
    BY <1>2, <1>4, <2>1 DEF Charged
  <2>3. conn'[c] = "handling" /\ \A d \in Conn \ {c} : conn'[d] = conn[d]
    BY <1>1, <1>4 DEF Shapes
  <2> QED BY <1>1, <1>2, <1>3, <1>4, <2>2, <2>3
<1>5. CASE conn' = [conn EXCEPT ![c] = "closed"]
           /\ verdict' = [verdict EXCEPT ![c] = "unserved"] /\ UNCHANGED <<ctr, acc>>
  <2>1. /\ Charge(ctr, ctr, batch[c], "none", batch[c], "unserved")
        /\ Charge(acc, acc, batch[c], "none", batch[c], "unserved")
    BY <1>1, Charges
  <2>2. /\ conn'[c] = "closed" /\ \A d \in Conn \ {c} : conn'[d] = conn[d]
        /\ verdict'[c] = "unserved" /\ \A d \in Conn \ {c} : verdict'[d] = verdict[d]
    BY <1>1, <1>5 DEF Shapes
  <2>3. Charged(c)
    BY <1>2, <1>3, <1>5, <2>1, <2>2 DEF Charged
  <2> QED BY <1>1, <1>2, <1>3, <1>5, <2>2, <2>3
<1>6. CASE conn' = [conn EXCEPT ![c] = "closed"]
           /\ verdict' = [verdict EXCEPT ![c] = "limit"] /\ ctr' = CountRejection(ctr, "limit")
           /\ (scope # 0 => acc' = CountRejection(acc, "limit"))
  <2>0. "limit" \in RejectionKind
    BY DEF RejectionKind
  <2>1. /\ Charge(ctr, CountRejection(ctr, "limit"), batch[c], "none", batch[c], "limit")
        /\ Charge(acc, CountRejection(acc, "limit"), batch[c], "none", batch[c], "limit")
    BY <1>1, <2>0, Charges
  <2>2. /\ conn'[c] = "closed" /\ \A d \in Conn \ {c} : conn'[d] = conn[d]
        /\ verdict'[c] = "limit" /\ \A d \in Conn \ {c} : verdict'[d] = verdict[d]
    BY <1>1, <1>6 DEF Shapes
  <2>3. Charged(c)
    BY <1>2, <1>3, <1>6, <2>1, <2>2 DEF Charged
  <2>4. ctr'.attempted = ctr.attempted /\ ctr'.synthetic = ctr.synthetic
        /\ ctr'.permitted = ctr.permitted
    BY <1>1, <1>6 DEF CountRejection, Counters
  <2> QED BY <1>1, <1>2, <1>3, <2>2, <2>3, <2>4
<1> QED BY <1>4, <1>5, <1>6 DEF LoopDispatch, InScope, counting

(* The books stay exact when what happens to a request at work is charged. *)
LEMMA ServiceBooks ==
    ASSUME BridgeInv, BookInv, Shapes', CounterInv', NEW c \in Conn, AtWork(c), Charged(c),
           verdict[c] # "stale", verdict'[c] # "stale", c \in Counted,
           \A d \in Conn : d \in Counted' <=> d \in Counted,
           UNCHANGED <<home, sealed, scope>>,
           \A d \in Conn \ {c} : batch'[d] = batch[d] /\ verdict'[d] = verdict[d]
    PROVE  OpenBook' /\ SealedBooks' /\ BridgeBook'
<1>1. /\ batch \in [Conn -> Calls] /\ verdict \in [Conn -> Judgement]
      /\ Billed \in [Conn -> Judgement] /\ Counted \in SUBSET Conn
      /\ ctr \in Counters /\ acc \in Counters /\ Len(sealed) \in Nat
      /\ home \in [Conn -> 0 .. NTests]
  BY BookTypes DEF BridgeInv, CounterInv
<1>2. /\ batch' \in [Conn -> Calls] /\ verdict' \in [Conn -> Judgement]
      /\ Billed' \in [Conn -> Judgement] /\ Counted' \in SUBSET Conn
      /\ ctr' \in Counters /\ acc' \in Counters
  BY BookTypesNext DEF CounterInv
<1>3. OpenBook'
  <2> SUFFICES ASSUME scope' # 0 PROVE Adds(acc', batch', verdict', Home(home', scope'))
    BY DEF OpenBook
  <2>1. ~closed /\ home[c] = scope
    BY OpenScope DEF BridgeInv, BookInv, RequestInv
  <2>2. PICK cs \in SUBSET Conn : cs = Home(home, scope)
    BY DEF Home
  <2>3. c \in cs /\ Home(home', scope') = cs /\ Adds(acc, batch, verdict, cs)
    BY <2>1, <2>2 DEF Home, BookInv, OpenBook
  <2>4. ASSUME NEW x \in Item
        PROVE  Reading(acc', x) + Part(batch, verdict, cs, x)[c] =
               Reading(acc, x) + Part(batch', verdict', cs, x)[c]
    BY <2>3 DEF Part, Charged, Charge
  <2>5. Follows(acc, acc', batch, batch', verdict, verdict', cs, cs, c)
    BY <1>1, <1>2, <2>4 DEF Follows
  <2>6. Adds(acc', batch', verdict', cs)
    BY <2>3, <2>5, AddsStep
  <2> QED BY <2>3, <2>6
<1>4. SealedBooks'
  <2> SUFFICES ASSUME NEW i \in 1 .. Len(sealed)
               PROVE  Adds(sealed[i].count, batch', verdict', Home(home, i))
    BY DEF SealedBooks
  <2>1. home[c] # i
    BY <1>1 DEF BookInv, RequestInv
  <2>2. Adds(sealed[i].count, batch, verdict, Home(home, i))
    BY DEF BookInv, SealedBooks
  <2>3. Same(batch, batch', verdict, verdict', Home(home, i), Home(home, i))
    BY <2>1 DEF Home, Same
  <2> QED BY <2>2, <2>3, AddsSame
<1>5. BridgeBook'
  <2>1. Adds(ctr, batch, Billed, Counted)
    BY DEF BookInv, BridgeBook
  <2>2. Counted' = Counted
    BY <1>1, <1>2
  <2>3. Billed[c] = verdict[c] /\ Billed'[c] = verdict'[c]
    BY DEF Billed
  <2>4. \A d \in Conn \ {c} : Billed'[d] = Billed[d]
    BY DEF Billed
  <2>5. ASSUME NEW x \in Item
        PROVE  Reading(ctr', x) + Part(batch, Billed, Counted, x)[c] =
               Reading(ctr, x) + Part(batch', Billed', Counted, x)[c]
    BY <2>3 DEF Part, Charged, Charge
  <2>6. Follows(ctr, ctr', batch, batch', Billed, Billed', Counted, Counted, c)
    BY <1>1, <1>2, <2>4, <2>5 DEF Follows
  <2>7. Adds(ctr', batch', Billed', Counted)
    BY <2>1, <2>6, AddsStep
  <2> QED BY <2>2, <2>7 DEF BridgeBook
<1> QED BY <1>3, <1>4, <1>5

(* They stay as they are when nobody is judged, counted or taken on.       *)
LEMMA StillBooks ==
    ASSUME BookInv, UNCHANGED <<ctr, acc, batch, verdict, home, sealed, scope>>,
           \A d \in Conn : Admits(d)' <=> Admits(d)
    PROVE  OpenBook' /\ SealedBooks' /\ BridgeBook'
<1>1. OpenBook' /\ SealedBooks'
  BY DEF BookInv, OpenBook, SealedBooks
<1>2. Billed' = Billed /\ Counted' = Counted
  BY DEF Billed, Counted
<1> QED BY <1>1, <1>2 DEF BookInv, BridgeBook

(* A new connection is in no book.                                         *)
LEMMA NewComer ==
    ASSUME BridgeInv, BookInv, loop.pc = "admit", NEW c \in Conn, c = loop.item
    PROVE  /\ conn[c] = "queued" /\ verdict[c] = "none" /\ batch[c] = NoCalls
           /\ home[c] = 0 /\ c \notin Counted /\ ~Admits(c)
<1>1. LoopInv /\ VerdictInv(c) /\ RequestInv(c)
  BY DEF BridgeInv, BookInv
<1>2. conn[c] = "queued"
  BY <1>1 DEF LoopInv
<1>3. verdict[c] = "none"
  BY <1>1, <1>2 DEF VerdictInv
<1>4. ~Admits(c)
  BY <1>2, <1>3 DEF Admits, Handling, Fate, RejectionKind
<1> QED BY <1>1, <1>2, <1>3, <1>4 DEF RequestInv, Counted

(* What admission does to the counters of calls: nothing.                  *)
LEMMA AdmitCalls ==
    ASSUME BridgeInv, BookInv, LoopAdmit
    PROVE  ctr'.attempted + ctr'.synthetic = ctr'.permitted
<1>1. ctr \in Counters /\ ctr.attempted + ctr.synthetic = ctr.permitted
  BY DEF BridgeInv, CounterInv, BookInv
<1>2. ctr' \in {ctr, CountHttp(ctr), CountRefusal(ctr)}
  BY AdmitAnswers DEF TakenOn
<1>3. CountHttp(ctr).attempted = ctr.attempted /\ CountHttp(ctr).synthetic = ctr.synthetic
      /\ CountHttp(ctr).permitted = ctr.permitted
  BY <1>1 DEF CountHttp, Counters
<1>4. CountRefusal(ctr).attempted = ctr.attempted
      /\ CountRefusal(ctr).synthetic = ctr.synthetic
      /\ CountRefusal(ctr).permitted = ctr.permitted
  BY <1>1 DEF CountRefusal, CountRejection, CountHttp, Counters
<1> QED BY <1>1, <1>2, <1>3, <1>4

(* The shares of a connection that was just admitted or refused.           *)
LEMMA FirstShare ==
    ASSUME NEW n \in Counters, NEW x \in Item
    PROVE  /\ Reading(CountHttp(n), x) = Reading(n, x) + Share(NoCalls, "none", x)
           /\ Reading(CountRefusal(n), x) = Reading(n, x) + Share(NoCalls, "limit", x)
<1>1. "limit" \in RejectionKind /\ NoCalls \in Calls /\ CountHttp(n) \in Counters
  BY Counting DEF RejectionKind, NoCalls, Calls
<1>2. Reading(n, x) \in Nat
  BY Shares
<1>3. Reading(CountHttp(n), x) = Reading(n, x) + IF x = "http" THEN 1 ELSE 0
  BY Readings
<1>4. Reading(CountRejection(CountHttp(n), "limit"), x) =
         Reading(CountHttp(n), x) + IF x = "limit" THEN 1 ELSE 0
  BY <1>1, Readings
<1>5. Share(NoCalls, "none", x) = IF x = "http" THEN 1 ELSE 0
  BY <1>1, ShareSteps
<1>6. Share(NoCalls, "limit", x) = Share(NoCalls, "none", x) + IF x = "limit" THEN 1 ELSE 0
  BY <1>1, ShareSteps
<1> QED BY <1>2, <1>3, <1>4, <1>5, <1>6 DEF CountRefusal

(* Admission keeps the books exact.                                        *)
LEMMA AdmitBooks ==
    ASSUME BridgeInv, BookInv, Shapes', CounterInv', LoopAdmit
    PROVE  OpenBook' /\ SealedBooks' /\ BridgeBook'
<1>1. /\ batch \in [Conn -> Calls] /\ verdict \in [Conn -> Judgement]
      /\ Billed \in [Conn -> Judgement] /\ Counted \in SUBSET Conn
      /\ ctr \in Counters /\ acc \in Counters /\ Len(sealed) \in Nat
      /\ home \in [Conn -> 0 .. NTests]
  BY BookTypes DEF BridgeInv, CounterInv
<1>2. /\ batch' \in [Conn -> Calls] /\ verdict' \in [Conn -> Judgement]
      /\ Billed' \in [Conn -> Judgement] /\ Counted' \in SUBSET Conn
      /\ ctr' \in Counters /\ acc' \in Counters
  BY BookTypesNext DEF CounterInv
<1>3. loop.pc = "admit" /\ UNCHANGED <<batch, sealed, scope>>
  BY DEF LoopAdmit, AtLoop, boundary
<1>4. PICK c \in Conn : c = loop.item
  BY <1>3 DEF BridgeInv, LoopInv
<1>5. /\ conn[c] = "queued" /\ verdict[c] = "none" /\ batch[c] = NoCalls
      /\ home[c] = 0 /\ c \notin Counted
  BY <1>3, <1>4, NewComer
<1>6. /\ scope # 0 => Adds(acc, batch, verdict, Home(home, scope))
      /\ \A i \in 1 .. Len(sealed) : Adds(sealed[i].count, batch, verdict, Home(home, i))
      /\ Adds(ctr, batch, Billed, Counted)
  BY DEF BookInv, OpenBook, SealedBooks, BridgeBook
<1>7. ASSUME NEW why \in {"stale", "dropped"}, Answered(why), acc' = acc
      PROVE  OpenBook' /\ SealedBooks'
  <2>1. home' = home /\ \A d \in Conn \ {c} : verdict'[d] = verdict[d]
    BY <1>1, <1>4, <1>7 DEF Answered
  <2>2. ASSUME NEW s, s # 0
        PROVE  Same(batch, batch', verdict, verdict', Home(home, s), Home(home', s))
    BY <1>3, <1>5, <2>1, <2>2 DEF Same, Home
  <2>3. OpenBook'
    BY <1>3, <1>6, <1>7, <2>2, AddsSame DEF OpenBook
  <2>4. ASSUME NEW i \in 1 .. Len(sealed)
        PROVE  Adds(sealed[i].count, batch', verdict', Home(home', i))
    <3>1. Same(batch, batch', verdict, verdict', Home(home, i), Home(home', i))
      BY <2>2
    <3> QED BY <1>6, <3>1, AddsSame
  <2> QED BY <1>3, <2>3, <2>4 DEF SealedBooks
<1>8. CASE Answered("stale") /\ ctr' = CountRefusal(ctr) /\ acc' = acc
  <2>1. verdict' = [verdict EXCEPT ![c] = "stale"] /\ conn' = [conn EXCEPT ![c] = "closed"]
        /\ loop' = Idle
    BY <1>4, <1>8 DEF Answered
  <2>2. verdict'[c] = "stale" /\ \A d \in Conn \ {c} : verdict'[d] = verdict[d]
    BY <1>1, <2>1
  <2>3. \A d \in Conn \ {c} : conn'[d] = conn[d]
    BY <2>1 DEF BridgeInv, Shapes
  <2>4. c \in Counted' /\ \A d \in Conn \ {c} : d \in Counted' <=> d \in Counted
    BY <1>3, <1>4, <2>1, <2>2, <2>3 DEF Counted, Admits, Idle
  <2>5. Billed'[c] = "limit" /\ \A d \in Conn \ {c} : Billed'[d] = Billed[d]
    BY <2>2 DEF Billed
  <2>6. ASSUME NEW x \in Item
        PROVE  Reading(ctr', x) + Part(batch, Billed, Counted, x)[c] =
               Reading(ctr, x) + Part(batch', Billed', Counted', x)[c]
    <3>1. Part(batch, Billed, Counted, x)[c] = 0
      BY <1>5 DEF Part
    <3>2. Part(batch', Billed', Counted', x)[c] = Share(NoCalls, "limit", x)
      BY <1>3, <1>5, <2>4, <2>5 DEF Part
    <3>3. Reading(ctr', x) = Reading(ctr, x) + Share(NoCalls, "limit", x)
      BY <1>1, <1>8, FirstShare
    <3>4. Reading(ctr', x) \in Nat
      BY <1>2, Shares
    <3> QED BY <3>1, <3>2, <3>3, <3>4
  <2>7. Follows(ctr, ctr', batch, batch', Billed, Billed', Counted, Counted', c)
    BY <1>1, <1>2, <1>3, <2>4, <2>5, <2>6 DEF Follows
  <2>8. BridgeBook'
    BY <1>6, <2>7, AddsStep DEF BridgeBook
  <2> QED BY <1>7, <1>8, <2>8
<1>9. CASE Answered("dropped") /\ ctr' = ctr /\ acc' = acc
  <2>1. verdict' = [verdict EXCEPT ![c] = "dropped"] /\ conn' = [conn EXCEPT ![c] = "closed"]
        /\ loop' = Idle
    BY <1>4, <1>9 DEF Answered
  <2>2. verdict'[c] = "dropped" /\ \A d \in Conn \ {c} : verdict'[d] = verdict[d]
    BY <1>1, <2>1
  <2>3. conn'[c] = "closed" /\ \A d \in Conn \ {c} : conn'[d] = conn[d]
    BY <2>1 DEF BridgeInv, Shapes
  <2>4. \A d \in Conn \ {c} : d \in Counted' <=> d \in Counted
    BY <1>3, <1>4, <2>1, <2>2, <2>3 DEF Counted, Admits, Idle
  <2>5. c \notin Counted'
    BY <2>1, <2>2, <2>3 DEF Counted, Admits, Idle, Handling, Fate, RejectionKind
  <2>6. \A d \in Conn \ {c} : Billed'[d] = Billed[d]
    BY <2>2 DEF Billed
  <2>7. Same(batch, batch', Billed, Billed', Counted, Counted')
    BY <1>3, <1>5, <2>4, <2>5, <2>6 DEF Same
  <2>8. BridgeBook'
    BY <1>6, <1>9, <2>7, AddsSame DEF BridgeBook
  <2> QED BY <1>7, <1>9, <2>8
<1>10. CASE TakenOn /\ (scope # 0 => acc' = CountHttp(acc))
  <2>1. /\ home' = [home EXCEPT ![c] = scope] /\ ctr' = CountHttp(ctr)
        /\ UNCHANGED <<conn, verdict>>
    BY <1>4, <1>10 DEF TakenOn
  <2>2. home'[c] = scope /\ \A d \in Conn \ {c} : home'[d] = home[d]
    BY <1>1, <2>1
  <2>3. loop'.pc = "dispatch" /\ loop'.item = c
    BY <1>4, <1>10, AdmitLeaves
  <2>4. c \in Counted' /\ \A d \in Conn \ {c} : d \in Counted' <=> d \in Counted
    BY <1>3, <1>4, <2>1, <2>3 DEF Counted, Admits
  <2>5. Billed' = Billed /\ Billed[c] = "none"
    BY <1>5, <2>1 DEF Billed
  <2>6. ASSUME NEW x \in Item
        PROVE  Reading(ctr', x) + Part(batch, Billed, Counted, x)[c] =
               Reading(ctr, x) + Part(batch', Billed', Counted', x)[c]
    <3>1. Part(batch, Billed, Counted, x)[c] = 0
      BY <1>5 DEF Part
    <3>2. Part(batch', Billed', Counted', x)[c] = Share(NoCalls, "none", x)
      BY <1>3, <1>5, <2>4, <2>5 DEF Part
    <3>3. Reading(ctr', x) = Reading(ctr, x) + Share(NoCalls, "none", x)
      BY <1>1, <2>1, FirstShare
    <3>4. Reading(ctr', x) \in Nat
      BY <1>2, Shares
    <3> QED BY <3>1, <3>2, <3>3, <3>4
  <2>7. Follows(ctr, ctr', batch, batch', Billed, Billed', Counted, Counted', c)
    BY <1>1, <1>2, <1>3, <2>4, <2>5, <2>6 DEF Follows
  <2>8. BridgeBook'
    BY <1>6, <2>7, AddsStep DEF BridgeBook
  <2>9. OpenBook'
    <3> SUFFICES ASSUME scope # 0 PROVE Adds(acc', batch', verdict', Home(home', scope))
      BY <1>3 DEF OpenBook
    <3>1. PICK cs \in SUBSET Conn, ds \in SUBSET Conn :
             cs = Home(home, scope) /\ ds = Home(home', scope)
      BY DEF Home
    <3>2. c \in ds /\ c \notin cs /\ \A d \in Conn \ {c} : d \in ds <=> d \in cs
      BY <1>5, <2>2, <3>1 DEF Home
    <3>3. ASSUME NEW x \in Item
          PROVE  Reading(acc', x) + Part(batch, verdict, cs, x)[c] =
                 Reading(acc, x) + Part(batch', verdict', ds, x)[c]
      <4>1. Part(batch, verdict, cs, x)[c] = 0
        BY <3>2 DEF Part
      <4>2. Part(batch', verdict', ds, x)[c] = Share(NoCalls, "none", x)
        BY <1>3, <1>5, <2>1, <3>2 DEF Part
      <4>3. Reading(acc', x) = Reading(acc, x) + Share(NoCalls, "none", x)
        BY <1>1, <1>10, FirstShare
      <4>4. Reading(acc', x) \in Nat
        BY <1>2, Shares
      <4> QED BY <4>1, <4>2, <4>3, <4>4
    <3>4. Follows(acc, acc', batch, batch', verdict, verdict', cs, ds, c)
      BY <1>1, <1>2, <1>3, <2>1, <3>2, <3>3 DEF Follows
    <3> QED BY <1>6, <3>1, <3>4, AddsStep
  <2>10. SealedBooks'
    <3> SUFFICES ASSUME NEW i \in 1 .. Len(sealed)
                 PROVE  Adds(sealed[i].count, batch', verdict', Home(home', i))
      BY <1>3 DEF SealedBooks
    <3>1. scope # i
      BY <1>1 DEF BookInv, ScopesInv
    <3>2. Same(batch, batch', verdict, verdict', Home(home, i), Home(home', i))
      BY <1>3, <1>5, <2>1, <2>2, <3>1 DEF Same, Home
    <3> QED BY <1>6, <3>2, AddsSame
  <2> QED BY <2>8, <2>9, <2>10
<1>11. ~TakenOn => acc' = acc
  BY DEF LoopAdmit, Stale, Refuse, TakenOn, Saturates
<1>12. TakenOn => (scope # 0 => acc' = CountHttp(acc))
  BY DEF LoopAdmit, Stale, Refuse, TakenOn, InScope
<1> QED BY <1>8, <1>9, <1>10, <1>11, <1>12, AdmitAnswers

(* Only a boundary and a stop change which scope is open.                  *)
LEMMA QuietBridge ==
    ASSUME BridgeInv, [Next]_vars, ~SealBoundary, ~Stop
    PROVE  /\ UNCHANGED <<gen, sealed, scope, closed, abandoned>>
           /\ driver' = "stopped" => driver = "stopped" \/ ~abandoned
<1> USE DEF counting, listener, stopping, boundary, history
<1>1. CASE DriverMoves
  <2>1. CASE StopPostflight
    BY <2>1 DEF StopPostflight
  <2> QED BY <1>1, <2>1 DEF DriverMoves, DeadlinePasses, CallBoundary, ProbeAccepted, Drain,
     StopHandlers, StopJoin, StopExpires, Done, vars
<1>2. CASE BoundaryRaises \/ Connect \/ Start \/ ProbeConnect
  BY <1>2 DEF BoundaryRaises, BoundaryFails, Connect, Start, ProbeConnect
<1>3. CASE Loop
  BY <1>3, LoopMoves
<1>4. CASE AdmissionStep \/ CleanupStep \/ UNCHANGED vars
  BY <1>4 DEF AdmissionStep, CleanupStep, vars
<1>5. CASE \E c \in Conn : Handler(c)
  BY <1>5, HandlerStep DEF BridgeInv, HandlerFrame
<1> QED BY <1>1, <1>2, <1>3, <1>4, <1>5, NextSteps

(* Only the loop and the handlers count.                                   *)
LEMMA QuietCounters ==
    ASSUME BridgeInv, [Next]_vars, ~Loop, \A c \in Conn : ~Handler(c)
    PROVE  /\ UNCHANGED <<batch, verdict, home, loop, ctr>>
           /\ ~SealBoundary => acc' = acc
           /\ \A c \in Conn : conn'[c] = conn[c] \/ (conn[c] = "none" /\ conn'[c] = "queued")
<1> USE DEF counting, listener, stopping, boundary, history
<1>1. /\ UNCHANGED <<verdict, home, loop, ctr>>
      /\ \A c \in Conn : conn'[c] = conn[c] \/ (conn[c] = "none" /\ conn'[c] = "queued")
  BY Bystanders, OutsideLoop
<1>2. batch' = batch /\ (~SealBoundary => acc' = acc)
  <2>1. CASE DriverMoves
    BY <2>1 DEF DriverMoves, DeadlinePasses, CallBoundary, ProbeAccepted, Drain,
       StopHandlers, StopJoin, StopPostflight, StopExpires, Done, vars
  <2>2. CASE BoundaryRaises \/ Connect \/ Start \/ ProbeConnect \/ Stop
    BY <2>2 DEF BoundaryRaises, BoundaryFails, Connect, Start, ProbeConnect, Stop
  <2>3. CASE SealBoundary
    BY <2>3 DEF SealBoundary
  <2>4. CASE AdmissionStep \/ CleanupStep \/ UNCHANGED vars
    BY <2>4 DEF AdmissionStep, CleanupStep, vars
  <2> QED BY <2>1, <2>2, <2>3, <2>4, NextSteps
<1> QED BY <1>1, <1>2

(* A boundary is sealed while nobody is served.                            *)
LEMMA SealIdle ==
    ASSUME BridgeInv, SealBoundary
    PROVE  \A c \in Conn : ~AtWork(c)
<1>1. inflight = 0 /\ inflight = Cardinality(Serving)
  BY DEF SealBoundary, Sealable, BoundaryDrained, BridgeInv, HttpInv
<1>2. IsFiniteSet(Serving)
  BY ConnCardinality DEF Serving
<1>3. Serving = {}
  BY <1>1, <1>2, FS_EmptySet
<1> QED BY <1>3 DEF Serving, AtWork

(* What a boundary does to the scopes.                                     *)
LEMMA SealScopes ==
    ASSUME BridgeInv, BookInv, SealBoundary
    PROVE  /\ UNCHANGED <<closed, abandoned, ctr, conn, batch, verdict, home, loop>>
           /\ ~closed /\ driver' # "stopped" /\ Len(sealed) \in Nat
           /\ \/ /\ scope = 0 /\ scope' = Len(sealed) + 1 /\ acc' = Zero /\ sealed' = sealed
                 /\ gen = 2 * Len(sealed) /\ gen' = 2 * Len(sealed) + 1
              \/ /\ scope = Len(sealed) + 1 /\ scope' = 0
                 /\ gen' = 2 * Len(sealed) + 2 /\ Len(sealed') = Len(sealed) + 1
                 /\ \A i \in 1 .. Len(sealed) : sealed'[i] = sealed[i]
                 /\ sealed'[Len(sealed) + 1].test = scope
                 /\ sealed'[Len(sealed) + 1].count = acc
<1>1. /\ Shapes /\ PhaseInv /\ ScopesInv /\ Len(sealed) \in Nat /\ driver = "seal"
      /\ sealed \in Seq([test : 1 .. NTests, count : Counters,
                         status : {"validated", "not_observed", "violation"}])
  BY BookTypes DEF BridgeInv, BookInv, SealBoundary
<1>2. /\ ~closed /\ calls \in Nat \ {0} /\ gen = calls - 1 /\ ThisTest \in 1 .. NTests
      /\ Beginning => calls = 2 * ThisTest - 1 /\ scope = 0
      /\ ~Beginning => calls = 2 * ThisTest /\ scope = ThisTest
  BY <1>1, BoundaryPhase DEF BoundaryPc
<1>3. UNCHANGED <<closed, abandoned, ctr, conn, batch, verdict, home, loop>>
      /\ gen' = gen + 1 /\ driver' # "stopped"
  BY DEF SealBoundary, history, listener, stopping
<1>4. gen = 2 * Len(sealed) + (IF scope # 0 THEN 1 ELSE 0)
  BY <1>1, <1>2 DEF ScopesInv
<1>5. NTests \in Nat
  BY Connections
<1>6. CASE Beginning
  <2>1. scope' = ThisTest /\ acc' = Zero /\ sealed' = sealed
    BY <1>6 DEF SealBoundary
  <2>2. ThisTest = Len(sealed) + 1 /\ gen = 2 * Len(sealed) /\ scope = 0
    BY <1>1, <1>2, <1>4, <1>5, <1>6
  <2> QED BY <1>1, <1>2, <1>3, <2>1, <2>2
<1>7. CASE ~Beginning
  <2>1. scope' = 0 /\ sealed' = Append(sealed, [test |-> scope, count |-> acc,
                                                status |-> ScopeStatus(acc)])
    BY <1>7 DEF SealBoundary
  <2>2. scope = Len(sealed) + 1 /\ gen = 2 * Len(sealed) + 1
    BY <1>1, <1>2, <1>4, <1>5, <1>7
  <2>3. PICK r : r = [test |-> scope, count |-> acc, status |-> ScopeStatus(acc)]
    OBVIOUS
  <2>4. r.test = scope /\ r.count = acc
    BY <2>3
  <2>5. Len(sealed') = Len(sealed) + 1 /\ sealed'[Len(sealed) + 1] = r
        /\ \A i \in 1 .. Len(sealed) : sealed'[i] = sealed[i]
    BY <1>1, <2>1, <2>3
  <2> QED BY <1>1, <1>2, <1>3, <2>1, <2>2, <2>4, <2>5
<1> QED BY <1>6, <1>7

(* A boundary opens an empty book, or puts the open one with the sealed.   *)
LEMMA SealBooks ==
    ASSUME BridgeInv, BookInv, SealBoundary
    PROVE  OpenBook' /\ SealedBooks' /\ BridgeBook' /\ ScopesInv'
           /\ ctr'.attempted + ctr'.synthetic = ctr'.permitted
<1>1. UNCHANGED <<closed, abandoned, ctr, conn, batch, verdict, home, loop>>
      /\ ~closed /\ driver' # "stopped" /\ Len(sealed) \in Nat
  BY SealScopes
<1>2. Billed' = Billed /\ Counted' = Counted
  BY <1>1 DEF Billed, Counted, Admits
<1>3. BridgeBook' /\ ctr'.attempted + ctr'.synthetic = ctr'.permitted
  BY <1>1, <1>2 DEF BridgeBook, BookInv
<1>4. /\ \A i \in 1 .. Len(sealed) : sealed[i].test = i
      /\ \A c \in Conn : home[c] <= Len(sealed) \/ home[c] = scope
      /\ home \in [Conn -> 0 .. NTests] /\ NTests \in Nat
  BY <1>1, BookTypes, Connections DEF BookInv, ScopesInv, BridgeInv
<1>5. CASE scope = 0 /\ scope' = Len(sealed) + 1 /\ acc' = Zero /\ sealed' = sealed
           /\ gen' = 2 * Len(sealed) + 1
  <2>1. Home(home', scope') \cap Conn = {}
    BY <1>1, <1>4, <1>5 DEF Home
  <2>2. OpenBook'
    BY <1>5, <2>1, AddsNone DEF OpenBook
  <2>3. SealedBooks'
    BY <1>1, <1>5 DEF BookInv, SealedBooks
  <2>4. ScopesInv'
    BY <1>1, <1>4, <1>5 DEF ScopesInv
  <2> QED BY <1>3, <2>2, <2>3, <2>4
<1>6. CASE /\ scope = Len(sealed) + 1 /\ scope' = 0
           /\ gen' = 2 * Len(sealed) + 2 /\ Len(sealed') = Len(sealed) + 1
           /\ \A i \in 1 .. Len(sealed) : sealed'[i] = sealed[i]
           /\ sealed'[Len(sealed) + 1].test = scope
           /\ sealed'[Len(sealed) + 1].count = acc
  <2>1. OpenBook'
    BY <1>6 DEF OpenBook
  <2>2. Adds(acc, batch, verdict, Home(home, scope))
        /\ \A i \in 1 .. Len(sealed) : Adds(sealed[i].count, batch, verdict, Home(home, i))
    BY <1>1, <1>6 DEF BookInv, OpenBook, SealedBooks
  <2>3. ASSUME NEW i \in 1 .. Len(sealed')
        PROVE  Adds(sealed'[i].count, batch, verdict, Home(home, i)) /\ sealed'[i].test = i
    <3>1. CASE i = Len(sealed) + 1
      BY <1>6, <2>2, <3>1
    <3>2. CASE i \in 1 .. Len(sealed)
      BY <1>4, <1>6, <2>2, <3>2
    <3> QED BY <1>1, <1>6, <3>1, <3>2
  <2>4. SealedBooks'
    BY <1>1, <2>3 DEF SealedBooks
  <2>5. \A c \in Conn : home[c] <= Len(sealed) + 1
    BY <1>1, <1>4, <1>6
  <2>6. ScopesInv'
    BY <1>1, <1>6, <2>3, <2>5 DEF ScopesInv
  <2> QED BY <1>3, <2>1, <2>4, <2>6
<1> QED BY <1>5, <1>6, SealScopes

(* The scopes follow each other.                                           *)
LEMMA ScopesStep ==
    ASSUME BridgeInv, BookInv, [Next]_vars
    PROVE  ScopesInv'
<1>1. /\ ScopesInv /\ Shapes /\ PhaseInv /\ Len(sealed) \in Nat /\ gen \in Nat
      /\ home \in [Conn -> 0 .. NTests] /\ NTests \in Nat
  BY BookTypes, Connections DEF BridgeInv, BookInv, Shapes
<1>2. CASE SealBoundary
  BY <1>2, SealBooks
<1>3. CASE Stop
  <2>1. /\ ~closed /\ closed' /\ scope' = 0 /\ gen' = gen + 1 /\ driver' = "stopping"
        /\ abandoned' = (scope # 0) /\ UNCHANGED <<sealed, home>>
    BY <1>1, <1>3 DEF Stop, PhaseInv, history
  <2>2. ~abandoned' => gen' = 2 * Len(sealed) + 1
    <3>1. ~abandoned' => scope = 0
      BY <2>1, Zenon
    <3>2. scope = 0 => gen = 2 * Len(sealed)
      BY <1>1, <2>1 DEF ScopesInv
    <3>3. gen' = gen + 1
      BY <2>1
    <3> QED BY <1>1, <3>1, <3>2, <3>3
  <2>3. \A i \in 1 .. Len(sealed) : sealed'[i].test = i
    BY <1>1, <2>1 DEF ScopesInv
  <2> QED BY <2>1, <2>2, <2>3 DEF ScopesInv
<1>4. CASE ~SealBoundary /\ ~Stop
  <2>1. /\ UNCHANGED <<gen, sealed, scope, closed, abandoned>>
        /\ driver' = "stopped" => driver = "stopped" \/ ~abandoned
    BY <1>4, QuietBridge
  <2>2. \A c \in Conn : home'[c] = home[c] \/ home'[c] = scope
    <3>1. CASE LoopAdmit
      <4>1. home' = home \/ (home' = [home EXCEPT ![loop.item] = scope])
        BY <3>1, AdmitAnswers DEF Answered, TakenOn
      <4> QED BY <1>1, <4>1
    <3>2. CASE ~LoopAdmit
      BY <3>2, LoopMoves, OutsideLoop
    <3> QED BY <3>1, <3>2
  <2> QED BY <1>1, <2>1, <2>2 DEF ScopesInv
<1> QED BY <1>2, <1>3, <1>4

(* Whose turn it is at the loop.                                           *)
Held(c) == loop.pc = "dispatch" /\ loop.item = c

(* A connection nobody touches keeps its part of the invariant.            *)
LEMMA SameRequest ==
    ASSUME NEW c \in Conn, RequestInv(c), conn'[c] = conn[c], verdict'[c] = verdict[c],
           batch'[c] = batch[c], home'[c] = home[c], Held(c)' <=> Held(c),
           UNCHANGED <<closed, scope, sealed>>
    PROVE  RequestInv(c)' /\ (Admits(c)' <=> Admits(c))
<1>1. (Admits(c)' <=> Admits(c)) /\ (AtWork(c)' <=> AtWork(c))
  BY DEF Admits, AtWork, Held
<1> QED BY <1>1 DEF RequestInv

(* A handler's request stays admitted and keeps its part.                  *)
LEMMA HandlerRequest ==
    ASSUME BridgeInv, BookInv, NEW c \in Conn, Handler(c)
    PROVE  RequestInv(c)' /\ Admits(c) /\ Admits(c)' /\ verdict[c] # "stale"
           /\ verdict'[c] # "stale" /\ UNCHANGED <<closed, scope, sealed, home, loop>>
<1>1. /\ RequestInv(c) /\ VerdictInv(c) /\ HandlerWork(c) /\ Charged(c)
      /\ batch[c] \in Calls
  BY HandlerCharged, BookTypes DEF BridgeInv, BookInv
<1>2. UNCHANGED <<closed, scope, sealed, home, loop>>
  BY HandlerStep DEF BridgeInv, HandlerFrame, listener, boundary
<1>3. Admits(c)
  BY <1>1 DEF HandlerWork, Admits, Handling
<1>4. verdict[c] # "stale"
  BY <1>1 DEF HandlerWork, VerdictInv, Fate, RejectionKind
<1>5. Admits(c)' /\ verdict'[c] # "stale"
  BY <1>1, <1>4 DEF HandlerWork, VerdictInv, Admits, Handling, Fate, RejectionKind
<1>6. (AtWork(c)' => AtWork(c)) /\ conn'[c] \notin {"queued", "handling"}
  BY <1>1, <1>2 DEF HandlerWork, AtWork, Handling
<1>7. batch[c] = NoCalls => batch[c].origin = 0
  BY DEF NoCalls
<1>8. /\ conn'[c] \in {"permitted", "forward"} => batch'[c].origin > 0
      /\ batch'[c].origin > 0 =>
           conn'[c] \in {"permitted", "forward"} \/ verdict'[c] \in {"answered", "upstream"}
      /\ verdict'[c] = "upstream" => batch'[c] = NoCalls \/ batch'[c].origin > 0
  <2>1. CASE conn[c] \in {"finish", "released"}
    BY <1>1, <2>1 DEF HandlerWork, RequestInv
  <2>2. CASE conn[c] = "handling"
    <3>1. verdict[c] = "none" /\ batch[c] = NoCalls
      BY <1>1, <2>2 DEF VerdictInv, RequestInv
    <3> QED BY <1>1, <1>7, <2>2, <3>1 DEF HandlerWork
  <2>3. CASE conn[c] \in {"permitted", "forward"}
    <3>1. verdict[c] = "none" /\ batch[c].origin > 0
      BY <1>1, <2>3 DEF VerdictInv, RequestInv
    <3> QED BY <1>1, <2>3, <3>1 DEF HandlerWork
  <2> QED BY <1>1, <2>1, <2>2, <2>3 DEF HandlerWork
<1> QED BY <1>1, <1>2, <1>3, <1>4, <1>5, <1>6, <1>8 DEF RequestInv

(* The loop's own connection.                                              *)
LEMMA LoopRequest ==
    ASSUME BridgeInv, BookInv, Loop, NEW c \in Conn,
           ~(UNCHANGED <<conn, verdict, home>>) \/ Held(c), c = loop.item
    PROVE  RequestInv(c)' /\ (LoopAdmit \/ (Admits(c)' <=> Admits(c)))
<1>1. /\ RequestInv(c) /\ VerdictInv(c) /\ LoopInv /\ Shapes /\ ScopesInv
      /\ batch[c] \in Calls /\ Len(sealed) \in Nat
  BY BookTypes DEF BridgeInv, BookInv
<1>2. UNCHANGED <<closed, scope, sealed, batch>>
  BY LoopMoves
<1>3. NoCalls.origin = 0
  BY DEF NoCalls
<1>4. CASE LoopDispatch
  <2>1. /\ loop.pc = "dispatch" /\ loop' = Idle /\ verdict[c] = "none" /\ home' = home
        /\ \/ conn'[c] = "handling" /\ verdict'[c] = verdict[c]
           \/ conn'[c] = "closed" /\ verdict'[c] \in {"unserved", "limit"}
    BY <1>4, DispatchCharged
  <2>2. conn[c] = "queued" /\ batch[c] = NoCalls
    BY <1>1, <2>1 DEF LoopInv, RequestInv
  <2>3. Admits(c) /\ Admits(c)' /\ AtWork(c)
    BY <2>1 DEF Admits, AtWork, Handling, Fate, RejectionKind
  <2> QED BY <1>1, <1>2, <1>3, <2>1, <2>2, <2>3 DEF RequestInv
<1>5. CASE LoopAdmit
  <2>1. loop.pc = "admit"
    BY <1>5 DEF LoopAdmit, AtLoop
  <2>2. /\ conn[c] = "queued" /\ verdict[c] = "none" /\ batch[c] = NoCalls
        /\ home[c] = 0 /\ ~Admits(c)
    BY <2>1, NewComer
  <2>3. CASE TakenOn
    <3>1. home'[c] = scope /\ UNCHANGED <<conn, verdict>>
      BY <1>1, <2>3 DEF TakenOn, Shapes
    <3>2. loop'.pc = "dispatch" /\ loop'.item = c
      BY <1>5, <2>3, AdmitLeaves
    <3>3. Admits(c)'
      BY <3>2 DEF Admits
    <3>4. scope = 0 \/ scope > Len(sealed)
      BY <1>1 DEF ScopesInv
    <3> QED BY <1>2, <1>3, <1>5, <2>2, <3>1, <3>3, <3>4 DEF RequestInv
  <2>4. CASE ~TakenOn
    <3>1. PICK why \in {"stale", "dropped"} : Answered(why)
      BY <1>5, <2>4, AdmitAnswers
    <3>2. conn'[c] = "closed" /\ verdict'[c] = why /\ home' = home /\ loop' = Idle
      BY <1>1, <3>1 DEF Answered, Shapes
    <3>3. ~AtWork(c)'
      BY <3>2 DEF AtWork, Handling, Idle
    <3> QED BY <1>2, <1>3, <1>5, <2>2, <3>2, <3>3 DEF RequestInv
  <2> QED BY <2>3, <2>4
<1>6. CASE LoopProbe
  <2>1. loop.pc = "probe" /\ conn'[c] = "closed" /\ UNCHANGED <<verdict, home>>
        /\ loop'.pc = "pause"
    BY <1>1, <1>6 DEF LoopProbe, AtLoop, LoopAt, LoopInv, Shapes, history
  <2>2. conn[c] = "queued" /\ verdict[c] = "none"
    BY <1>1, <2>1 DEF LoopInv, VerdictInv
  <2>3. ~Admits(c) /\ ~Admits(c)' /\ ~AtWork(c)'
    BY <2>1, <2>2 DEF Admits, AtWork, Handling, Fate, RejectionKind
  <2> QED BY <1>1, <1>2, <1>3, <2>1, <2>2, <2>3 DEF RequestInv
<1>7. CASE LoopAccept \/ LoopResume \/ LoopRegister \/ LoopExit
  <2>1. UNCHANGED <<conn, verdict, home>> /\ loop.pc # "dispatch"
    BY <1>7 DEF LoopAccept, LoopResume, LoopRegister, LoopExit, AtLoop, history
  <2> QED BY <2>1 DEF Held
<1> QED BY <1>4, <1>5, <1>6, <1>7 DEF Loop

(* The calls of the bridge are to the origin or answered from the pinned   *)
(* state.                                                                  *)
CallsAdd == ctr.attempted + ctr.synthetic = ctr.permitted

(* The books after a step of a handler.                                    *)
LEMMA HandlerBooks ==
    ASSUME BridgeInv, BookInv, Shapes', CounterInv', NEW c \in Conn, Handler(c)
    PROVE  /\ \A d \in Conn : RequestInv(d)'
           /\ OpenBook' /\ SealedBooks' /\ BridgeBook' /\ CallsAdd'
<1>1. /\ RequestInv(c)' /\ Admits(c) /\ Admits(c)' /\ verdict[c] # "stale"
      /\ verdict'[c] # "stale" /\ UNCHANGED <<closed, scope, sealed, home, loop>>
  BY HandlerRequest
<1>2. /\ Charged(c) /\ HandlerWork(c) /\ \A d \in Conn \ {c} : batch'[d] = batch[d]
      /\ CallsAdd'
  BY HandlerCharged DEF CallsAdd
<1>3. \A d \in Conn \ {c} : conn'[d] = conn[d] /\ verdict'[d] = verdict[d]
  BY HandlerVerdicts
<1>4. ASSUME NEW d \in Conn \ {c} PROVE RequestInv(d)' /\ (Admits(d)' <=> Admits(d))
  <2>1. RequestInv(d) /\ (Held(d)' <=> Held(d)) /\ home'[d] = home[d]
    BY <1>1 DEF BookInv, Held
  <2> QED BY <1>1, <1>2, <1>3, <2>1, SameRequest
<1>5. \A d \in Conn : RequestInv(d)' /\ (Admits(d)' <=> Admits(d))
  BY <1>1, <1>4
<1>6. CASE AtWork(c)
  <2>1. c \in Counted /\ \A d \in Conn : d \in Counted' <=> d \in Counted
    BY <1>1, <1>3, <1>5 DEF Counted
  <2>2. OpenBook' /\ SealedBooks' /\ BridgeBook'
    BY <1>1, <1>2, <1>3, <1>6, <2>1, ServiceBooks
  <2> QED BY <1>2, <1>5, <2>2
<1>7. CASE ~AtWork(c)
  <2>1. conn[c] = "released" /\ batch'[c] = batch[c] /\ verdict'[c] = verdict[c]
    BY <1>2, <1>7 DEF HandlerWork, AtWork, Handling
  <2>2. UNCHANGED <<ctr, acc>>
    BY <2>1, HandlerStep DEF BridgeInv, counting
  <2>3. /\ batch \in [Conn -> Calls] /\ verdict \in [Conn -> Judgement]
        /\ batch' \in [Conn -> Calls] /\ verdict' \in [Conn -> Judgement]
    BY BookTypes, BookTypesNext DEF BridgeInv
  <2>4. batch' = batch
    BY <1>2, <2>1, <2>3
  <2>5. verdict' = verdict
    BY <1>3, <2>1, <2>3
  <2>6. OpenBook' /\ SealedBooks' /\ BridgeBook'
    BY <1>1, <1>5, <2>2, <2>4, <2>5, StillBooks
  <2> QED BY <1>2, <1>5, <2>6
<1> QED BY <1>6, <1>7

(* The books after a step of the accept loop.                              *)
LEMMA LoopBooks ==
    ASSUME BridgeInv, BookInv, Shapes', CounterInv', Loop
    PROVE  /\ \A d \in Conn : RequestInv(d)'
           /\ OpenBook' /\ SealedBooks' /\ BridgeBook' /\ CallsAdd'
<1>1. LoopInv /\ CallsAdd /\ \A d \in Conn : RequestInv(d)
  BY DEF BridgeInv, BookInv, CallsAdd
<1>2. UNCHANGED <<closed, scope, sealed, batch>>
  BY LoopMoves
<1>3. CASE LoopAccept \/ LoopResume \/ LoopRegister \/ LoopExit
  <2>1. UNCHANGED <<conn, verdict, home, ctr, acc>> /\ loop.pc # "dispatch"
    BY <1>3 DEF LoopAccept, LoopResume, LoopRegister, LoopExit, AtLoop, history, counting
  <2>2. loop'.pc # "dispatch"
    BY <1>1, <1>3 DEF LoopAccept, LoopResume, LoopRegister, LoopExit, AtLoop, LoopAt,
       LoopDone, Idle, LoopInv
  <2>3. ASSUME NEW d \in Conn PROVE RequestInv(d)' /\ (Admits(d)' <=> Admits(d))
    <3>1. Held(d)' <=> Held(d)
      BY <2>1, <2>2 DEF Held
    <3> QED BY <1>1, <1>2, <2>1, <3>1, SameRequest
  <2>4. OpenBook' /\ SealedBooks' /\ BridgeBook'
    BY <1>2, <2>1, <2>3, StillBooks
  <2> QED BY <1>1, <2>1, <2>3, <2>4 DEF CallsAdd
<1>4. CASE LoopProbe \/ LoopAdmit \/ LoopDispatch
  <2>1. loop.pc \in {"probe", "admit", "dispatch"}
    BY <1>4 DEF LoopProbe, LoopAdmit, LoopDispatch, AtLoop
  <2>2. PICK c \in Conn : c = loop.item
    BY <1>1, <2>1 DEF LoopInv
  <2>3. \A d \in Conn \ {c} :
           conn'[d] = conn[d] /\ verdict'[d] = verdict[d] /\ home'[d] = home[d]
    BY <2>2, LoopVerdicts
  <2>4. loop'.pc = "dispatch" => loop'.item = c
    <3>1. CASE LoopAdmit
      BY <2>2, <3>1, AdmitLeaves, AdmitAnswers DEF Answered, Idle
    <3>2. CASE LoopProbe \/ LoopDispatch
      BY <1>1, <3>2 DEF LoopProbe, LoopDispatch, LoopAt, LoopDone, Idle, LoopInv
    <3> QED BY <1>4, <3>1, <3>2
  <2>5. ASSUME NEW d \in Conn \ {c} PROVE RequestInv(d)' /\ (Admits(d)' <=> Admits(d))
    <3>1. Held(d)' <=> Held(d)
      BY <2>2, <2>4 DEF Held
    <3> QED BY <1>1, <1>2, <2>3, <3>1, SameRequest
  <2>6. UNCHANGED <<conn, verdict, home>> => LoopAdmit
    <3>1. conn[c] = "queued"
      BY <1>1, <2>1, <2>2 DEF LoopInv
    <3>2. CASE LoopProbe
      <4>1. conn'[c] = "closed"
        BY <2>2, <3>2 DEF LoopProbe, BridgeInv, Shapes
      <4> QED BY <3>1, <4>1
    <3>3. CASE LoopDispatch
      <4>1. conn'[c] # "queued"
        BY <2>2, <3>3, DispatchCharged
      <4> QED BY <3>1, <4>1
    <3> QED BY <1>4, <3>2, <3>3
  <2>7. RequestInv(c)' /\ (LoopAdmit \/ (Admits(c)' <=> Admits(c)))
    <3>1. CASE ~(UNCHANGED <<conn, verdict, home>>)
      BY <2>2, <3>1, LoopRequest
    <3>2. CASE UNCHANGED <<conn, verdict, home>>
      <4>1. LoopAdmit /\ home'[c] = home[c] /\ loop.pc = "admit"
        BY <2>6, <3>2 DEF LoopAdmit, AtLoop
      <4>2. home[c] = 0 /\ conn[c] = "queued" /\ verdict[c] = "none" /\ batch[c] = NoCalls
        BY <2>2, <4>1, NewComer
      <4>3. TakenOn
        <5>1. ASSUME NEW why \in {"stale", "dropped"}, Answered(why) PROVE FALSE
          <6>1. conn'[c] = "closed"
            BY <2>2, <5>1 DEF Answered, BridgeInv, Shapes
          <6> QED BY <3>2, <4>2, <6>1
        <5> QED BY <4>1, <5>1, AdmitAnswers
      <4>4. home' = [home EXCEPT ![c] = scope] /\ home'[c] = scope
        BY <2>2, <4>3 DEF TakenOn, BridgeInv, Shapes
      <4>5. scope = 0 /\ NoCalls.origin = 0
        BY <4>1, <4>2, <4>4 DEF NoCalls
      <4> QED BY <1>2, <3>2, <4>1, <4>2, <4>5 DEF RequestInv
    <3> QED BY <3>1, <3>2
  <2>8. \A d \in Conn : RequestInv(d)'
    BY <2>5, <2>7
  <2>9. OpenBook' /\ SealedBooks' /\ BridgeBook' /\ CallsAdd'
    <3>1. CASE LoopAdmit
      BY <3>1, AdmitBooks, AdmitCalls DEF CallsAdd
    <3>2. CASE LoopProbe
      <4>1. UNCHANGED <<verdict, home, ctr, acc>> /\ loop.pc = "probe"
        BY <3>2 DEF LoopProbe, history, counting, AtLoop
      <4>2. \A d \in Conn : Admits(d)' <=> Admits(d)
        BY <2>5, <2>7, <4>1 DEF LoopAdmit, AtLoop
      <4> QED BY <1>1, <1>2, <4>1, <4>2, StillBooks DEF CallsAdd
    <3>3. CASE LoopDispatch
      <4>1. /\ loop.pc = "dispatch" /\ verdict[c] = "none" /\ Charged(c) /\ home' = home
            /\ verdict'[c] \in {"none", "unserved", "limit"} /\ CallsAdd'
        BY <2>2, <3>3, DispatchCharged DEF CallsAdd
      <4>2. \A d \in Conn : Admits(d)' <=> Admits(d)
        BY <2>5, <2>7, <4>1 DEF LoopAdmit, AtLoop
      <4>3. AtWork(c) /\ c \in Counted
        BY <2>2, <4>1 DEF AtWork, Counted, Admits
      <4>4. \A d \in Conn : d \in Counted' <=> d \in Counted
        BY <2>3, <4>1, <4>2 DEF Counted
      <4>5. \A d \in Conn \ {c} : batch'[d] = batch[d] /\ verdict'[d] = verdict[d]
        BY <1>2, <2>3
      <4>6. OpenBook' /\ SealedBooks' /\ BridgeBook'
        BY <1>2, <4>1, <4>3, <4>4, <4>5, ServiceBooks
      <4> QED BY <4>1, <4>6
    <3> QED BY <1>4, <3>1, <3>2, <3>3
  <2> QED BY <2>8, <2>9
<1> QED BY <1>3, <1>4 DEF Loop

(* The books after a step of any other thread.                             *)
LEMMA QuietBooks ==
    ASSUME BridgeInv, BookInv, [Next]_vars, ~Loop, \A c \in Conn : ~Handler(c)
    PROVE  /\ \A d \in Conn : RequestInv(d)'
           /\ OpenBook' /\ SealedBooks' /\ BridgeBook' /\ CallsAdd'
<1>1. /\ UNCHANGED <<batch, verdict, home, loop, ctr>> /\ (~SealBoundary => acc' = acc)
      /\ \A c \in Conn : conn'[c] = conn[c] \/ (conn[c] = "none" /\ conn'[c] = "queued")
  BY QuietCounters
<1>2. CallsAdd'
  BY <1>1 DEF BookInv, CallsAdd
<1>3. ASSUME NEW c \in Conn
      PROVE  /\ Admits(c)' <=> Admits(c)
             /\ AtWork(c)' <=> AtWork(c)
             /\ conn'[c] = conn[c] \/ (~Admits(c) /\ ~AtWork(c) /\ conn'[c] = "queued")
  <2>1. CASE conn'[c] = conn[c]
    BY <1>1, <2>1 DEF Admits, AtWork
  <2>2. CASE conn[c] = "none" /\ conn'[c] = "queued"
    <3>1. verdict[c] = "none" /\ ~(loop.pc = "dispatch" /\ loop.item = c)
      BY <2>2 DEF BridgeInv, VerdictInv, LoopInv
    <3>2. ~Admits(c) /\ ~AtWork(c) /\ ~Admits(c)' /\ ~AtWork(c)'
      BY <1>1, <2>2, <3>1 DEF Admits, AtWork, Handling, Fate, RejectionKind
    <3> QED BY <2>2, <3>2
  <2> QED BY <1>1, <2>1, <2>2
<1>4. CASE SealBoundary
  <2>1. OpenBook' /\ SealedBooks' /\ BridgeBook'
    BY <1>4, SealBooks
  <2>2. ASSUME NEW c \in Conn PROVE RequestInv(c)'
    <3>1. RequestInv(c) /\ ~AtWork(c) /\ ~AtWork(c)' /\ conn' = conn
      BY <1>3, <1>4, SealIdle, SealScopes DEF BookInv
    <3> QED BY <1>1, <1>3, <3>1 DEF RequestInv
  <2> QED BY <1>2, <2>1, <2>2
<1>5. CASE ~SealBoundary
  <2>1. sealed' = sealed /\ (scope' = scope \/ (scope' = 0 /\ closed'))
        /\ (closed' \/ (closed' = closed /\ scope' = scope))
    BY <1>5, QuietBridge DEF Stop
  <2>2. ASSUME NEW c \in Conn PROVE RequestInv(c)'
    <3>1. RequestInv(c)
      BY DEF BookInv
    <3>2. NoCalls.origin = 0
      BY DEF NoCalls
    <3>3. CASE closed'
      BY <1>1, <1>3, <2>1, <3>1, <3>2, <3>3 DEF RequestInv
    <3>4. CASE ~closed'
      BY <1>1, <1>3, <2>1, <3>1, <3>2, <3>4 DEF RequestInv
    <3> QED BY <3>3, <3>4
  <2>3. OpenBook' /\ SealedBooks' /\ BridgeBook'
    <3>1. OpenBook'
      BY <1>1, <1>5, <2>1 DEF BookInv, OpenBook
    <3>2. SealedBooks'
      BY <1>1, <2>1 DEF BookInv, SealedBooks
    <3>3. Billed' = Billed /\ Counted' = Counted
      BY <1>1, <1>3 DEF Billed, Counted
    <3>4. BridgeBook'
      BY <1>1, <3>3 DEF BookInv, BridgeBook
    <3> QED BY <3>1, <3>2, <3>4
  <2> QED BY <1>2, <2>2, <2>3
<1> QED BY <1>4, <1>5

(* The books of the bridge are exact in every reachable state.             *)
THEOREM BridgeBooks == Spec => []BookInv
<1>1. Init => BookInv
  BY BookInit
<1>2. BridgeInv /\ BridgeInv' /\ BookInv /\ [Next]_vars => BookInv'
  <2> SUFFICES ASSUME BridgeInv, BridgeInv', BookInv, [Next]_vars PROVE BookInv'
    OBVIOUS
  <2>1. Shapes' /\ CounterInv'
    BY DEF BridgeInv
  <2>2. /\ \A d \in Conn : RequestInv(d)'
        /\ OpenBook' /\ SealedBooks' /\ BridgeBook' /\ CallsAdd'
    BY <2>1, HandlerBooks, LoopBooks, QuietBooks
  <2>3. ScopesInv'
    BY ScopesStep
  <2> QED BY <2>2, <2>3 DEF BookInv, CallsAdd
<1> QED BY <1>1, <1>2, BridgeInvariant, PTL DEF Spec

-----------------------------------------------------------------------------
(* What exact books mean for the snapshots.                                *)

(* The sums of a book are the fields of the tally.                         *)
LEMMA TallyFields ==
    ASSUME Shapes, NEW cs \in SUBSET Conn
    PROVE  /\ Sum(Part(batch, verdict, cs, "http")) = Tally(cs).http
           /\ Sum(Part(batch, verdict, cs, "permitted")) = Tally(cs).permitted
           /\ Sum(Part(batch, verdict, cs, "attempted")) = Tally(cs).attempted
           /\ Sum(Part(batch, verdict, cs, "validated")) = Tally(cs).validated
           /\ Sum(Part(batch, verdict, cs, "synthetic")) = Tally(cs).synthetic
           /\ \A k \in RejectionKind :
                 Sum(Part(batch, verdict, cs, k)) = Tally(cs).rejected[k]
<1>1. batch \in [Conn -> Calls] /\ verdict \in [Conn -> Judgement]
  BY BookTypes
<1>2. \A c \in Conn : batch[c].origin \in Nat /\ batch[c].synthetic \in Nat
  BY <1>1 DEF Calls
<1>3. \A x \in Item : Part(batch, verdict, cs, x) \in [Conn -> Nat]
  BY <1>1, PartType
<1>4. Sum(Part(batch, verdict, cs, "http")) = Tally(cs).http
  <2>1. PICK f \in [Conn -> Nat] : f = Part(batch, verdict, cs, "http")
    BY <1>3 DEF Item
  <2>2. \A c \in Conn : f[c] = IF c \in cs THEN 1 ELSE 0
    BY <2>1 DEF Part, Share
  <2>3. Sum(f) = Cardinality(cs)
    BY <2>2, SumOnes
  <2> QED BY <2>1, <2>3 DEF Tally
<1>5. Sum(Part(batch, verdict, cs, "permitted")) = Tally(cs).permitted
  <2>1. PICK f \in [Conn -> Nat] : f = Part(batch, verdict, cs, "permitted")
    BY <1>3 DEF Item
  <2>2. PICK g \in [cs -> Nat] : g = [c \in cs |-> batch[c].origin + batch[c].synthetic]
    <3>1. \A c \in cs : batch[c].origin + batch[c].synthetic \in Nat
      BY <1>2
    <3> QED BY <3>1
  <2>3. \A c \in Conn : f[c] = IF c \in cs THEN g[c] ELSE 0
    BY <2>1, <2>2 DEF Part, Share
  <2>4. Sum(g) = Sum(f)
    BY <2>3, SumPart
  <2> QED BY <2>1, <2>2, <2>4 DEF Tally
<1>6. Sum(Part(batch, verdict, cs, "attempted")) = Tally(cs).attempted
  <2>1. PICK f \in [Conn -> Nat] : f = Part(batch, verdict, cs, "attempted")
    BY <1>3 DEF Item
  <2>2. PICK g \in [cs -> Nat] : g = [c \in cs |-> batch[c].origin]
    BY <1>2
  <2>3. \A c \in Conn : f[c] = IF c \in cs THEN g[c] ELSE 0
    BY <2>1, <2>2 DEF Part, Share
  <2>4. Sum(g) = Sum(f)
    BY <2>3, SumPart
  <2> QED BY <2>1, <2>2, <2>4 DEF Tally
<1>7. Sum(Part(batch, verdict, cs, "validated")) = Tally(cs).validated
  <2>1. PICK f \in [Conn -> Nat] : f = Part(batch, verdict, cs, "validated")
    BY <1>3 DEF Item
  <2>2. PICK S \in SUBSET Conn : S = {d \in cs : verdict[d] = "answered"}
    OBVIOUS
  <2>3. PICK g \in [S -> Nat] : g = [c \in S |-> batch[c].origin]
    BY <1>2
  <2>4. \A c \in Conn : f[c] = IF c \in S THEN g[c] ELSE 0
    BY <2>1, <2>2, <2>3 DEF Part, Share
  <2>5. Sum(g) = Sum(f)
    BY <2>4, SumPart
  <2>6. Tally(cs).validated = Sum(g)
    BY <2>2, <2>3 DEF Tally
  <2> QED BY <2>1, <2>5, <2>6
<1>8. Sum(Part(batch, verdict, cs, "synthetic")) = Tally(cs).synthetic
  <2>1. PICK f \in [Conn -> Nat] : f = Part(batch, verdict, cs, "synthetic")
    BY <1>3 DEF Item
  <2>2. PICK g \in [cs -> Nat] : g = [c \in cs |-> batch[c].synthetic]
    BY <1>2
  <2>3. \A c \in Conn : f[c] = IF c \in cs THEN g[c] ELSE 0
    BY <2>1, <2>2 DEF Part, Share
  <2>4. Sum(g) = Sum(f)
    BY <2>3, SumPart
  <2> QED BY <2>1, <2>2, <2>4 DEF Tally
<1>9. ASSUME NEW k \in RejectionKind
      PROVE  Sum(Part(batch, verdict, cs, k)) = Tally(cs).rejected[k]
  <2>1. PICK f \in [Conn -> Nat] : f = Part(batch, verdict, cs, k)
    BY <1>3 DEF Item
  <2>2. PICK S \in SUBSET Conn : S = {c \in cs : verdict[c] = k}
    OBVIOUS
  <2>3. \A c \in Conn : f[c] = IF c \in S THEN 1 ELSE 0
    BY <2>1, <2>2 DEF Part, Share, RejectionKind
  <2>4. Sum(f) = Cardinality(S)
    BY <2>3, SumOnes
  <2>5. Tally(cs).rejected[k] = Cardinality(S)
    BY <2>2 DEF Tally
  <2> QED BY <2>1, <2>4, <2>5
<1> QED BY <1>4, <1>5, <1>6, <1>7, <1>8, <1>9

(* Counters that add up to a set of requests are its tally.                *)
LEMMA TallyReads ==
    ASSUME Shapes, NEW cs \in SUBSET Conn, NEW n \in Counters, Adds(n, batch, verdict, cs)
    PROVE  n = Tally(cs)
<1>1. /\ n.http = Tally(cs).http /\ n.permitted = Tally(cs).permitted
      /\ n.attempted = Tally(cs).attempted /\ n.validated = Tally(cs).validated
      /\ n.synthetic = Tally(cs).synthetic
  <2>1. /\ Reading(n, "http") = n.http /\ Reading(n, "permitted") = n.permitted
        /\ Reading(n, "attempted") = n.attempted /\ Reading(n, "validated") = n.validated
        /\ Reading(n, "synthetic") = n.synthetic
    BY DEF Reading
  <2> QED BY <2>1, TallyFields DEF Adds, Item
<1>2. \A k \in RejectionKind : n.rejected[k] = Tally(cs).rejected[k]
  <2>1. \A k \in RejectionKind : Reading(n, k) = n.rejected[k] /\ k \in Item
    BY DEF Reading, Item, RejectionKind
  <2> QED BY <2>1, TallyFields DEF Adds
<1>3. n.rejected = Tally(cs).rejected
  <2>1. n.rejected = [k \in RejectionKind |-> n.rejected[k]]
    BY DEF Counters
  <2>2. Tally(cs).rejected = [k \in RejectionKind |-> Tally(cs).rejected[k]]
    BY DEF Tally
  <2> QED BY <1>2, <2>1, <2>2
<1>4. n = [http |-> n.http, permitted |-> n.permitted, attempted |-> n.attempted,
           validated |-> n.validated, synthetic |-> n.synthetic, rejected |-> n.rejected]
  BY DEF Counters
<1>5. Tally(cs) = [http |-> Tally(cs).http, permitted |-> Tally(cs).permitted,
                   attempted |-> Tally(cs).attempted, validated |-> Tally(cs).validated,
                   synthetic |-> Tally(cs).synthetic, rejected |-> Tally(cs).rejected]
  BY DEF Tally
<1> QED BY <1>1, <1>3, <1>4, <1>5

(* A sealed scope accounts exactly for the requests admitted to it, and    *)
(* all of them have been judged.                                           *)
THEOREM BridgeScopeExact == Spec => []ScopeExact
<1>1. BridgeInv /\ BookInv => ScopeExact
  <2> SUFFICES ASSUME BridgeInv, BookInv PROVE ScopeExact
    OBVIOUS
  <2>1. Shapes /\ Len(sealed) \in Nat
        /\ sealed \in Seq([test : 1 .. NTests, count : Counters,
                           status : {"validated", "not_observed", "violation"}])
    BY BookTypes DEF BridgeInv
  <2>2. ASSUME NEW i \in 1 .. Len(sealed)
        PROVE  /\ sealed[i].count = Tally({c \in Conn : home[c] = sealed[i].test})
               /\ \A c \in Conn : home[c] = sealed[i].test => verdict[c] # "none"
    <3>1. sealed[i].test = i /\ sealed[i].count \in Counters
      <4>1. sealed[i] \in [test : 1 .. NTests, count : Counters,
                           status : {"validated", "not_observed", "violation"}]
        <5>1. PICK T : T = [test : 1 .. NTests, count : Counters,
                            status : {"validated", "not_observed", "violation"}]
          OBVIOUS
        <5>2. sealed \in Seq(T)
          BY <2>1, <5>1
        <5>3. sealed[i] \in T
          BY <5>2
        <5> QED BY <5>1, <5>3
      <4>2. sealed[i].count \in Counters
        BY <4>1
      <4> QED BY <4>2 DEF BookInv, ScopesInv
    <3>2. PICK cs \in SUBSET Conn : cs = {c \in Conn : home[c] = i}
      OBVIOUS
    <3>3. Adds(sealed[i].count, batch, verdict, cs)
      BY <3>2 DEF BookInv, SealedBooks, Home
    <3>4. sealed[i].count = Tally(cs)
      BY <2>1, <3>1, <3>3, TallyReads
    <3>5. ASSUME NEW c \in Conn, home[c] = i PROVE verdict[c] # "none"
      <4>1. Admits(c) /\ ~AtWork(c) /\ VerdictInv(c)
        BY <2>1, <3>5 DEF BookInv, RequestInv, BridgeInv
      <4> QED BY <4>1 DEF Admits, AtWork, VerdictInv, Fate, RejectionKind
    <3> QED BY <3>1, <3>2, <3>4, <3>5
  <2>3. DOMAIN sealed = 1 .. Len(sealed)
    BY <2>1
  <2> QED BY <2>2, <2>3, Zenon DEF ScopeExact
<1> QED BY <1>1, BridgeInvariant, BridgeBooks, PTL

(* A refused connection has no calls, so it adds to no other counter than  *)
(* those of requests and of limits.                                        *)
LEMMA RefusedShares ==
    ASSUME BridgeInv, BookInv, NEW x \in Item \ {"http", "limit"}
    PROVE  Part(batch, Billed, Counted, x) = Part(batch, verdict, Admitted, x)
<1>1. \A c \in Conn : c \in Admitted <=> Admits(c)
  BY Members
<1>2. ASSUME NEW c \in Conn, verdict[c] = "stale"
      PROVE  ~Admits(c) /\ Share(batch[c], "limit", x) = 0
  <2>1. VerdictInv(c) /\ LoopInv /\ RequestInv(c)
    BY DEF BridgeInv, BookInv
  <2>2. conn[c] \notin Handling \cup {"released", "queued"}
    BY <1>2, <2>1 DEF VerdictInv, Handling, Fate, RejectionKind
  <2>3. ~Admits(c)
    BY <1>2, <2>1, <2>2 DEF Admits, LoopInv, Fate, RejectionKind
  <2>4. batch[c] = NoCalls
    BY <2>1, <2>3 DEF RequestInv
  <2> QED BY <2>3, <2>4 DEF Share, NoCalls, Item, RejectionKind
<1>3. ASSUME NEW c \in Conn
      PROVE  (IF c \in Counted THEN Share(batch[c], Billed[c], x) ELSE 0) =
             (IF c \in Admitted THEN Share(batch[c], verdict[c], x) ELSE 0)
  <2>1. CASE verdict[c] = "stale"
    <3>1. c \in Counted /\ c \notin Admitted /\ Billed[c] = "limit"
      BY <1>1, <1>2, <2>1 DEF Counted, Billed
    <3> QED BY <1>2, <2>1, <3>1
  <2>2. CASE verdict[c] # "stale"
    <3>1. (c \in Counted <=> c \in Admitted) /\ Billed[c] = verdict[c]
      BY <1>1, <2>2 DEF Counted, Billed
    <3> QED BY <3>1
  <2> QED BY <2>1, <2>2
<1> QED BY <1>3 DEF Part

(* Counters, and their two fields a refusal changes blanked out.           *)
Numbers(h, p, a, v, s, r) ==
    [http |-> h, permitted |-> p, attempted |-> a, validated |-> v,
     synthetic |-> s, rejected |-> r]
Blank(n) == [n EXCEPT !.http = 0, !.rejected["limit"] = 0]

(* Blanking field by field.                                                *)
LEMMA Blanked ==
    ASSUME NEW h, NEW p, NEW a, NEW v, NEW s, NEW r
    PROVE  Blank(Numbers(h, p, a, v, s, r)) =
              Numbers(0, p, a, v, s, [r EXCEPT !["limit"] = 0])
<1>0. PICK n : n = Numbers(h, p, a, v, s, r)
  OBVIOUS
<1>1. PICK m : m = [http |-> 0, permitted |-> p, attempted |-> a, validated |-> v,
                    synthetic |-> s, rejected |-> r]
  OBVIOUS
<1>2. [n EXCEPT !.http = 0] = m
  BY <1>0, <1>1 DEF Numbers
<1>3. [n EXCEPT !.http = 0, !.rejected["limit"] = 0] = [m EXCEPT !.rejected["limit"] = 0]
  <2>1. [n EXCEPT !.http = 0, !.rejected["limit"] = 0] =
           [[n EXCEPT !.http = 0] EXCEPT !.rejected["limit"] = 0]
    OBVIOUS
  <2> QED BY <1>2, <2>1
<1>4. [m EXCEPT !.rejected["limit"] = 0] =
         [http |-> 0, permitted |-> p, attempted |-> a, validated |-> v,
          synthetic |-> s, rejected |-> [r EXCEPT !["limit"] = 0]]
  BY <1>1
<1> QED BY <1>0, <1>3, <1>4 DEF Numbers, Blank

(* The bridge's counters are the tally of the admitted requests, but for   *)
(* the two a refused connection changes.                                   *)
LEMMA BridgeTally ==
    ASSUME BridgeInv, BookInv
    PROVE  [ctr EXCEPT !.http = 0, !.rejected["limit"] = 0] =
              [Tally(Admitted) EXCEPT !.http = 0, !.rejected["limit"] = 0]
<1>1. Shapes /\ ctr \in Counters /\ Admitted \in SUBSET Conn
  BY DEF BridgeInv, CounterInv, Admitted
<1>2. PICK t : t = Tally(Admitted)
  OBVIOUS
<1>3. ASSUME NEW x \in Item \ {"http", "limit"}
      PROVE  Reading(ctr, x) = Sum(Part(batch, verdict, Admitted, x))
  BY RefusedShares DEF BookInv, BridgeBook, Adds
<1>4. /\ ctr.permitted = t.permitted /\ ctr.attempted = t.attempted
      /\ ctr.validated = t.validated /\ ctr.synthetic = t.synthetic
  <2>1. /\ Reading(ctr, "permitted") = ctr.permitted /\ Reading(ctr, "attempted") = ctr.attempted
        /\ Reading(ctr, "validated") = ctr.validated /\ Reading(ctr, "synthetic") = ctr.synthetic
    BY DEF Reading
  <2>2. {"permitted", "attempted", "validated", "synthetic"} \subseteq Item \ {"http", "limit"}
    BY DEF Item
  <2> QED BY <1>1, <1>2, <1>3, <2>1, <2>2, TallyFields
<1>5. ASSUME NEW k \in RejectionKind \ {"limit"} PROVE ctr.rejected[k] = t.rejected[k]
  <2>1. Reading(ctr, k) = ctr.rejected[k] /\ k \in Item \ {"http", "limit"}
    BY DEF Reading, Item, RejectionKind
  <2> QED BY <1>1, <1>2, <1>3, <2>1, TallyFields
<1>6. PICK r : r = [ctr.rejected EXCEPT !["limit"] = 0]
  OBVIOUS
<1>7. r = [t.rejected EXCEPT !["limit"] = 0]
  <2>1. ctr.rejected = [k \in RejectionKind |-> ctr.rejected[k]]
    BY <1>1 DEF Counters
  <2>2. t.rejected = [k \in RejectionKind |-> t.rejected[k]]
    BY <1>2 DEF Tally
  <2> QED BY <1>5, <1>6, <2>1, <2>2
<1>8. ctr = Numbers(ctr.http, ctr.permitted, ctr.attempted, ctr.validated,
                    ctr.synthetic, ctr.rejected)
  BY <1>1 DEF Counters, Numbers
<1>9. t = Numbers(t.http, t.permitted, t.attempted, t.validated, t.synthetic, t.rejected)
  BY <1>2 DEF Tally, Numbers
<1>10. Blank(ctr) = Numbers(0, ctr.permitted, ctr.attempted, ctr.validated, ctr.synthetic,
                            [ctr.rejected EXCEPT !["limit"] = 0])
  BY <1>8, Blanked
<1>11. Blank(t) = Numbers(0, t.permitted, t.attempted, t.validated, t.synthetic,
                          [t.rejected EXCEPT !["limit"] = 0])
  BY <1>9, Blanked
<1>12. Blank(ctr) = Blank(t)
  BY <1>4, <1>6, <1>7, <1>10, <1>11
<1> QED BY <1>2, <1>12 DEF Blank

(* No more requests are turned away than were made.                        *)
LEMMA ViolationsBelow ==
    ASSUME BridgeInv, BookInv
    PROVE  Violations(ctr) <= ctr.http
<1>1. batch \in [Conn -> Calls] /\ Billed \in [Conn -> Judgement] /\ Counted \in SUBSET Conn
      /\ Shapes /\ ctr \in Counters
  BY BookTypes DEF BridgeInv, CounterInv
<1> DEFINE S(k) == {c \in Counted : Billed[c] = k}
<1>2. ASSUME NEW k \in RejectionKind
      PROVE  ctr.rejected[k] = Cardinality(S(k)) /\ IsFiniteSet(S(k))
             /\ Cardinality(S(k)) \in Nat
  <2>1. k \in Item /\ Reading(ctr, k) = ctr.rejected[k]
    BY DEF Item, Reading, RejectionKind
  <2>2. PICK f \in [Conn -> Nat] : f = Part(batch, Billed, Counted, k)
    BY <1>1, <2>1, PartType
  <2>3. PICK T \in SUBSET Conn : T = S(k)
    BY <1>1
  <2>4. \A c \in Conn : f[c] = IF c \in T THEN 1 ELSE 0
    BY <2>2, <2>3 DEF Part, Share, RejectionKind
  <2>5. Sum(f) = Cardinality(T)
    BY <2>4, SumOnes
  <2>6. Reading(ctr, k) = Sum(f)
    BY <2>1, <2>2 DEF BookInv, BridgeBook, Adds
  <2>7. IsFiniteSet(T) /\ Cardinality(T) \in Nat
    BY ConnCardinality
  <2> QED BY <2>1, <2>3, <2>5, <2>6, <2>7
<1>3. ctr.http = Cardinality(Counted) /\ IsFiniteSet(Counted)
  <2>1. "http" \in Item /\ Reading(ctr, "http") = ctr.http
    BY DEF Item, Reading
  <2>2. PICK f \in [Conn -> Nat] : f = Part(batch, Billed, Counted, "http")
    BY <1>1, <2>1, PartType
  <2>3. \A c \in Conn : f[c] = IF c \in Counted THEN 1 ELSE 0
    BY <2>2 DEF Part, Share
  <2>4. Sum(f) = Cardinality(Counted)
    BY <1>1, <2>3, SumOnes
  <2> QED BY <1>1, <2>1, <2>2, <2>4, ConnCardinality DEF BookInv, BridgeBook, Adds
<1>4. "denied" \in RejectionKind /\ "malformed" \in RejectionKind /\ "limit" \in RejectionKind
      /\ "upstream" \in RejectionKind
  BY DEF RejectionKind
<1>5. PICK A \in SUBSET Conn, B \in SUBSET Conn, C \in SUBSET Conn, D \in SUBSET Conn :
         A = S("denied") /\ B = S("malformed") /\ C = S("limit") /\ D = S("upstream")
  BY <1>1
<1>6. A \cap B = {} /\ (A \cup B) \cap C = {} /\ (A \cup B \cup C) \cap D = {}
      /\ (A \cup B \cup C) \cup D \subseteq Counted
  BY <1>5
<1>7. /\ ctr.rejected["denied"] = Cardinality(A) /\ ctr.rejected["malformed"] = Cardinality(B)
      /\ ctr.rejected["limit"] = Cardinality(C) /\ ctr.rejected["upstream"] = Cardinality(D)
  BY <1>2, <1>4, <1>5
<1> HIDE DEF S
<1>8. ASSUME NEW X \in SUBSET Conn, NEW Y \in SUBSET Conn, X \cap Y = {}
      PROVE  Cardinality(X \cup Y) = Cardinality(X) + Cardinality(Y)
  <2>1. IsFiniteSet(X) /\ IsFiniteSet(Y) /\ Cardinality(X) \in Nat /\ Cardinality(Y) \in Nat
    BY ConnCardinality
  <2>2. Cardinality(X \cup Y) = Cardinality(X) + Cardinality(Y) - Cardinality(X \cap Y)
    BY <2>1, FS_Union
  <2>3. Cardinality(X \cap Y) = 0
    BY <1>8, FS_EmptySet
  <2> QED BY <2>1, <2>2, <2>3
<1>9. Cardinality(A \cup B) = Cardinality(A) + Cardinality(B)
  BY <1>6, <1>8
<1>10. Cardinality((A \cup B) \cup C) = Cardinality(A \cup B) + Cardinality(C)
  <2>1. PICK X \in SUBSET Conn : X = A \cup B
    OBVIOUS
  <2> QED BY <1>6, <1>8, <2>1
<1>11. Cardinality((A \cup B \cup C) \cup D) = Cardinality(A \cup B \cup C) + Cardinality(D)
  <2>1. PICK X \in SUBSET Conn : X = A \cup B \cup C
    OBVIOUS
  <2> QED BY <1>6, <1>8, <2>1
<1>12. Cardinality((A \cup B \cup C) \cup D) <= Cardinality(Counted)
  BY <1>3, <1>6, FS_Subset
<1>13. Cardinality(A) \in Nat /\ Cardinality(B) \in Nat /\ Cardinality(C) \in Nat
       /\ Cardinality(D) \in Nat /\ Cardinality(Counted) \in Nat
  BY <1>1, ConnCardinality
<1>14. Violations(ctr) = Cardinality((A \cup B \cup C) \cup D)
  BY <1>7, <1>9, <1>10, <1>11, <1>13 DEF Violations
<1> QED BY <1>3, <1>12, <1>14

(* After a clean stop every call to the origin was answered or is recorded *)
(* as an upstream error, so the answers fall short exactly when an error   *)
(* was recorded.                                                           *)
LEMMA AnswersShort ==
    ASSUME BridgeInv, BookInv, driver = "stopped",
           \A c \in Conn : verdict[c] = "upstream" => batch[c] # NoCalls
    PROVE  /\ ctr.validated <= ctr.attempted
           /\ (ctr.validated = ctr.attempted) <=> (ctr.rejected["upstream"] = 0)
<1>1. batch \in [Conn -> Calls] /\ Billed \in [Conn -> Judgement] /\ Counted \in SUBSET Conn
      /\ Shapes /\ ctr \in Counters
  BY BookTypes DEF BridgeInv, CounterInv
<1>2. \A c \in Conn : batch[c].origin \in Nat
  BY <1>1 DEF Calls
<1>3. PICK f \in [Conn -> Nat] : f = Part(batch, Billed, Counted, "validated")
  BY <1>1, PartType DEF Item
<1>4. PICK g \in [Conn -> Nat] : g = Part(batch, Billed, Counted, "attempted")
  BY <1>1, PartType DEF Item
<1>5. PICK e \in [Conn -> Nat] : e = Part(batch, Billed, Counted, "upstream")
  BY <1>1, PartType DEF Item, RejectionKind
<1>6. ctr.validated = Sum(f) /\ ctr.attempted = Sum(g) /\ ctr.rejected["upstream"] = Sum(e)
  <2>1. /\ Reading(ctr, "validated") = ctr.validated /\ Reading(ctr, "attempted") = ctr.attempted
        /\ Reading(ctr, "upstream") = ctr.rejected["upstream"]
    BY DEF Reading
  <2>2. "validated" \in Item /\ "attempted" \in Item /\ "upstream" \in Item
    BY DEF Item, RejectionKind
  <2> QED BY <1>3, <1>4, <1>5, <2>1, <2>2 DEF BookInv, BridgeBook, Adds
<1>7. ASSUME NEW c \in Conn
      PROVE  /\ f[c] = IF c \in Counted /\ Billed[c] = "answered" THEN batch[c].origin ELSE 0
             /\ g[c] = IF c \in Counted THEN batch[c].origin ELSE 0
             /\ e[c] = IF c \in Counted /\ Billed[c] = "upstream" THEN 1 ELSE 0
  BY <1>3, <1>4, <1>5 DEF Part, Share
<1>8. \A c \in Conn : f[c] <= g[c]
  BY <1>2, <1>7
<1>9. /\ Sum(f) <= Sum(g) /\ ((\E c \in Conn : f[c] < g[c]) => Sum(f) < Sum(g))
      /\ Sum(f) \in Nat /\ Sum(g) \in Nat /\ Sum(e) \in Nat
  BY <1>8, SumBelow, SumType
<1>10. ASSUME NEW c \in Conn, verdict[c] = "upstream"
       PROVE  c \in Counted /\ Billed[c] = "upstream" /\ batch[c].origin > 0
  <2>1. c \in Counted /\ Billed[c] = "upstream"
    BY <1>10 DEF Counted, Admits, Billed, Fate, RejectionKind
  <2>2. batch[c].origin > 0
    BY <1>10 DEF BookInv, RequestInv
  <2> QED BY <2>1, <2>2
<1>11. ASSUME \E c \in Conn : verdict[c] = "upstream"
       PROVE  Sum(f) # Sum(g) /\ Sum(e) # 0
  <2>1. PICK c \in Conn : verdict[c] = "upstream"
    BY <1>11
  <2>2. f[c] = 0 /\ g[c] > 0 /\ e[c] = 1
    BY <1>7, <1>10, <2>1
  <2>3. Sum(f) # Sum(g)
    BY <1>9, <2>2
  <2>4. PICK z \in [Conn -> Nat] : z = [d \in Conn |-> 0]
    OBVIOUS
  <2>5. (\A d \in Conn : z[d] <= e[d]) /\ z[c] < e[c]
    BY <2>2, <2>4
  <2>6. Sum(z) < Sum(e) /\ Sum(z) \in Nat
    BY <2>5, SumBelow, SumType
  <2> QED BY <1>9, <2>3, <2>6
<1>12. ASSUME \A c \in Conn : verdict[c] # "upstream"
       PROVE  Sum(f) = Sum(g) /\ Sum(e) = 0
  <2>1. ASSUME NEW c \in Conn PROVE f[c] = g[c] /\ e[c] = 0
    <3>1. conn[c] \notin {"permitted", "forward"}
      BY DEF BridgeInv, StopInv, Handling
    <3>2. batch[c].origin > 0 => verdict[c] = "answered"
      BY <1>12, <3>1 DEF BookInv, RequestInv
    <3>3. Billed[c] # "upstream" /\ (verdict[c] = "answered" => Billed[c] = "answered")
      BY <1>12 DEF Billed
    <3> QED BY <1>2, <1>7, <3>2, <3>3
  <2>2. f = g
    BY <2>1
  <2>3. PICK S \in SUBSET Conn : S = {}
    OBVIOUS
  <2>4. \A c \in Conn : e[c] = IF c \in S THEN 1 ELSE 0
    BY <2>1, <2>3
  <2>5. Sum(e) = Cardinality(S)
    BY <2>4, SumOnes
  <2> QED BY <2>2, <2>3, <2>5, FS_EmptySet
<1>13. CASE \E c \in Conn : verdict[c] = "upstream"
  BY <1>6, <1>9, <1>11, <1>13
<1>14. CASE \A c \in Conn : verdict[c] # "upstream"
  BY <1>6, <1>9, <1>12, <1>14
<1> QED BY <1>13, <1>14

(* After a clean stop the bridge's counters are those of the requests' own *)
(* fates, every scope was sealed, nobody is at work, and the final         *)
(* snapshot exists unless a request failed as an upstream one without a    *)
(* call.                                                                   *)
THEOREM BridgeCleanStop == Spec => []CleanStopAccounts
<1>1. BridgeInv /\ BookInv => CleanStopAccounts
  <2> SUFFICES ASSUME BridgeInv, BookInv, driver = "stopped" PROVE CleanStopAccounts
    BY DEF CleanStopAccounts
  <2>1. ctr.http = Cardinality(Admitted) + Cardinality(Refused)
    BY DEF BridgeInv, HttpInv
  <2>2. [ctr EXCEPT !.http = 0, !.rejected["limit"] = 0] =
           [Tally(Admitted) EXCEPT !.http = 0, !.rejected["limit"] = 0]
    BY BridgeTally
  <2>3. closed /\ ~abandoned
    BY DEF BridgeInv, PhaseInv, BookInv, ScopesInv
  <2>4. gen = 2 * Len(sealed) + 1
    BY <2>3 DEF BookInv, ScopesInv
  <2>5. Active = {}
    BY DEF BridgeInv, StopInv, Active
  <2>6. CASE \E c \in Conn : verdict[c] = "upstream" /\ batch[c] = NoCalls
    BY <2>1, <2>2, <2>4, <2>5, <2>6 DEF CleanStopAccounts
  <2>7. CASE \A c \in Conn : verdict[c] = "upstream" => batch[c] # NoCalls
    <3>1. /\ ctr.validated <= ctr.attempted
          /\ (ctr.validated = ctr.attempted) <=> (ctr.rejected["upstream"] = 0)
      BY <2>7, AnswersShort
    <3>2. ctr.attempted + ctr.synthetic = ctr.permitted
      BY DEF BookInv
    <3>3. BridgeCountersAgree(ctr)
      BY <3>1, <3>2, ViolationsBelow DEF BridgeCountersAgree
    <3> QED BY <2>1, <2>2, <2>4, <2>5, <3>3 DEF CleanStopAccounts
  <2> QED BY <2>6, <2>7
<1> QED BY <1>1, BridgeInvariant, BridgeBooks, PTL
=============================================================================
