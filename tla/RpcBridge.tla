----------------------------- MODULE RpcBridge -----------------------------
(***************************************************************************)
(* The read-only RPC bridge between the tests of an audited repository and *)
(* a local chain node, with the threads that share its state:              *)
(*   - the scanner thread (driver), which starts the bridge, opens and     *)
(*     closes one accounting scope per selected test, and stops it;        *)
(*   - the accept loop (loop), which also carries the checkpoints by which *)
(*     a scope boundary waits for every connection queued before it;       *)
(*   - one handler thread per admitted connection;                         *)
(*   - the admission thread that shuts the listener, and the cleanup       *)
(*     thread that stop() waits for.                                       *)
(* The program under test connects at any time.  Time is one bit: whether  *)
(* the deadline of the driver's call in progress has passed.               *)
(***************************************************************************)
EXTENDS RpcAccounting, Sequences, FiniteSets

CONSTANTS
    NRequests,      \* connections the tests may make
    NTests,         \* selected tests, each with a scope of its own
    MaxHttp,        \* max_http_requests
    MaxCalls,       \* max_rpc_calls
    MaxHandlers,    \* max_concurrent_handlers
    Batch,          \* the batches a request may carry
    EarlyKind       \* why a request may be refused before it is permitted

ASSUME BoundsAssumption ==
    /\ {NRequests, NTests, MaxHttp, MaxCalls, MaxHandlers} \subseteq Nat \ {0}
    /\ Batch \subseteq [origin : Nat, synthetic : Nat] \ {NoCalls}
    /\ EarlyKind \subseteq RejectionKind \ {"upstream"}

(* Connections are numbered in the order they are made; the k-th scope     *)
(* boundary's probe connection is NRequests + k.                           *)
Request == 1..NRequests
Probe == (NRequests + 1)..(NRequests + 2 * NTests)
Conn == Request \cup Probe

VARIABLES
    driver,         \* where the scanner thread is
    late,           \* the deadline of its call in progress has passed
    calls,          \* scope boundary calls made so far: begin, end, begin...
    gen,            \* _accept_generation
    scope,          \* the test whose scope is open, 0 for none
    closed,         \* _admission_closed
    saturated,      \* _http_admission_saturated
    pending,        \* _pending_accepted_http_request_count
    inflight,       \* _inflight_admitted_http_request_count
    ctr, acc,       \* the bridge's counters and the open scope's
    sealed,         \* the scope snapshots handed out
    abandoned,      \* stop() found a scope open
    arrived,        \* connections made by the tests
    backlog,        \* the listener's queue
    checkpoints,    \* _checkpoints_by_source_port
    accepted,       \* probes whose accepted event is set
    loop,           \* the accept loop: where it is and what it holds
    admission,      \* the admission thread
    cleanup,        \* the cleanup thread of stop()
    shut,           \* _upstream_shutdown_requested
    conn,           \* where each connection is
    batch,          \* the calls each permitted request carries
    verdict, home, born     \* history, read by the properties only

(* How each connection ended, the scope it was admitted to, and when it    *)
(* was made (probes sent and scope open at that moment).                   *)
history == <<verdict, home, born>>
counting == <<ctr, acc>>
listener == <<backlog, checkpoints, accepted, loop, admission>>
stopping == <<abandoned, cleanup, shut>>
boundary == <<gen, scope, closed>>
vars == <<driver, late, calls, saturated, pending, inflight, sealed, arrived,
          conn, batch, history, counting, listener, stopping, boundary>>

(* A handler thread owns the connection in these places; it is in          *)
(* _active_connections until it releases it, and holds its slot longer.    *)
Handling == {"handling", "permitted", "forward", "finish"}
Active == {c \in Conn : conn[c] \in Handling}
SlotsUsed == Cardinality({c \in Conn : conn[c] \in Handling \cup {"released"}})
Upstream == {c \in Conn : conn[c] = "forward"}

BoundaryPc == {"connect", "await", "pending", "handlers", "inflight", "seal"}
InBoundary == driver \in BoundaryPc
Beginning == calls % 2 = 1
ThisTest == (calls + 1) \div 2
ThisProbe == NRequests + calls

(* The checkpoint's release event: set when the call that made it is over. *)
Released(p) == ~ (InBoundary /\ p = ThisProbe)

Idle == [pc |-> "select", item |-> 0, gen |-> 0]

Init ==
    /\ driver = "unstarted" /\ late = FALSE /\ calls = 0
    /\ gen = 0 /\ scope = 0 /\ closed = FALSE /\ saturated = FALSE
    /\ pending = 0 /\ inflight = 0 /\ ctr = Zero /\ acc = Zero /\ sealed = <<>>
    /\ abandoned = FALSE /\ arrived = 0 /\ backlog = <<>> /\ checkpoints = {}
    /\ accepted = {} /\ loop = Idle /\ admission = "unbound"
    /\ cleanup = "none" /\ shut = FALSE
    /\ conn = [c \in Conn |-> "none"] /\ batch = [c \in Conn |-> NoCalls]
    /\ verdict = [c \in Conn |-> "none"] /\ home = [c \in Conn |-> 0]
    /\ born = [c \in Conn |-> [probes |-> 0, scope |-> 0]]

-----------------------------------------------------------------------------
(* The environment: the tests connect, time passes.                        *)

(* A connection made after the loop was told to end is never accepted.     *)
Connect ==
    /\ admission \in {"open", "starting"}
    /\ arrived < NRequests
    /\ arrived' = arrived + 1
    /\ backlog' = Append(backlog, arrived')
    /\ conn' = [conn EXCEPT ![arrived'] = "queued"]
    /\ born' = [born EXCEPT ![arrived'] =
            [probes |-> Cardinality({p \in Probe : conn[p] # "none"}),
             scope |-> scope]]
    /\ UNCHANGED <<driver, late, calls, saturated, pending, inflight, sealed,
                   batch, verdict, home, counting, checkpoints, accepted, loop,
                   admission, stopping, boundary>>

DeadlinePasses ==
    /\ driver \in BoundaryPc \cup {"stopping", "join", "postflight"}
    /\ ~ late
    /\ late' = TRUE
    /\ UNCHANGED <<driver, calls, saturated, pending, inflight, sealed, arrived,
                   conn, batch, history, counting, listener, stopping, boundary>>

-----------------------------------------------------------------------------
(* The scanner thread.  A suite runs its tests one after the other and     *)
(* gives up at the first boundary that fails or scope that is not          *)
(* validated; in every case it stops the bridge.                           *)

(* start(): the origin is attested before the listener exists; a node that *)
(* does not serve the pinned block, or a bind that fails, ends it there.   *)
Start ==
    /\ driver = "unstarted"
    /\ \/ driver' = "suite" /\ admission' = "open"
       \/ driver' = "dead" /\ UNCHANGED admission
    /\ UNCHANGED <<late, calls, saturated, pending, inflight, sealed, arrived,
                   conn, batch, history, counting, backlog, checkpoints,
                   accepted, loop, stopping, boundary>>

(* begin_selected_test_scope and end_selected_test_scope begin alike.      *)
CallBoundary ==
    /\ \/ driver = "suite" /\ calls < 2 * NTests
       \/ driver = "testing"
    /\ driver' = "connect"
    /\ calls' = calls + 1
    /\ UNCHANGED <<late, saturated, pending, inflight, sealed, arrived, conn, batch,
                   history, counting, listener, stopping, boundary>>

(* The call raises: its checkpoint is withdrawn, the suite ends.           *)
BoundaryFails ==
    /\ driver' = "abort" /\ late' = FALSE
    /\ checkpoints' = checkpoints \ {ThisProbe}
    /\ UNCHANGED <<calls, saturated, pending, inflight, sealed, arrived,
                   batch, history, counting, accepted, loop, admission,
                   stopping, boundary>>

(* accept_boundary_checkpoint: queue a probe behind every connection made  *)
(* so far; a closed listener refuses it.                                   *)
ProbeConnect ==
    /\ driver = "connect"
    /\ \/ /\ admission # "closed" /\ ~ late
          /\ driver' = "await"
          /\ checkpoints' = checkpoints \cup {ThisProbe}
          /\ backlog' = Append(backlog, ThisProbe)
          /\ conn' = [conn EXCEPT ![ThisProbe] = "queued"]
          /\ UNCHANGED <<late, calls, saturated, pending, inflight, sealed,
                         arrived, batch, history, counting, accepted, loop,
                         admission, stopping, boundary>>
       \/ /\ admission = "closed"
          /\ BoundaryFails /\ UNCHANGED <<backlog, conn>>

(* Fault: the boundary does not wait for its probe to be accepted.         *)
ProbeNotAwaited ==
    /\ driver = "await"
    /\ driver' = "pending"
    /\ UNCHANGED <<late, calls, saturated, pending, inflight, sealed, arrived,
                   conn, batch, history, counting, listener, stopping, boundary>>

ProbeAccepted ==
    /\ driver = "await" /\ ThisProbe \in accepted
    /\ driver' = "pending"
    /\ UNCHANGED <<late, calls, saturated, pending, inflight, sealed, arrived,
                   conn, batch, history, counting, listener, stopping, boundary>>

(* _wait_for_test_scope_boundary_drained, one wait at a time.              *)
Drain ==
    /\ \/ driver = "pending" /\ pending = 0 /\ driver' = "handlers"
       \/ driver = "handlers" /\ ~ late /\ Active = {} /\ driver' = "inflight"
       \/ /\ driver = "inflight" /\ ~ late /\ inflight = 0 /\ Upstream = {}
          /\ driver' = "seal"
    /\ UNCHANGED <<late, calls, saturated, pending, inflight, sealed, arrived,
                   conn, batch, history, counting, listener, stopping, boundary>>

(* Fault: the wait for the handlers has no bound.                          *)
HandlersAwaitedForever ==
    /\ \/ late /\ driver \in BoundaryPc \ {"handlers", "seal"}
       \/ driver = "inflight" /\ inflight = 0 /\ Upstream # {}
    /\ BoundaryFails /\ UNCHANGED <<backlog, conn>>

(* A wait that outlives the deadline, or upstream work left after it.      *)
BoundaryExpires ==
    /\ \/ late /\ driver \in BoundaryPc \ {"seal"}
       \/ driver = "inflight" /\ inflight = 0 /\ Upstream # {}
    /\ BoundaryFails /\ UNCHANGED <<backlog, conn>>

(* _test_scope_boundary_drained, under the boundary lock.                  *)
BoundaryDrained ==
    pending = 0 /\ inflight = 0 /\ Active = {} /\ Upstream = {}

(* Fault: the boundary is not looked at again under its lock.              *)
SealableUnchecked == Beginning \/ ScopeCountersAgree(acc)

(* A scope whose numbers contradict each other has no snapshot.            *)
Sealable == BoundaryDrained /\ (Beginning \/ ScopeCountersAgree(acc))

(* The switch itself, still under the boundary lock.                       *)
SealBoundary ==
    /\ driver = "seal"
    /\ Sealable
    /\ gen' = gen + 1 /\ late' = FALSE
    /\ IF Beginning
       THEN /\ scope' = ThisTest /\ acc' = Zero /\ driver' = "testing"
            /\ UNCHANGED sealed
       ELSE /\ scope' = 0 /\ UNCHANGED acc
            /\ sealed' = Append(sealed, [test |-> scope, count |-> acc,
                                         status |-> ScopeStatus(acc)])
            /\ driver' = IF ScopeStatus(acc) = "validated" THEN "suite"
                                                           ELSE "abort"
    /\ UNCHANGED <<calls, saturated, pending, inflight, arrived, conn,
                   batch, history, ctr, listener, stopping, closed>>

SealRefused ==
    /\ driver = "seal"
    /\ ~ Sealable
    /\ BoundaryFails /\ UNCHANGED <<backlog, conn>>

(* stop(): the state change made under the three locks.                    *)
Stop ==
    /\ driver \in {"suite", "abort"}
    /\ abandoned' = (scope # 0)
    /\ scope' = 0 /\ closed' = TRUE /\ gen' = gen + 1
    /\ driver' = "stopping" /\ cleanup' = "admission"
    /\ UNCHANGED <<late, calls, saturated, pending, inflight, sealed, arrived, conn,
                   batch, history, counting, listener, shut>>

(* stop_admission starts its thread once.                                  *)
AdmissionAsked == IF admission = "open" THEN "starting" ELSE admission

(* Fault: the cleanup thread does not wait for the admission thread.       *)
CleanupUnawaited ==
    /\ \/ /\ cleanup = "admission" /\ cleanup' = "upstream"
          /\ admission' = AdmissionAsked /\ UNCHANGED shut
       \/ /\ cleanup = "upstream" /\ cleanup' = "done" /\ shut' = TRUE
          /\ UNCHANGED admission
    /\ UNCHANGED <<driver, late, calls, saturated, pending, inflight, sealed,
                   arrived, conn, batch, history, counting, backlog,
                   checkpoints, accepted, loop, abandoned, boundary>>

(* close_bridge_resources.  Closing the handlers' and the upstream sockets *)
(* only makes their reads fail, which they may do anyway.                  *)
CleanupStep ==
    /\ \/ /\ cleanup = "admission" /\ cleanup' = "upstream"
          /\ admission' = AdmissionAsked /\ UNCHANGED shut
       \/ /\ cleanup = "upstream" /\ cleanup' = "await" /\ shut' = TRUE
          /\ UNCHANGED admission
       \/ /\ cleanup = "await" /\ admission = "closed" /\ cleanup' = "done"
          /\ UNCHANGED <<admission, shut>>
       \/ /\ cleanup = "await" /\ admission # "closed" /\ late
          /\ cleanup' = "failed" /\ UNCHANGED <<admission, shut>>
    /\ UNCHANGED <<driver, late, calls, saturated, pending, inflight, sealed,
                   arrived, conn, batch, history, counting, backlog,
                   checkpoints, accepted, loop, abandoned, boundary>>

(* Fault: stop() does not wait for the handlers.                           *)
HandlersLeft ==
    /\ driver = "stopping" /\ cleanup = "done" /\ ~ late
    /\ driver' = "join"
    /\ UNCHANGED <<late, calls, saturated, pending, inflight, sealed, arrived,
                   conn, batch, history, counting, listener, stopping, boundary>>

(* The rest of stop(): cleanup joined, handlers drained, accept loop       *)
(* joined, origin attested again; anything late or left over raises.       *)
StopHandlers ==
    /\ driver = "stopping" /\ cleanup = "done" /\ ~ late
    /\ Active = {} /\ Upstream = {}
    /\ driver' = "join"
    /\ UNCHANGED <<late, calls, saturated, pending, inflight, sealed, arrived,
                   conn, batch, history, counting, listener, stopping, boundary>>

StopJoin ==
    /\ driver = "join" /\ loop.pc = "ended" /\ ~ late
    /\ driver' = "postflight"
    /\ UNCHANGED <<late, calls, saturated, pending, inflight, sealed, arrived,
                   conn, batch, history, counting, listener, stopping, boundary>>

StopPostflight ==
    /\ driver = "postflight" /\ ~ late
    /\ driver' \in IF abandoned THEN {"unclean"} ELSE {"stopped", "unclean"}
    /\ UNCHANGED <<late, calls, saturated, pending, inflight, sealed, arrived,
                   conn, batch, history, counting, listener, stopping, boundary>>

StopExpires ==
    /\ driver \in {"stopping", "join", "postflight"} /\ late
    /\ driver' = "unclean"
    /\ UNCHANGED <<late, calls, saturated, pending, inflight, sealed, arrived,
                   conn, batch, history, counting, listener, stopping, boundary>>

Driver ==
    \/ Start \/ CallBoundary \/ ProbeConnect \/ ProbeAccepted \/ Drain
    \/ BoundaryExpires \/ SealBoundary \/ SealRefused
    \/ Stop \/ StopHandlers \/ StopJoin \/ StopPostflight \/ StopExpires

-----------------------------------------------------------------------------
(* The accept loop (serve_forever): it takes one connection at a time and  *)
(* looks at the shutdown request only between two of them.                 *)

AtLoop(pc) == loop.pc = pc
LoopAt(pc) == loop' = [loop EXCEPT !.pc = pc]
LoopDone == loop' = Idle

(* get_request: the generation is read before accept().  The probe of a    *)
(* call that has given up is no longer known and counts as a request.      *)
LoopAccept ==
    /\ AtLoop("select") /\ admission \in {"open", "starting"} /\ backlog # <<>>
    /\ backlog' = Tail(backlog)
    /\ checkpoints' = checkpoints \ {Head(backlog)}
    /\ loop' = [pc |-> IF Head(backlog) \in checkpoints THEN "probe"
                                                        ELSE "register",
                item |-> Head(backlog),
                gen |-> IF Head(backlog) \in checkpoints THEN 0 ELSE gen]
    /\ UNCHANGED <<driver, late, calls, saturated, pending, inflight, sealed,
                   arrived, conn, batch, history, counting, accepted,
                   admission, stopping, boundary>>

(* process_request for a checkpoint: tell the driver, wait to be released. *)
LoopProbe ==
    /\ AtLoop("probe")
    /\ LoopAt("pause")
    /\ accepted' = accepted \cup {loop.item}
    /\ conn' = [conn EXCEPT ![loop.item] = "closed"]
    /\ UNCHANGED <<driver, late, calls, saturated, pending, inflight, sealed,
                   arrived, batch, history, counting, backlog, checkpoints,
                   admission, stopping, boundary>>

(* The pause has the driver's bound, counted from a later moment.          *)
LoopResume ==
    /\ AtLoop("pause")
    /\ Released(loop.item) \/ late
    /\ LoopDone
    /\ UNCHANGED <<driver, late, calls, saturated, pending, inflight, sealed,
                   arrived, conn, batch, history, counting, backlog,
                   checkpoints, accepted, admission, stopping, boundary>>

LoopRegister ==
    /\ AtLoop("register")
    /\ LoopAt("admit")
    /\ pending' = pending + 1
    /\ UNCHANGED <<driver, late, calls, saturated, inflight, sealed, arrived,
                   conn, batch, history, counting, backlog, checkpoints,
                   accepted, admission, stopping, boundary>>

(* What a counter change does to the open scope's counters.                *)
InScope(Count(_)) == acc' = IF scope # 0 THEN Count(acc) ELSE acc

(* _admit_http_request and what process_request does with its answer.      *)
Stale == closed \/ loop.gen # gen
Refuse(why) ==
    /\ conn' = [conn EXCEPT ![loop.item] = "closed"]
    /\ verdict' = [verdict EXCEPT ![loop.item] = why]
    /\ LoopDone
    /\ UNCHANGED <<saturated, inflight, home, acc>>
(* Fault: the count is compared before it is advanced.                     *)
SaturatesLate == ctr.http = MaxHttp

Saturates == ctr.http + 1 = MaxHttp

LoopAdmit ==
    /\ AtLoop("admit")
    /\ pending' = pending - 1
    /\ \/ /\ Stale /\ Refuse("stale")
          /\ ctr' = CountRefusal(ctr) /\ UNCHANGED admission
       \/ /\ ~ Stale /\ saturated /\ Refuse("dropped")
          /\ admission' = AdmissionAsked /\ UNCHANGED ctr
       \/ /\ ~ Stale /\ ~ saturated
          /\ ctr' = CountHttp(ctr) /\ InScope(CountHttp)
          /\ inflight' = inflight + 1
          /\ home' = [home EXCEPT ![loop.item] = scope]
          /\ saturated' = Saturates
          /\ admission' = IF saturated' THEN AdmissionAsked ELSE admission
          /\ loop' = [loop EXCEPT !.pc = "dispatch", !.gen = 0]
          /\ UNCHANGED <<conn, verdict>>
    /\ UNCHANGED <<driver, late, calls, sealed, arrived, batch, born, backlog,
                   checkpoints, accepted, stopping, boundary>>

(* A handler thread takes the connection; with no slot free it is refused, *)
(* and a thread that cannot start leaves it unserved.                      *)
LoopDispatch ==
    /\ AtLoop("dispatch")
    /\ LoopDone
    /\ \/ /\ SlotsUsed < MaxHandlers
          /\ conn' = [conn EXCEPT ![loop.item] = "handling"]
          /\ UNCHANGED <<inflight, verdict, counting>>
       \/ /\ SlotsUsed < MaxHandlers
          /\ conn' = [conn EXCEPT ![loop.item] = "closed"]
          /\ verdict' = [verdict EXCEPT ![loop.item] = "unserved"]
          /\ inflight' = inflight - 1
          /\ UNCHANGED counting
       \/ /\ SlotsUsed = MaxHandlers
          /\ conn' = [conn EXCEPT ![loop.item] = "closed"]
          /\ verdict' = [verdict EXCEPT ![loop.item] = "limit"]
          /\ inflight' = inflight - 1
          /\ ctr' = CountRejection(ctr, "limit")
          /\ InScope(LAMBDA c : CountRejection(c, "limit"))
    /\ UNCHANGED <<driver, late, calls, saturated, pending, sealed, arrived,
                   batch, home, born, backlog, checkpoints, accepted,
                   admission, stopping, boundary>>

LoopExit ==
    /\ AtLoop("select") /\ admission = "shutdown"
    /\ LoopAt("ended")
    /\ UNCHANGED <<driver, late, calls, saturated, pending, inflight, sealed,
                   arrived, conn, batch, history, counting, backlog,
                   checkpoints, accepted, admission, stopping, boundary>>

Loop ==
    \/ LoopAccept \/ LoopProbe \/ LoopResume \/ LoopRegister \/ LoopAdmit
    \/ LoopDispatch \/ LoopExit

(* The admission thread: shutdown() asks the loop to end and waits for it, *)
(* server_close() drops what is still queued.                              *)
AdmissionStep ==
    /\ \/ admission = "starting" /\ admission' = "shutdown" /\ UNCHANGED backlog
       \/ /\ admission = "shutdown" /\ AtLoop("ended")
          /\ admission' = "closed" /\ backlog' = <<>>
    /\ UNCHANGED <<driver, late, calls, saturated, pending, inflight, sealed,
                   arrived, conn, batch, history, counting, checkpoints,
                   accepted, loop, stopping, boundary>>

-----------------------------------------------------------------------------
(* A handler thread.                                                       *)

(* _record_rejection, then the answer, which may fail without effect.      *)
Reject(c, kind) ==
    /\ ctr' = CountRejection(ctr, kind)
    /\ InScope(LAMBDA a : CountRejection(a, kind))
    /\ conn' = [conn EXCEPT ![c] = "finish"]
    /\ verdict' = [verdict EXCEPT ![c] = kind]
    /\ UNCHANGED batch

HandlerFrame ==
    UNCHANGED <<driver, late, calls, saturated, pending, sealed, arrived, home,
                born, listener, stopping, boundary>>

(* The request is not read, not allowed or too large; or preparing it      *)
(* raises an error nobody expected, which is recorded as an upstream one.  *)
RejectEarly(c) ==
    /\ conn[c] = "handling"
    /\ \E kind \in (IF c \in Probe THEN {"malformed"}
                                    ELSE EarlyKind \cup {"upstream"}) :
           Reject(c, kind)
    /\ HandlerFrame /\ UNCHANGED inflight

(* _record_permitted; a batch answered from the pinned state is done (its  *)
(* answer is taken to fit and to be encoded, as it does at default sizes).  *)
Permit(c) ==
    /\ conn[c] = "handling" /\ c \in Request
    /\ \E b \in Batch :
          \/ /\ ctr.permitted + b.origin + b.synthetic > MaxCalls
             /\ Reject(c, "limit")
          \/ /\ ctr.permitted + b.origin + b.synthetic <= MaxCalls
             /\ ctr' = CountPermitted(ctr, b)
             /\ InScope(LAMBDA a : CountPermitted(a, b))
             /\ batch' = [batch EXCEPT ![c] = b]
             /\ conn' = [conn EXCEPT ![c] = IF b.origin = 0 THEN "finish"
                                                            ELSE "permitted"]
             /\ verdict' = [verdict EXCEPT ![c] = IF b.origin = 0 THEN "answered"
                                                                  ELSE @]
    /\ HandlerFrame /\ UNCHANGED inflight

(* _forward: no new upstream operation once stop() has closed them.        *)
BeginUpstream(c) ==
    /\ conn[c] = "permitted"
    /\ \/ shut /\ Reject(c, "upstream")
       \/ /\ ~ shut
          /\ conn' = [conn EXCEPT ![c] = "forward"]
          /\ UNCHANGED <<counting, verdict, batch>>
    /\ HandlerFrame /\ UNCHANGED inflight

(* The operation ends, and its answer is recorded as validated or not.     *)
EndUpstream(c) ==
    /\ conn[c] = "forward"
    /\ \/ Reject(c, "upstream")
       \/ /\ ctr' = CountValidated(ctr, batch[c])
          /\ InScope(LAMBDA a : CountValidated(a, batch[c]))
          /\ conn' = [conn EXCEPT ![c] = "finish"]
          /\ verdict' = [verdict EXCEPT ![c] = "answered"]
          /\ UNCHANGED batch
    /\ HandlerFrame /\ UNCHANGED inflight

(* Fault: the request is taken out of flight by both halves.               *)
FinishTwice(c) ==
    /\ \/ /\ conn[c] = "finish"
          /\ conn' = [conn EXCEPT ![c] = "released"]
       \/ /\ conn[c] = "released"
          /\ conn' = [conn EXCEPT ![c] = "closed"]
    /\ inflight' = inflight - 1
    /\ UNCHANGED <<counting, verdict, batch>>
    /\ HandlerFrame

(* _finish_handler: first the connection leaves the active set, then the   *)
(* slot is free and the request no longer in flight.                       *)
FinishHandler(c) ==
    /\ \/ /\ conn[c] = "finish"
          /\ conn' = [conn EXCEPT ![c] = "released"] /\ UNCHANGED inflight
       \/ /\ conn[c] = "released"
          /\ conn' = [conn EXCEPT ![c] = "closed"] /\ inflight' = inflight - 1
    /\ UNCHANGED <<counting, verdict, batch>>
    /\ HandlerFrame

Handler(c) ==
    \/ RejectEarly(c) \/ Permit(c) \/ BeginUpstream(c) \/ EndUpstream(c)
    \/ FinishHandler(c)

-----------------------------------------------------------------------------
Done == driver \in {"dead", "stopped", "unclean"} /\ UNCHANGED vars

Next ==
    \/ Connect \/ DeadlinePasses
    \/ Driver \/ Loop \/ AdmissionStep \/ CleanupStep
    \/ \E c \in Conn : Handler(c)
    \/ Done

Spec == Init /\ [][Next]_vars

(* The scanner, the accept loop, the admission and the cleanup thread are  *)
(* runnable threads and clocks advance; what a client or the node does is  *)
(* promised by nobody, so handlers get no fairness.                        *)
FairSpec ==
    Spec /\ WF_vars(Driver) /\ WF_vars(Loop) /\ WF_vars(AdmissionStep)
         /\ WF_vars(CleanupStep) /\ WF_vars(DeadlinePasses)

-----------------------------------------------------------------------------
(* Properties.                                                             *)

(* Every variable has its type.                                            *)
TypeOK ==
    /\ driver \in {"unstarted", "dead", "suite", "testing", "abort", "stopping",
                   "join", "postflight", "stopped", "unclean"} \cup BoundaryPc
    /\ late \in BOOLEAN /\ calls \in 0..(2 * NTests)
    /\ gen \in Nat /\ scope \in 0..NTests /\ closed \in BOOLEAN
    /\ saturated \in BOOLEAN /\ pending \in 0..1 /\ inflight \in Nat
    /\ ctr \in Counters /\ acc \in Counters
    /\ sealed \in Seq([test : 1..NTests, count : Counters,
                       status : {"validated", "not_observed", "violation"}])
    /\ abandoned \in BOOLEAN /\ arrived \in 0..NRequests
    /\ backlog \in Seq(Conn) /\ checkpoints \subseteq Probe
    /\ accepted \subseteq Probe
    /\ loop \in [pc : {"select", "probe", "pause", "register", "admit",
                       "dispatch", "ended"}, item : Conn \cup {0}, gen : Nat]
    /\ admission \in {"unbound", "open", "starting", "shutdown", "closed"}
    /\ cleanup \in {"none", "admission", "upstream", "await", "done", "failed"}
    /\ shut \in BOOLEAN
    /\ conn \in [Conn -> Handling \cup {"none", "queued", "released", "closed"}]
    /\ batch \in [Conn -> [origin : Nat, synthetic : Nat]]
    /\ verdict \in [Conn -> RejectionKind \cup
                    {"none", "answered", "stale", "dropped", "unserved"}]
    /\ home \in [Conn -> 0..NTests]
    /\ born \in [Conn -> [probes : Nat, scope : 0..NTests]]

(* What the requests of a set of connections add up to, from their own     *)
(* fates rather than from the counters.                                    *)
Tally(cs) ==
    [http |-> Cardinality(cs),
     permitted |-> Sum([c \in cs |-> batch[c].origin + batch[c].synthetic]),
     attempted |-> Sum([c \in cs |-> batch[c].origin]),
     validated |-> Sum([c \in {d \in cs : verdict[d] = "answered"} |-> batch[c].origin]),
     synthetic |-> Sum([c \in cs |-> batch[c].synthetic]),
     rejected |-> [k \in RejectionKind |->
                      Cardinality({c \in cs : verdict[c] = k})]]

(* A sealed scope accounts exactly, and for good, for the requests that    *)
(* were admitted to it: no request counted in it is still being served     *)
(* when it is sealed, and none is half in one scope and half in the next.  *)
ScopeExact ==
    \A i \in DOMAIN sealed :
        /\ sealed[i].count = Tally({c \in Conn : home[c] = sealed[i].test})
        /\ \A c \in Conn : home[c] = sealed[i].test => verdict[c] # "none"

(* A request is accounted to the test that was running: none made before   *)
(* the scope was asked for, and every one made while it was open and       *)
(* before its end was asked for, unless the budget dropped it.             *)
ScopeWindow ==
    /\ \A c \in Request :
          home[c] # 0 => born[c].probes \in {2 * home[c] - 1, 2 * home[c]}
    /\ \A i \in DOMAIN sealed : \A c \in 1..arrived :
          born[c] = [probes |-> 2 * sealed[i].test - 1, scope |-> sealed[i].test]
            => home[c] = sealed[i].test \/ verdict[c] = "dropped"

(* The requests that passed admission.                                     *)
Admitted ==
    {c \in Conn :
        \/ conn[c] \in Handling \cup {"released"}
        \/ verdict[c] \in RejectionKind \cup {"answered", "unserved"}
        \/ AtLoop("dispatch") /\ loop.item = c}
Refused == {c \in Conn : verdict[c] = "stale"}

(* After a clean stop the counters are those of the requests' own fates,   *)
(* every scope that was opened was sealed, no request is still at work,    *)
(* and the final snapshot can be made unless a request failed in a way     *)
(* that was recorded as an upstream error without an upstream call.        *)
CleanStopAccounts ==
    driver = "stopped" =>
        /\ ctr.http = Cardinality(Admitted) + Cardinality(Refused)
        /\ [ctr EXCEPT !.http = 0, !.rejected["limit"] = 0] =
              [Tally(Admitted) EXCEPT !.http = 0, !.rejected["limit"] = 0]
        /\ gen = 2 * Len(sealed) + 1
        /\ Active = {}
        /\ \/ BridgeCountersAgree(ctr)
           \/ \E c \in Conn : verdict[c] = "upstream" /\ batch[c] = NoCalls

(* Once stop() has returned cleanly the evidence never changes again.      *)
FrozenAfterStop ==
    [][driver = "stopped" => UNCHANGED <<ctr, acc, sealed>>]_vars

(* The HTTP budget bounds what is admitted, unless a connection was        *)
(* refused as stale while the bridge was still open.                       *)
BudgetHolds == Refused = {} => Cardinality(Admitted) <= MaxHttp

(* "Hard-saturate the HTTP budget": without the exception.                 *)
HttpBudgetSaturates == ~ closed => ctr.http <= MaxHttp

(* Whatever clients and the node do, a boundary call and a stop end, and   *)
(* after a stop, even one that gave up waiting, the listener is closed.    *)
CallsReturn ==
    driver \in BoundaryPc \cup {"stopping", "join", "postflight"} ~>
        /\ driver \in {"testing", "suite", "abort", "stopped", "unclean"}
        /\ closed => admission = "closed"
=============================================================================
