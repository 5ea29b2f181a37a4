--------------------------- MODULE LoopbackRelay ---------------------------
(***************************************************************************)
(* The loopback relay that supervises a test command inside its container: *)
(* it forwards raw streams from a loopback port to the Unix socket of the  *)
(* read-only RPC bridge, enforces byte and connection limits, and returns  *)
(* the command's exit code only when nothing went wrong.                   *)
(*                                                                         *)
(* The main thread accepts connections and supervises the child, one       *)
(* worker thread relays each connection, and a signal handler runs inside  *)
(* the main thread between any two of its steps.  All share one lock that  *)
(* is not reentrant; the main thread's locked sections are two steps, so   *)
(* that a signal can fall between them.                                    *)
(***************************************************************************)
EXTENDS Integers, FiniteSets

CONSTANTS
    MaxConnections,     \* maximum_connections
    MaxConcurrent,      \* maximum_concurrent_connections
    MaxDirection,       \* maximum_bytes_per_direction, in chunks
    MaxTotal,           \* maximum_total_bytes, in chunks
    MaxSwaps            \* times the socket path may be replaced

ASSUME LimitsAssumption ==
    /\ {MaxConnections, MaxConcurrent, MaxDirection, MaxTotal} \subseteq Nat \ {0}
    /\ MaxConcurrent <= MaxConnections /\ MaxDirection <= MaxTotal
    /\ MaxSwaps \in Nat

Worker == 1..MaxConnections

VARIABLES
    pc,             \* where the main thread is
    lock,           \* _RelayState._lock: held by the main thread or free
    handler,        \* the signal handler
    stop, failed,   \* the two events
    exc,            \* the exception on its way out of run()
    accepted,       \* _accepted_connections
    active,         \* _active_connections
    total,          \* _total_bytes
    threads,        \* _threads
    unstarted,      \* a registered thread that could not be started
    child,          \* the supervised process
    swept,          \* its process group was signalled after it ended
    identity,       \* which socket the path names now, the first is 1
    swaps,          \* replacements so far
    worker,         \* where each worker is
    route,          \* the socket each worker connected to, 0 for none
    bytes,          \* what each worker read in its busier direction
    outcome         \* what run() ended with

supervision == <<child, swept>>
path == <<identity, swaps>>
streams == <<worker, route, bytes>>
shared == <<accepted, active, total, threads>>
events == <<stop, failed>>
vars == <<pc, lock, handler, exc, unstarted, outcome, supervision, path,
          streams, shared, events>>

Init ==
    /\ pc = "spawn" /\ lock = "free" /\ handler = "none"
    /\ stop = FALSE /\ failed = FALSE /\ exc = "none"
    /\ accepted = 0 /\ active = 0 /\ total = 0
    /\ threads = {} /\ unstarted = FALSE
    /\ child = "none" /\ swept = FALSE
    /\ identity = 1 /\ swaps = 0
    /\ worker = [w \in Worker |-> "idle"] /\ route = [w \in Worker |-> 0]
    /\ bytes = [w \in Worker |-> 0]
    /\ outcome = "none"

-----------------------------------------------------------------------------
(* The environment.                                                        *)

ChildExits ==
    /\ child = "running"
    /\ child' = "exited"
    /\ UNCHANGED <<pc, lock, handler, exc, unstarted, outcome, swept, path,
                   streams, shared, events>>

(* The socket path is replaced; a second time, the first is put back.      *)
Swap ==
    /\ swaps < MaxSwaps /\ outcome = "none"
    /\ swaps' = swaps + 1
    /\ identity' = 3 - identity
    /\ UNCHANGED <<pc, lock, handler, exc, unstarted, outcome, supervision,
                   streams, shared, events>>

(* One signal, at any moment its handler is installed: the handler sets    *)
(* stop and then needs the lock to see which sockets to close.             *)
SignalArrives ==
    /\ handler = "none" /\ pc \notin {"result", "verdict", "done"}
    /\ handler' = "closing"
    /\ stop' = TRUE
    /\ UNCHANGED <<pc, lock, exc, unstarted, outcome, supervision, path,
                   streams, shared, failed>>

HandlerCloses ==
    /\ handler = "closing" /\ lock = "free"
    /\ handler' = "done"
    /\ UNCHANGED <<pc, lock, exc, unstarted, outcome, supervision, path,
                   streams, shared, events>>

-----------------------------------------------------------------------------
(* The main thread.  Closing a socket makes a worker's next read end,      *)
(* which it may do anyway, so the set of open sockets is left out.         *)

MainAt(p) == pc = p /\ handler # "closing"

(* The sections that take the lock.                                        *)
Locked == {"begin", "register", "unlisten", "close", "join"}

MainAcquire ==
    /\ pc \in Locked /\ handler # "closing" /\ lock = "free"
    /\ lock' = "main"
    /\ UNCHANGED <<pc, handler, exc, unstarted, outcome, supervision, path,
                   streams, shared, events>>

InSection(p) == MainAt(p) /\ lock = "main" /\ lock' = "free"

Spawn ==
    /\ MainAt("spawn")
    /\ \/ /\ child' = "running" /\ pc' = "accept" /\ UNCHANGED <<exc, events>>
       \/ /\ pc' = "unlisten" /\ exc' = "relay"
          /\ failed' = TRUE /\ stop' = TRUE /\ UNCHANGED child
    /\ UNCHANGED <<lock, handler, unstarted, outcome, swept, path, streams,
                   shared>>

(* _accept_until_child_finishes: a connection, or a listener that broke.   *)
Accept ==
    /\ MainAt("accept") /\ child = "running" /\ ~ stop
    /\ \/ pc' = "begin" /\ UNCHANGED events
       \/ pc' = "over" /\ failed' = TRUE /\ stop' = TRUE
    /\ UNCHANGED <<lock, handler, exc, unstarted, outcome, supervision, path,
                   streams, shared>>

(* Fault: the accept loop ends only with the child.                        *)
StopIgnored ==
    /\ MainAt("accept") /\ child # "running"
    /\ pc' = "over"
    /\ UNCHANGED <<lock, handler, exc, unstarted, outcome, supervision, path,
                   streams, shared, events>>

AcceptEnds ==
    /\ MainAt("accept") /\ (child # "running" \/ stop)
    /\ pc' = "over"
    /\ UNCHANGED <<lock, handler, exc, unstarted, outcome, supervision, path,
                   streams, shared, events>>

(* Fault: only the number of connections ever accepted is bounded.         *)
AnyConcurrency == accepted < MaxConnections

(* Fault: one connection too many.                                         *)
RoomOffByOne == accepted <= MaxConnections /\ active < MaxConcurrent

(* begin_connection.                                                       *)
HasRoom == accepted < MaxConnections /\ active < MaxConcurrent

BeginConnection ==
    /\ InSection("begin")
    /\ \/ /\ HasRoom
          /\ accepted' = accepted + 1 /\ active' = active + 1
          /\ pc' = "register" /\ UNCHANGED events
       \/ /\ ~ HasRoom
          /\ failed' = TRUE /\ stop' = TRUE
          /\ pc' = "over" /\ UNCHANGED <<accepted, active>>
    /\ UNCHANGED <<handler, exc, unstarted, outcome, supervision, path,
                   streams, total, threads>>

(* The thread is registered before it is started.                          *)
RegisterThread ==
    /\ InSection("register")
    /\ threads' = threads \cup {accepted}
    /\ pc' = "start"
    /\ UNCHANGED <<handler, exc, unstarted, outcome, supervision, path,
                   streams, accepted, active, total, events>>

(* A thread that cannot start raises an error the accept loop does not     *)
(* handle, and stays registered.                                           *)
StartThread ==
    /\ MainAt("start")
    /\ \/ /\ worker' = [worker EXCEPT ![accepted] = "check"]
          /\ pc' = "accept" /\ UNCHANGED <<unstarted, exc>>
       \/ /\ unstarted' = TRUE /\ exc' = "runtime" /\ pc' = "unlisten"
          /\ UNCHANGED worker
    /\ UNCHANGED <<lock, handler, outcome, supervision, path, route, bytes,
                   shared, events>>

(* _terminate_child_group: the child ends within its grace, or not.        *)
Terminate(Ended, Survived) ==
    \/ child' = "exited" /\ Ended
    \/ UNCHANGED child /\ Survived

Over ==
    /\ MainAt("over")
    /\ pc' = "unlisten"
    /\ \/ /\ child = "running" /\ (failed \/ stop)
          /\ Terminate(UNCHANGED exc, exc' = "relay")
       \/ child # "running" /\ UNCHANGED <<child, exc>>
    /\ UNCHANGED <<lock, handler, unstarted, outcome, swept, path, streams,
                   shared, events>>

(* The finally block of run(), one step per call.                          *)
Unlisten ==
    /\ InSection("unlisten")
    /\ stop' = TRUE
    /\ pc' = "close"
    /\ UNCHANGED <<handler, exc, unstarted, outcome, supervision, path,
                   streams, shared, failed>>

CloseSockets ==
    /\ InSection("close")
    /\ pc' = "reap"
    /\ UNCHANGED <<handler, exc, unstarted, outcome, supervision, path,
                   streams, shared, events>>

Reap ==
    /\ MainAt("reap")
    /\ pc' = "join"
    /\ \/ child # "running" /\ UNCHANGED <<child, failed>>
       \/ child = "running" /\ Terminate(UNCHANGED failed, failed' = TRUE)
    /\ UNCHANGED <<lock, handler, exc, unstarted, outcome, swept, path,
                   streams, shared, stop>>

(* join_threads: read the set; a thread that never started cannot be       *)
(* joined, and that error skips the rest of the block.                     *)
JoinThreads ==
    /\ InSection("join")
    /\ \/ threads = {} /\ pc' = "residual" /\ UNCHANGED outcome
       \/ threads # {} /\ ~ unstarted /\ pc' = "joining" /\ UNCHANGED outcome
       \/ threads # {} /\ unstarted /\ pc' = "done" /\ outcome' = "raised"
    /\ UNCHANGED <<handler, exc, unstarted, supervision, path, streams, shared,
                   events>>

(* Fault: a join that ran out of time is not a failure.                    *)
JoinForgiven ==
    /\ MainAt("joining")
    /\ \/ threads = {} /\ pc' = "join"
       \/ pc' = "residual"
    /\ UNCHANGED <<lock, handler, exc, unstarted, outcome, supervision, path,
                   streams, shared, events>>

(* The threads end in time, or the join gives up.                          *)
Joining ==
    /\ MainAt("joining")
    /\ \/ threads = {} /\ pc' = "join" /\ UNCHANGED failed
       \/ pc' = "residual" /\ failed' = TRUE
    /\ UNCHANGED <<lock, handler, exc, unstarted, outcome, supervision, path,
                   streams, shared, stop>>

(* Fault: the group is swept only when run() is going to return.           *)
ResidualSkipped ==
    /\ MainAt("residual")
    /\ swept' = (child # "none" /\ exc = "none")
    /\ pc' = IF exc = "none" THEN "result" ELSE "done"
    /\ outcome' = IF exc = "none" THEN "none" ELSE "failure"
    /\ UNCHANGED <<lock, handler, exc, unstarted, child, path, streams, shared,
                   events>>

(* _terminate_residual_process_group, then the signal handlers are         *)
(* restored; an exception on its way leaves run() here.                    *)
Residual ==
    /\ MainAt("residual")
    /\ swept' = (child # "none")
    /\ pc' = IF exc = "none" THEN "result" ELSE "done"
    /\ outcome' = IF exc = "none" THEN "none" ELSE "failure"
    /\ UNCHANGED <<lock, handler, exc, unstarted, child, path, streams, shared,
                   events>>

(* A child that outlived all of that is killed again.                      *)
Result ==
    /\ pc = "result"
    /\ \/ /\ child # "running" /\ pc' = "verdict"
          /\ UNCHANGED <<child, failed, outcome>>
       \/ /\ child = "running" /\ failed' = TRUE
          /\ Terminate(pc' = "verdict" /\ UNCHANGED outcome,
                       pc' = "done" /\ outcome' = "failure")
    /\ UNCHANGED <<lock, handler, exc, unstarted, swept, path, streams, shared,
                   stop>>

(* The last identity check, and the exit code.                             *)
Verdict ==
    /\ pc = "verdict"
    /\ pc' = "done"
    /\ failed' = (failed \/ identity # 1)
    /\ outcome' = CASE failed' -> "failure"
                    [] ~ failed' /\ handler # "none" -> "signal"
                    [] OTHER -> "child"
    /\ UNCHANGED <<lock, handler, exc, unstarted, supervision, path, streams,
                   shared, stop>>

Main ==
    \/ MainAcquire \/ Spawn \/ Accept \/ AcceptEnds \/ BeginConnection
    \/ RegisterThread \/ StartThread \/ Over \/ Unlisten \/ CloseSockets
    \/ Reap \/ JoinThreads \/ Joining \/ Residual \/ Result \/ Verdict

-----------------------------------------------------------------------------
(* A worker: _relay_connection and _pump_raw_streams.                      *)

MainFrame ==
    UNCHANGED <<pc, lock, handler, exc, unstarted, outcome, supervision, path,
                accepted>>

WorkerTo(w, p) == worker' = [worker EXCEPT ![w] = p]

(* An error that counts only while nobody has asked for the end.           *)
FailUnlessStopped == failed' = (failed \/ ~ stop) /\ stop' = TRUE

(* The identity check before the connection and the one after it.          *)
Check(w) ==
    /\ worker[w] \in {"check", "recheck"}
    /\ \/ /\ identity = 1 /\ UNCHANGED events
          /\ WorkerTo(w, IF worker[w] = "check" THEN "connect" ELSE "pump")
       \/ identity # 1 /\ FailUnlessStopped /\ WorkerTo(w, "finish")
    /\ MainFrame /\ UNCHANGED <<route, bytes, active, total, threads>>

(* Fault: the identity is not checked again after the connection.          *)
ConnectTrusted(w) ==
    /\ worker[w] = "connect" /\ lock = "free"
    /\ \/ /\ route' = [route EXCEPT ![w] = identity]
          /\ WorkerTo(w, "pump") /\ UNCHANGED events
       \/ FailUnlessStopped /\ WorkerTo(w, "finish") /\ UNCHANGED route
    /\ MainFrame /\ UNCHANGED <<bytes, active, total, threads>>

(* The socket is registered under the lock, then connected or not.         *)
ConnectUpstream(w) ==
    /\ worker[w] = "connect" /\ lock = "free"
    /\ \/ /\ route' = [route EXCEPT ![w] = identity]
          /\ WorkerTo(w, "recheck") /\ UNCHANGED events
       \/ FailUnlessStopped /\ WorkerTo(w, "finish") /\ UNCHANGED route
    /\ MainFrame /\ UNCHANGED <<bytes, active, total, threads>>

(* One chunk read and accounted for; stop is looked at before each.        *)
Relay(w) ==
    /\ worker[w] = "pump" /\ ~ stop
    /\ WorkerTo(w, "account")
    /\ MainFrame /\ UNCHANGED <<route, bytes, active, total, threads, events>>

(* The chunk is over the direction's limit, over the total, or forwarded.  *)
Account(w) ==
    /\ worker[w] = "account" /\ lock = "free"
    /\ bytes' = [bytes EXCEPT ![w] = @ + 1]
    /\ \/ /\ bytes[w] + 1 > MaxDirection
          /\ failed' = TRUE /\ stop' = TRUE /\ WorkerTo(w, "finish")
          /\ UNCHANGED total
       \/ /\ bytes[w] + 1 <= MaxDirection
          /\ total' = total + 1
          /\ IF total + 1 > MaxTotal
             THEN failed' = TRUE /\ stop' = TRUE /\ WorkerTo(w, "finish")
             ELSE UNCHANGED events /\ WorkerTo(w, "pump")
    /\ MainFrame /\ UNCHANGED <<route, active, threads>>

(* The stream ends: stop was asked for or a peer is gone, which are no     *)
(* failures, or it was idle or unwritable for too long, which is one.      *)
StreamEnds(w) ==
    /\ worker[w] = "pump"
    /\ WorkerTo(w, "finish")
    /\ \/ UNCHANGED events
       \/ failed' = TRUE /\ stop' = TRUE
    /\ MainFrame /\ UNCHANGED <<route, bytes, active, total, threads>>

(* The finally block: the connection is given back, then the thread.       *)
FinishConnection(w) ==
    /\ worker[w] = "finish" /\ lock = "free"
    /\ active' = IF active > 0 THEN active - 1 ELSE 0
    /\ WorkerTo(w, "leave")
    /\ MainFrame /\ UNCHANGED <<route, bytes, total, threads, events>>

UnregisterThread(w) ==
    /\ worker[w] = "leave" /\ lock = "free"
    /\ threads' = threads \ {w}
    /\ WorkerTo(w, "ended")
    /\ MainFrame /\ UNCHANGED <<route, bytes, active, total, events>>

WorkerStep(w) ==
    \/ Check(w) \/ ConnectUpstream(w) \/ Relay(w) \/ Account(w) \/ StreamEnds(w)
    \/ FinishConnection(w) \/ UnregisterThread(w)

-----------------------------------------------------------------------------
(* The handler runs in the thread that holds the lock it waits for.        *)
SelfDeadlocked == handler = "closing" /\ lock = "main"

Done == (outcome # "none" \/ SelfDeadlocked) /\ UNCHANGED vars

Next ==
    \/ ChildExits \/ Swap \/ SignalArrives \/ HandlerCloses \/ Main
    \/ \E w \in Worker : WorkerStep(w)
    \/ Done

Spec == Init /\ [][Next]_vars

(* The main thread and the handler are scheduled, and the waits of the     *)
(* main thread are timed; nothing is assumed of the child or of streams.   *)
FairSpec == Spec /\ WF_vars(Main) /\ WF_vars(HandlerCloses)

-----------------------------------------------------------------------------
(* Properties.                                                             *)

(* Every variable has its type.                                            *)
TypeOK ==
    /\ pc \in Locked \cup {"spawn", "accept", "start", "over", "reap", "joining",
                           "residual", "result", "verdict", "done"}
    /\ lock \in {"free", "main"}
    /\ handler \in {"none", "closing", "done"}
    /\ stop \in BOOLEAN /\ failed \in BOOLEAN
    /\ exc \in {"none", "relay", "runtime"}
    /\ accepted \in 0..MaxConnections /\ active \in 0..MaxConnections
    /\ total \in Nat /\ threads \subseteq Worker /\ unstarted \in BOOLEAN
    /\ child \in {"none", "running", "exited"} /\ swept \in BOOLEAN
    /\ identity \in {1, 2} /\ swaps \in 0..MaxSwaps
    /\ worker \in [Worker -> {"idle", "check", "connect", "recheck", "pump",
                              "account", "finish", "leave", "ended"}]
    /\ route \in [Worker -> {0, 1, 2}] /\ bytes \in [Worker -> Nat]
    /\ outcome \in {"none", "raised", "failure", "signal", "child"}

(* run() reports the child's own code, or the signal, only when nothing    *)
(* failed, no worker is left that could still move bytes or fail, the      *)
(* child is gone and its process group was swept.                          *)
OwnCodeMeansClean ==
    outcome \in {"child", "signal"} =>
        /\ ~ failed /\ total <= MaxTotal
        /\ \A w \in Worker : worker[w] \in {"idle", "ended"}
        /\ threads = {} /\ active = 0
        /\ child = "exited" /\ swept

(* No byte reaches a socket other than the one validated at the start,     *)
(* unless the path was replaced and put back between a worker's checks;    *)
(* and a path that was replaced and stays so is never reported as a pass.  *)
NoForeignRoute ==
    /\ swaps <= 1 => \A w \in Worker : bytes[w] > 0 => route[w] = 1
    /\ outcome \in {"child", "signal"} => swaps # 1

(* Connections and bytes stay within their limits: a worker that was       *)
(* already past its look at stop may add one chunk to an exceeded total,   *)
(* and an exceeded total is a failure that stops everyone.                 *)
LimitsHold ==
    /\ active <= MaxConcurrent
    /\ active = Cardinality({w \in Worker :
                                worker[w] \notin {"idle", "leave", "ended"}})
                + (IF pc \in {"register", "start"} \/ unstarted THEN 1 ELSE 0)
    /\ total <= MaxTotal + MaxConcurrent
    /\ total > MaxTotal => failed /\ stop

(* However run() ends, the child's process group was swept, unless a       *)
(* thread could not be started.                                            *)
GroupSwept ==
    outcome # "none" /\ child # "none" => swept \/ unstarted

(* Once the end is asked for, by a signal, a failure or the child's exit,  *)
(* run() ends, unless the handler waits for its own thread's lock.         *)
RunEnds ==
    stop \/ child = "exited" ~> outcome # "none" \/ SelfDeadlocked

(* "Request bounded termination": a signal always ends run().              *)
SignalEnds == handler = "closing" ~> outcome # "none"
=============================================================================
