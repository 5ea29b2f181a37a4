------------------------ MODULE LoopbackRelayProofs ------------------------
(* Proofs about the loopback relay, for every limit on connections and     *)
(* bytes and for any number of replacements of the socket path.            *)
EXTENDS LoopbackRelay, FiniteSetTheorems, TLAPS

USE LimitsAssumption

(* The workers that hold a connection, and those between a read and its    *)
(* accounting.                                                             *)
Busy == {w \in Worker : worker[w] \notin {"idle", "leave", "ended"}}
Accounting == {w \in Worker : worker[w] = "account"}

(* A thread that is registered and does not run.                           *)
Unborn(w) == w = accepted /\ (pc = "start" \/ unstarted)

(* TypeOK in two parts: the flags, and everything else.                    *)
Flags ==
    stop \in BOOLEAN /\ failed \in BOOLEAN /\ unstarted \in BOOLEAN /\ swept \in BOOLEAN

Shapes ==
    /\ pc \in Locked \cup {"spawn", "accept", "start", "over", "reap", "joining",
                           "residual", "result", "verdict", "done"}
    /\ lock \in {"free", "main"}
    /\ handler \in {"none", "closing", "done"}
    /\ exc \in {"none", "relay", "runtime"}
    /\ accepted \in 0..MaxConnections /\ active \in 0..MaxConnections
    /\ total \in Nat /\ threads \subseteq Worker
    /\ child \in {"none", "running", "exited"}
    /\ identity \in {1, 2} /\ swaps \in 0..MaxSwaps
    /\ worker \in [Worker -> {"idle", "check", "connect", "recheck", "pump",
                              "account", "finish", "leave", "ended"}]
    /\ route \in [Worker -> {0, 1, 2}] /\ bytes \in [Worker -> Nat]
    /\ outcome \in {"none", "raised", "failure", "signal", "child"}

-----------------------------------------------------------------------------
(* The inductive invariant.                                                *)

(* Where the main thread can be with a child, an exception, an outcome.    *)
SupervisionInv ==
    /\ pc = "spawn" => exc = "none"
    /\ child = "none" => pc = "spawn" \/ exc # "none"
    /\ unstarted =>
          /\ exc = "runtime"
          /\ pc \in {"unlisten", "close", "reap", "join", "joining", "residual",
                     "done"}
    /\ pc \in {"result", "verdict"} => exc = "none" /\ swept
    /\ pc = "verdict" => child # "running"
    /\ outcome # "none" => pc = "done"

(* Workers run in the order of their connections, and the registered       *)
(* threads are the ones that run, or the one about to.                     *)
ThreadInv ==
    /\ \A w \in Worker : w > accepted => worker[w] = "idle"
    /\ pc \in {"register", "start"} \/ unstarted =>
          accepted > 0 /\ worker[accepted] = "idle"
    /\ \A w \in Worker :
          w \in threads <=> worker[w] \notin {"idle", "ended"} \/ Unborn(w)
    /\ pc \in {"residual", "result", "verdict"} => threads = {} \/ failed

(* Which socket a worker's stream goes to.                                 *)
RouteInv ==
    /\ swaps <= 1 => identity = 1 + swaps
    /\ \A w \in Worker :
          /\ worker[w] \in {"idle", "check", "connect", "recheck"} => bytes[w] = 0
          /\ worker[w] = "recheck" => route[w] # 0
          /\ swaps = 0 => route[w] # 2
          /\ swaps <= 1 /\ (worker[w] \in {"pump", "account"} \/ bytes[w] > 0) =>
                route[w] = 1

(* active counts the busy workers and the connection without one.          *)
ActiveInv ==
    /\ active <= MaxConcurrent
    /\ active = Cardinality(Busy)
                + (IF pc \in {"register", "start"} \/ unstarted THEN 1 ELSE 0)

(* Over the total nobody reads another chunk: what the others had read     *)
(* already is all that can be added.                                       *)
TotalInv ==
    total > MaxTotal =>
        /\ failed /\ stop
        /\ total + Cardinality(Accounting) <= MaxTotal + MaxConcurrent

(* A clean end is final.                                                   *)
EndInv ==
    outcome \in {"child", "signal"} =>
        /\ ~ failed
        /\ \A w \in Worker : worker[w] \in {"idle", "ended"}
        /\ threads = {}
        /\ child = "exited" /\ swept /\ exc = "none" /\ swaps # 1

RelayInv ==
    /\ TypeOK /\ SupervisionInv /\ ThreadInv /\ RouteInv /\ ActiveInv /\ TotalInv
    /\ EndInv /\ GroupSwept

(* Every step leaves the four flags Boolean.                               *)
LEMMA FlagsStep ==
    ASSUME Flags, Next
    PROVE  Flags'
<1> USE DEF Flags, supervision, path, streams, shared, events
<1>1. CASE ChildExits \/ Swap \/ SignalArrives \/ HandlerCloses
  BY <1>1 DEF ChildExits, Swap, SignalArrives, HandlerCloses
<1>2. CASE Main
  <2> USE DEF MainAt, InSection
  <2>1. CASE MainAcquire \/ Spawn \/ Accept \/ AcceptEnds
    BY <2>1 DEF MainAcquire, Spawn, Accept, AcceptEnds
  <2>2. CASE BeginConnection \/ RegisterThread \/ StartThread
    BY <2>2 DEF BeginConnection, RegisterThread, StartThread
  <2>3. CASE Over \/ Unlisten \/ CloseSockets \/ Reap
    BY <2>3 DEF Over, Terminate, Unlisten, CloseSockets, Reap
  <2>4. CASE JoinThreads \/ Joining \/ Residual
    BY <2>4 DEF JoinThreads, Joining, Residual
  <2>5. CASE Result \/ Verdict
    BY <2>5 DEF Result, Terminate, Verdict
  <2> QED BY <1>2, <2>1, <2>2, <2>3, <2>4, <2>5 DEF Main
<1>3. ASSUME NEW w \in Worker, WorkerStep(w)
      PROVE  Flags'
  <2> USE DEF MainFrame, WorkerTo, FailUnlessStopped
  <2>1. CASE Check(w) \/ ConnectUpstream(w) \/ Relay(w) \/ StreamEnds(w)
    BY <2>1 DEF Check, ConnectUpstream, Relay, StreamEnds
  <2>2. CASE Account(w)
    BY <2>2 DEF Account
  <2>3. CASE FinishConnection(w) \/ UnregisterThread(w)
    BY <2>3 DEF FinishConnection, UnregisterThread
  <2> QED BY <1>3, <2>1, <2>2, <2>3 DEF WorkerStep
<1>4. CASE Done
  BY <1>4 DEF Done, vars
<1> QED BY <1>1, <1>2, <1>3, <1>4 DEF Next

(* Every step keeps the other types: a registered thread is a worker       *)
(* because a connection was counted before it.                             *)
LEMMA ShapesStep ==
    ASSUME Shapes, ThreadInv, Next
    PROVE  Shapes'
<1> USE DEF Shapes, Locked, supervision, path, streams, shared, events
<1>1. CASE ChildExits \/ Swap \/ SignalArrives \/ HandlerCloses
  BY <1>1 DEF ChildExits, Swap, SignalArrives, HandlerCloses
<1>2. CASE Main
  <2> USE DEF MainAt, InSection
  <2>1. CASE MainAcquire \/ Spawn \/ Accept \/ AcceptEnds
    BY <2>1 DEF MainAcquire, Spawn, Accept, AcceptEnds
  <2>2. CASE BeginConnection
    BY <2>2 DEF BeginConnection, HasRoom
  <2>3. CASE RegisterThread
    BY <2>3 DEF RegisterThread, ThreadInv, Worker
  <2>4. CASE StartThread
    BY <2>4 DEF StartThread
  <2>5. CASE Over \/ Unlisten \/ CloseSockets \/ Reap
    BY <2>5 DEF Over, Terminate, Unlisten, CloseSockets, Reap
  <2>6. CASE JoinThreads \/ Joining \/ Residual
    BY <2>6 DEF JoinThreads, Joining, Residual
  <2>7. CASE Result \/ Verdict
    BY <2>7 DEF Result, Terminate, Verdict
  <2> QED BY <1>2, <2>1, <2>2, <2>3, <2>4, <2>5, <2>6, <2>7 DEF Main
<1>3. ASSUME NEW w \in Worker, WorkerStep(w)
      PROVE  Shapes'
  <2> USE DEF MainFrame, WorkerTo, FailUnlessStopped
  <2>1. CASE Check(w) \/ ConnectUpstream(w)
    BY <2>1 DEF Check, ConnectUpstream
  <2>2. CASE Relay(w) \/ StreamEnds(w)
    BY <2>2 DEF Relay, StreamEnds
  <2>3. CASE Account(w)
    BY <2>3 DEF Account
  <2>4. CASE FinishConnection(w) \/ UnregisterThread(w)
    BY <2>4 DEF FinishConnection, UnregisterThread
  <2> QED BY <1>3, <2>1, <2>2, <2>3, <2>4 DEF WorkerStep
<1>4. CASE Done
  BY <1>4 DEF Done, vars
<1> QED BY <1>1, <1>2, <1>3, <1>4 DEF Next

(* The supervision part: only the main thread's steps and the child's      *)
(* exit can disturb it.                                                    *)
LEMMA SupervisionStep ==
    ASSUME Shapes, SupervisionInv, Next
    PROVE  SupervisionInv'
<1> USE DEF SupervisionInv, supervision, path, streams, shared, events
<1>1. CASE ChildExits \/ Swap \/ SignalArrives \/ HandlerCloses
  BY <1>1 DEF ChildExits, Swap, SignalArrives, HandlerCloses
<1>2. CASE Main
  <2> USE DEF MainAt, InSection
  <2>1. CASE MainAcquire \/ Spawn \/ Accept \/ AcceptEnds
    BY <2>1 DEF MainAcquire, Spawn, Accept, AcceptEnds, Locked
  <2>2. CASE BeginConnection \/ RegisterThread \/ StartThread
    BY <2>2 DEF BeginConnection, RegisterThread, StartThread
  <2>3. CASE Over \/ Unlisten \/ CloseSockets \/ Reap
    BY <2>3 DEF Over, Terminate, Unlisten, CloseSockets, Reap
  <2>4. CASE JoinThreads \/ Joining
    BY <2>4 DEF JoinThreads, Joining
  <2>5. CASE Residual
    <3>1. exc = "none" => swept'
      BY <2>5 DEF Residual
    <3> QED BY <2>5, <3>1 DEF Residual
  <2>6. CASE Result \/ Verdict
    BY <2>6 DEF Result, Terminate, Verdict
  <2> QED BY <1>2, <2>1, <2>2, <2>3, <2>4, <2>5, <2>6 DEF Main
<1>3. ASSUME NEW w \in Worker, WorkerStep(w)
      PROVE  SupervisionInv'
  BY <1>3 DEF WorkerStep, MainFrame, Check, ConnectUpstream, Relay, Account,
              StreamEnds, FinishConnection, UnregisterThread
<1>4. CASE Done
  BY <1>4 DEF Done, vars
<1> QED BY <1>1, <1>2, <1>3, <1>4 DEF Next

(* The two events are never cleared.                                       *)
LEMMA LatchStep ==
    ASSUME Next
    PROVE  (failed => failed') /\ (stop => stop')
<1> USE DEF events
<1>1. CASE ChildExits \/ Swap \/ SignalArrives \/ HandlerCloses
  BY <1>1 DEF ChildExits, Swap, SignalArrives, HandlerCloses
<1>2. CASE Main
  <2>1. CASE MainAcquire \/ Spawn \/ Accept \/ AcceptEnds
    BY <2>1 DEF MainAcquire, Spawn, Accept, AcceptEnds
  <2>2. CASE BeginConnection \/ RegisterThread \/ StartThread
    BY <2>2 DEF BeginConnection, RegisterThread, StartThread
  <2>3. CASE Over \/ Unlisten \/ CloseSockets \/ Reap
    BY <2>3 DEF Over, Terminate, Unlisten, CloseSockets, Reap
  <2>4. CASE JoinThreads \/ Joining \/ Residual
    BY <2>4 DEF JoinThreads, Joining, Residual
  <2>5. CASE Result
    BY <2>5 DEF Result
  <2>6. CASE Verdict
    BY <2>6 DEF Verdict
  <2> QED BY <1>2, <2>1, <2>2, <2>3, <2>4, <2>5, <2>6 DEF Main
<1>3. ASSUME NEW w \in Worker, WorkerStep(w)
      PROVE  (failed => failed') /\ (stop => stop')
  <2>1. CASE Check(w) \/ ConnectUpstream(w)
    <3>1. UNCHANGED events \/ FailUnlessStopped
      BY <2>1 DEF Check, ConnectUpstream
    <3>2. FailUnlessStopped => (failed => failed') /\ (stop => stop')
      BY DEF FailUnlessStopped
    <3> QED BY <3>1, <3>2
  <2>2. CASE Relay(w) \/ StreamEnds(w)
    BY <2>2 DEF Relay, StreamEnds
  <2>3. CASE Account(w)
    BY <2>3 DEF Account
  <2>4. CASE FinishConnection(w) \/ UnregisterThread(w)
    BY <2>4 DEF FinishConnection, UnregisterThread
  <2> QED BY <1>3, <2>1, <2>2, <2>3, <2>4 DEF WorkerStep
<1>4. CASE Done
  BY <1>4 DEF Done, vars
<1> QED BY <1>1, <1>2, <1>3, <1>4 DEF Next

(* The threads: a worker leaves the set and ends in one step, and the main *)
(* thread registers the one it is about to start.                          *)
LEMMA ThreadStep ==
    ASSUME Shapes, SupervisionInv, ThreadInv, Next
    PROVE  ThreadInv'
<1> USE DEF ThreadInv, Unborn, Shapes, supervision, path, streams, shared, events
<1>1. CASE ChildExits \/ Swap \/ SignalArrives \/ HandlerCloses
  BY <1>1 DEF ChildExits, Swap, SignalArrives, HandlerCloses
<1>2. CASE Main
  <2> USE DEF MainAt, InSection, SupervisionInv
  <2>1. CASE MainAcquire \/ Spawn \/ Accept \/ AcceptEnds
    BY <2>1 DEF MainAcquire, Spawn, Accept, AcceptEnds, Locked
  <2>2. CASE BeginConnection
    BY <2>2 DEF BeginConnection, HasRoom, Worker
  <2>3. CASE RegisterThread
    BY <2>3 DEF RegisterThread, Worker
  <2>4. CASE StartThread
    BY <2>4 DEF StartThread, Worker
  <2>5. CASE Over \/ Unlisten \/ CloseSockets \/ Reap
    BY <2>5 DEF Over, Terminate, Unlisten, CloseSockets, Reap
  <2>6. CASE JoinThreads \/ Joining \/ Residual
    BY <2>6 DEF JoinThreads, Joining, Residual
  <2>7. CASE Result \/ Verdict
    BY <2>7 DEF Result, Terminate, Verdict
  <2> QED BY <1>2, <2>1, <2>2, <2>3, <2>4, <2>5, <2>6, <2>7 DEF Main
<1>3. ASSUME NEW w \in Worker, WorkerStep(w)
      PROVE  ThreadInv'
  <2> USE DEF MainFrame, WorkerTo
  <2> failed => failed'
    BY LatchStep
  <2>1. CASE ~ UnregisterThread(w)
    <3>1. PICK p \in {"connect", "pump", "recheck", "account", "finish", "leave"} :
             WorkerTo(w, p)
      BY <1>3, <2>1 DEF WorkerStep, Check, ConnectUpstream, Relay, Account,
                        StreamEnds, FinishConnection
    <3>2. worker[w] \notin {"idle", "ended"}
      BY <1>3, <2>1 DEF WorkerStep, Check, ConnectUpstream, Relay, Account,
                        StreamEnds, FinishConnection
    <3>3. MainFrame /\ UNCHANGED threads
      BY <1>3, <2>1 DEF WorkerStep, Check, ConnectUpstream, Relay, Account,
                        StreamEnds, FinishConnection
    <3> QED BY <3>1, <3>2, <3>3
  <2>2. CASE UnregisterThread(w)
    BY <2>2 DEF UnregisterThread
  <2> QED BY <2>1, <2>2
<1>4. CASE Done
  BY <1>4 DEF Done, vars
<1> QED BY <1>1, <1>2, <1>3, <1>4 DEF Next

(* The routes: while the path was replaced at most once, a worker that     *)
(* passed its second check is connected to the first socket.               *)
LEMMA RouteStep ==
    ASSUME Shapes, ThreadInv, RouteInv, Next
    PROVE  RouteInv'
<1> USE DEF RouteInv, Shapes, supervision, path, streams, shared, events
<1>1. CASE ChildExits \/ SignalArrives \/ HandlerCloses \/ Done
  BY <1>1 DEF ChildExits, SignalArrives, HandlerCloses, Done, vars
<1>2. CASE Swap
  BY <1>2 DEF Swap
<1>3. CASE Main
  <2>1. CASE StartThread
    BY <2>1 DEF StartThread, ThreadInv, MainAt
  <2>2. CASE ~ StartThread
    BY <1>3, <2>2 DEF Main, MainAcquire, Spawn, Accept, AcceptEnds,
          BeginConnection, RegisterThread, Over, Unlisten, CloseSockets, Reap,
          JoinThreads, Joining, Residual, Result, Verdict
  <2> QED BY <2>1, <2>2
<1>4. ASSUME NEW w \in Worker, WorkerStep(w)
      PROVE  RouteInv'
  <2> USE DEF MainFrame, WorkerTo, FailUnlessStopped
  <2>1. CASE Check(w)
    BY <2>1 DEF Check
  <2>2. CASE ConnectUpstream(w)
    BY <2>2 DEF ConnectUpstream
  <2>3. CASE Relay(w) \/ StreamEnds(w)
    BY <2>3 DEF Relay, StreamEnds
  <2>4. CASE Account(w)
    BY <2>4 DEF Account
  <2>5. CASE FinishConnection(w) \/ UnregisterThread(w)
    BY <2>5 DEF FinishConnection, UnregisterThread
  <2> QED BY <1>4, <2>1, <2>2, <2>3, <2>4, <2>5 DEF WorkerStep
<1> QED BY <1>1, <1>2, <1>3, <1>4 DEF Next

(* There are finitely many workers, so the busy ones and those about to    *)
(* account can be counted.                                                 *)
LEMMA WorkersCounted ==
    /\ IsFiniteSet(Busy) /\ Cardinality(Busy) \in Nat
    /\ IsFiniteSet(Accounting) /\ Cardinality(Accounting) \in Nat
    /\ Cardinality(Accounting) <= Cardinality(Busy)
<1>1. IsFiniteSet(Worker)
  BY FS_Interval DEF Worker
<1>2. Busy \subseteq Worker /\ Accounting \subseteq Busy
  BY DEF Busy, Accounting
<1>3. IsFiniteSet(Busy)
  BY <1>1, <1>2, FS_Subset
<1> QED BY <1>2, <1>3, FS_Subset, FS_CardinalityType

(* active follows the busy workers: a connection is counted before its     *)
(* thread exists and given back when its worker finishes.                  *)
LEMMA ActiveStep ==
    ASSUME Shapes, SupervisionInv, ThreadInv, ActiveInv, Next
    PROVE  ActiveInv'
<1> USE DEF supervision, path, streams, shared, events
<1>1. CASE ChildExits \/ Swap \/ SignalArrives \/ HandlerCloses \/ Done
  BY <1>1 DEF ChildExits, Swap, SignalArrives, HandlerCloses, Done, vars,
              ActiveInv, Busy
<1>2. CASE Main
  <2> USE DEF MainAt, InSection
  <2>1. CASE BeginConnection
    <3>1. Busy' = Busy
      BY <2>1 DEF BeginConnection, Busy
    <3> QED BY <2>1, <3>1, WorkersCounted
            DEF BeginConnection, HasRoom, ActiveInv, Shapes, SupervisionInv
  <2>2. CASE RegisterThread
    BY <2>2 DEF RegisterThread, ActiveInv, Busy
  <2>3. CASE StartThread
    <3>1. accepted \in Worker /\ worker[accepted] = "idle"
      BY <2>3 DEF StartThread, ThreadInv, Shapes, Worker
    <3>2. CASE WorkerTo(accepted, "check") /\ pc' = "accept" /\ UNCHANGED unstarted
      <4>1. Busy' = Busy \cup {accepted} /\ accepted \notin Busy
        BY <3>1, <3>2 DEF WorkerTo, Busy, Shapes
      <4>2. Cardinality(Busy') = Cardinality(Busy) + 1
        BY <4>1, WorkersCounted, FS_AddElement
      <4> QED BY <2>3, <3>2, <4>2, WorkersCounted
              DEF StartThread, ActiveInv, SupervisionInv
    <3>3. CASE unstarted' /\ pc' = "unlisten" /\ UNCHANGED worker
      BY <2>3, <3>3 DEF StartThread, ActiveInv, Busy
    <3> QED BY <2>3, <3>2, <3>3 DEF StartThread, WorkerTo
  <2>4. CASE ~ (BeginConnection \/ RegisterThread \/ StartThread)
    <3>1. UNCHANGED <<worker, active, unstarted>>
      BY <1>2, <2>4 DEF Main, MainAcquire, Spawn, Accept, AcceptEnds, Over,
            Unlisten, CloseSockets, Reap, JoinThreads, Joining, Residual, Result,
            Verdict
    <3>2. pc \in {"register", "start"} <=> pc' \in {"register", "start"}
      BY <1>2, <2>4 DEF Main, MainAcquire, Spawn, Accept, AcceptEnds, Over,
            Unlisten, CloseSockets, Reap, JoinThreads, Joining, Residual, Result,
            Verdict, Terminate
    <3> QED BY <3>1, <3>2 DEF ActiveInv, Busy
  <2> QED BY <2>1, <2>2, <2>3, <2>4
<1>3. ASSUME NEW w \in Worker, WorkerStep(w)
      PROVE  ActiveInv'
  <2> USE DEF MainFrame, WorkerTo
  <2>1. CASE FinishConnection(w)
    <3>1. Busy' = Busy \ {w} /\ w \in Busy
      BY <2>1 DEF FinishConnection, Busy, Shapes
    <3>2. Cardinality(Busy') = Cardinality(Busy) - 1
      BY <3>1, WorkersCounted, FS_RemoveElement
    <3>3. Cardinality(Busy) > 0
      BY <3>1, WorkersCounted, FS_EmptySet
    <3> QED BY <2>1, <3>2, <3>3, WorkersCounted
            DEF FinishConnection, ActiveInv, Shapes
  <2>2. CASE UnregisterThread(w)
    <3>1. Busy' = Busy
      BY <2>2 DEF UnregisterThread, Busy, Shapes
    <3> QED BY <2>2, <3>1 DEF UnregisterThread, ActiveInv
  <2>3. CASE ~ (FinishConnection(w) \/ UnregisterThread(w))
    <3>1. PICK p \in {"connect", "pump", "recheck", "account", "finish"} :
             WorkerTo(w, p)
      BY <1>3, <2>3 DEF WorkerStep, Check, ConnectUpstream, Relay, Account,
                        StreamEnds
    <3>2. worker[w] \notin {"idle", "leave", "ended"}
      BY <1>3, <2>3 DEF WorkerStep, Check, ConnectUpstream, Relay, Account,
                        StreamEnds
    <3>3. MainFrame /\ UNCHANGED active
      BY <1>3, <2>3 DEF WorkerStep, Check, ConnectUpstream, Relay, Account,
                        StreamEnds
    <3>4. Busy' = Busy
      BY <3>1, <3>2 DEF Busy, Shapes
    <3> QED BY <3>3, <3>4 DEF ActiveInv
  <2> QED BY <2>1, <2>2, <2>3
<1> QED BY <1>1, <1>2, <1>3 DEF Next

(* total goes past its limit by at most what was already read: a worker    *)
(* reads only while stop is clear, and an exceeded total sets it.          *)
LEMMA TotalStep ==
    ASSUME Shapes, ThreadInv, ActiveInv, TotalInv, Next
    PROVE  TotalInv'
<1> USE DEF supervision, path, streams, shared, events
<1>1. (failed => failed') /\ (stop => stop')
  BY LatchStep
<1>2. CASE ChildExits \/ Swap \/ SignalArrives \/ HandlerCloses \/ Done
  <2>1. UNCHANGED <<worker, total>>
    BY <1>2 DEF ChildExits, Swap, SignalArrives, HandlerCloses, Done, vars
  <2> QED BY <1>1, <2>1 DEF TotalInv, Accounting
<1>3. CASE Main
  <2>1. UNCHANGED total
    BY <1>3 DEF Main, MainAcquire, Spawn, Accept, AcceptEnds, BeginConnection,
          RegisterThread, StartThread, Over, Unlisten, CloseSockets, Reap,
          JoinThreads, Joining, Residual, Result, Verdict
  <2>2. Accounting' = Accounting
    <3>1. CASE StartThread
      BY <3>1 DEF StartThread, MainAt, ThreadInv, Accounting, Shapes
    <3>2. CASE ~ StartThread
      BY <1>3, <3>2 DEF Main, MainAcquire, Spawn, Accept, AcceptEnds,
            BeginConnection, RegisterThread, Over, Unlisten, CloseSockets, Reap,
            JoinThreads, Joining, Residual, Result, Verdict, Accounting
    <3> QED BY <3>1, <3>2
  <2> QED BY <1>1, <2>1, <2>2 DEF TotalInv
<1>4. ASSUME NEW w \in Worker, WorkerStep(w)
      PROVE  TotalInv'
  <2> USE DEF WorkerTo
  <2>1. CASE Relay(w)
    <3>1. ~ (total > MaxTotal) /\ total' = total
      BY <2>1 DEF Relay, TotalInv
    <3> QED BY <3>1 DEF TotalInv
  <2>2. CASE Account(w)
    <3>1. Accounting' = Accounting \ {w} /\ w \in Accounting
      BY <2>2 DEF Account, Accounting, Shapes
    <3>2. Cardinality(Accounting') = Cardinality(Accounting) - 1
      BY <3>1, WorkersCounted, FS_RemoveElement
    <3>3. Cardinality(Accounting) <= MaxConcurrent
      BY WorkersCounted DEF ActiveInv, Shapes
    <3>4. CASE total' = total
      BY <1>1, <3>2, <3>4, WorkersCounted DEF TotalInv, Shapes
    <3>5. CASE total' = total + 1
      <4>1. total + 1 > MaxTotal => failed' /\ stop'
        BY <2>2, <3>5 DEF Account, Shapes
      <4>2. total + 1 > MaxTotal =>
               total + Cardinality(Accounting) <= MaxTotal + MaxConcurrent
        BY <3>3, WorkersCounted DEF TotalInv, Shapes
      <4> QED BY <3>2, <3>5, <4>1, <4>2, WorkersCounted DEF TotalInv, Shapes
    <3> QED BY <2>2, <3>4, <3>5 DEF Account
  <2>3. CASE ~ (Relay(w) \/ Account(w))
    <3>1. UNCHANGED total
      BY <1>4, <2>3 DEF WorkerStep, Check, ConnectUpstream, StreamEnds,
                        FinishConnection, UnregisterThread
    <3>2. PICK p \in {"connect", "pump", "recheck", "finish", "leave", "ended"} :
             WorkerTo(w, p)
      BY <1>4, <2>3 DEF WorkerStep, Check, ConnectUpstream, StreamEnds,
                        FinishConnection, UnregisterThread
    <3>3. worker[w] # "account"
      BY <1>4, <2>3 DEF WorkerStep, Check, ConnectUpstream, StreamEnds,
                        FinishConnection, UnregisterThread
    <3>4. Accounting' = Accounting
      BY <3>2, <3>3 DEF Accounting, Shapes
    <3> QED BY <1>1, <3>1, <3>4 DEF TotalInv
  <2> QED BY <2>1, <2>2, <2>3
<1> QED BY <1>2, <1>3, <1>4 DEF Next

(* A step that is not the last one of run() leaves the outcome open, or    *)
(* reports a failure or an error.                                          *)
LEMMA OutcomeStep ==
    ASSUME Next, ~ Verdict, SupervisionInv
    PROVE  outcome' \in {"child", "signal"} => outcome' = outcome
<1> USE DEF supervision, path, streams, shared, events
<1>1. CASE Main
  BY <1>1 DEF Main, MainAcquire, Spawn, Accept, AcceptEnds, BeginConnection,
        RegisterThread, StartThread, Over, Unlisten, CloseSockets, Reap,
        JoinThreads, Joining, Residual, Result, Terminate
<1>2. CASE ~ Main
  BY <1>2 DEF Next, ChildExits, Swap, SignalArrives, HandlerCloses, Done, vars,
        WorkerStep, MainFrame, Check, ConnectUpstream, Relay, Account,
        StreamEnds, FinishConnection, UnregisterThread
<1> QED BY <1>1, <1>2

(* Once run() ended with the child's code or the signal nothing moves.     *)
LEMMA EndStep ==
    ASSUME Shapes, SupervisionInv, ThreadInv, RouteInv, EndInv, Next
    PROVE  EndInv'
<1> USE DEF supervision, path, streams, shared, events
<1>1. SUFFICES ASSUME outcome' \in {"child", "signal"}
               PROVE  /\ ~ failed'
                      /\ \A w \in Worker : worker'[w] \in {"idle", "ended"}
                      /\ threads' = {}
                      /\ child' = "exited" /\ swept' /\ exc' = "none" /\ swaps' # 1
  BY DEF EndInv
<1>2. CASE Verdict
  <2>1. ~ failed' /\ ~ failed /\ identity = 1
    BY <1>1, <1>2 DEF Verdict
  <2>2. threads = {}
    BY <1>2, <2>1 DEF Verdict, ThreadInv
  <2>3. \A w \in Worker : worker[w] \in {"idle", "ended"}
    BY <2>2 DEF ThreadInv
  <2>4. swept /\ exc = "none" /\ child = "exited"
    BY <1>2 DEF Verdict, SupervisionInv, Shapes
  <2>5. swaps # 1
    BY <2>1 DEF RouteInv
  <2>6. UNCHANGED <<worker, threads, child, swept, exc, swaps>>
    BY <1>2 DEF Verdict
  <2> QED BY <2>1, <2>2, <2>3, <2>4, <2>5, <2>6
<1>3. CASE ~ Verdict
  <2>1. outcome \in {"child", "signal"}
    BY <1>1, <1>3, OutcomeStep
  <2>2. pc = "done" /\ ~ failed /\ child = "exited" /\ swept /\ threads = {}
        /\ exc = "none" /\ swaps # 1
    BY <2>1 DEF SupervisionInv, EndInv
  <2>3. \A w \in Worker : worker[w] \in {"idle", "ended"}
    BY <2>1 DEF EndInv
  <2>4. ~ Main
    BY <2>2 DEF Main, MainAt, InSection, Locked, MainAcquire, Spawn, Accept,
          AcceptEnds, BeginConnection, RegisterThread, StartThread, Over,
          Unlisten, CloseSockets, Reap, JoinThreads, Joining, Residual, Result,
          Verdict
  <2>5. ASSUME NEW w \in Worker PROVE ~ WorkerStep(w)
    BY <2>3 DEF WorkerStep, Check, ConnectUpstream, Relay, Account, StreamEnds,
          FinishConnection, UnregisterThread
  <2>6. HandlerCloses \/ Done
    BY <2>1, <2>2, <2>4, <2>5 DEF Next, ChildExits, Swap, SignalArrives
  <2>7. UNCHANGED <<worker, threads, child, swept, exc, swaps, failed>>
    BY <2>6 DEF HandlerCloses, Done, vars
  <2> QED BY <2>2, <2>3, <2>7
<1> QED BY <1>2, <1>3

(* Every way out of run() passes the sweep, but for the error of a thread  *)
(* that cannot be joined.                                                  *)
LEMMA SweepStep ==
    ASSUME Shapes, SupervisionInv, GroupSwept, Next
    PROVE  GroupSwept'
<1> USE DEF supervision, path, streams, shared, events
<1>1. CASE Main
  <2> USE DEF MainAt, InSection
  <2>1. CASE Residual
    <3>1. child' # "none" => swept'
      BY <2>1 DEF Residual
    <3> QED BY <3>1 DEF GroupSwept
  <2>2. CASE JoinThreads
    <3>1. outcome = "none"
      BY <2>2 DEF JoinThreads, SupervisionInv
    <3> QED BY <2>2, <3>1 DEF JoinThreads, GroupSwept
  <2>3. CASE Result \/ Verdict
    <3>1. swept'
      BY <2>3 DEF Result, Verdict, SupervisionInv
    <3> QED BY <3>1 DEF GroupSwept
  <2>4. CASE ~ (Residual \/ JoinThreads \/ Result \/ Verdict)
    <3>1. outcome = "none"
      BY <1>1, <2>4 DEF Main, MainAcquire, Locked, Spawn, Accept, AcceptEnds,
            BeginConnection, RegisterThread, StartThread, Over, Unlisten,
            CloseSockets, Reap, Joining, SupervisionInv
    <3>2. UNCHANGED outcome
      BY <1>1, <2>4 DEF Main, MainAcquire, Spawn, Accept, AcceptEnds,
            BeginConnection, RegisterThread, StartThread, Over, Unlisten,
            CloseSockets, Reap, Joining
    <3> QED BY <3>1, <3>2 DEF GroupSwept
  <2> QED BY <2>1, <2>2, <2>3, <2>4
<1>2. CASE ~ Main
  <2>1. UNCHANGED <<outcome, swept, unstarted>> /\ (child' # "none" => child # "none")
    BY <1>2 DEF Next, ChildExits, Swap, SignalArrives, HandlerCloses, Done, vars,
          WorkerStep, MainFrame, Check, ConnectUpstream, Relay, Account,
          StreamEnds, FinishConnection, UnregisterThread
  <2> QED BY <2>1 DEF GroupSwept
<1> QED BY <1>1, <1>2

(* TypeOK is its two parts.                                                *)
LEMMA TypeParts == TypeOK <=> Flags /\ Shapes
<1>1. TypeOK => Flags
  BY DEF TypeOK, Flags
<1>2. TypeOK => Shapes
  BY DEF TypeOK, Shapes
<1>3. Flags /\ Shapes => TypeOK
  BY Zenon DEF TypeOK, Flags, Shapes
<1> QED BY <1>1, <1>2, <1>3

(* The whole invariant holds when run() starts.                            *)
LEMMA RelayInit == Init => RelayInv
<1> SUFFICES ASSUME Init PROVE RelayInv
  OBVIOUS
<1>1. Flags
  BY DEF Init, Flags
<1>2. Shapes
  BY DEF Init, Shapes
<1>3. SupervisionInv /\ EndInv /\ GroupSwept
  BY DEF Init, SupervisionInv, EndInv, GroupSwept
<1>4. ThreadInv
  BY DEF Init, ThreadInv, Unborn
<1>5. RouteInv
  BY DEF Init, RouteInv
<1>6. ActiveInv
  <2>1. Busy = {}
    BY DEF Init, Busy
  <2>2. Cardinality(Busy) = 0
    BY <2>1, FS_EmptySet
  <2> QED BY <2>2 DEF Init, ActiveInv
<1>7. TotalInv
  BY DEF Init, TotalInv
<1> QED BY <1>1, <1>2, <1>3, <1>4, <1>5, <1>6, <1>7, TypeParts DEF RelayInv

(* The invariant holds in every reachable state of the relay.              *)
THEOREM RelayInvariant == Spec => []RelayInv
<1>1. RelayInv /\ [Next]_vars => RelayInv'
  <2> SUFFICES ASSUME RelayInv, [Next]_vars PROVE RelayInv'
    OBVIOUS
  <2>1. CASE Next
    <3>1. Flags' /\ Shapes'
      BY <2>1, FlagsStep, ShapesStep, TypeParts DEF RelayInv
    <3>2. TypeOK'
      <4>1. (TypeOK <=> Flags /\ Shapes)'
        BY TypeParts, PTL
      <4> QED BY <3>1, <4>1
    <3> QED BY <2>1, <3>2, TypeParts, SupervisionStep, ThreadStep, RouteStep,
               ActiveStep, TotalStep, EndStep, SweepStep DEF RelayInv
  <2>2. CASE UNCHANGED vars
    <3> USE <2>2 DEF vars, supervision, path, streams, shared, events
    <3>1. TypeOK' /\ SupervisionInv' /\ EndInv' /\ GroupSwept'
      BY DEF RelayInv, TypeOK, SupervisionInv, EndInv, GroupSwept
    <3>2. ThreadInv' /\ RouteInv' /\ ActiveInv' /\ TotalInv'
      BY DEF RelayInv, ThreadInv, Unborn, RouteInv, ActiveInv, Busy, TotalInv,
             Accounting
    <3> QED BY <3>1, <3>2 DEF RelayInv
  <2> QED BY <2>1, <2>2
<1> QED BY RelayInit, <1>1, PTL DEF Spec

-----------------------------------------------------------------------------
(* What the runs check, for every limit.                                   *)

(* Every variable keeps its type.                                          *)
THEOREM RelayTypeCorrect == Spec => []TypeOK
<1>1. RelayInv => TypeOK
  BY DEF RelayInv
<1> QED BY <1>1, RelayInvariant, PTL

(* run() reports the child's code or the signal only after everything      *)
(* ended well: no failure, no thread, no connection, the child gone and    *)
(* its group swept.                                                        *)
THEOREM RelayCodeIsClean == Spec => []OwnCodeMeansClean
<1>1. RelayInv => OwnCodeMeansClean
  <2> SUFFICES ASSUME RelayInv, outcome \in {"child", "signal"}
               PROVE  /\ ~ failed /\ total <= MaxTotal
                      /\ \A w \in Worker : worker[w] \in {"idle", "ended"}
                      /\ threads = {} /\ active = 0
                      /\ child = "exited" /\ swept
    BY DEF OwnCodeMeansClean
  <2>1. /\ ~ failed /\ threads = {} /\ child = "exited" /\ swept /\ exc = "none"
        /\ \A w \in Worker : worker[w] \in {"idle", "ended"}
    BY DEF RelayInv, EndInv
  <2>2. total <= MaxTotal
    BY <2>1 DEF RelayInv, TotalInv, TypeOK
  <2>3. active = 0
    <3>1. Busy = {}
      BY <2>1 DEF Busy
    <3>2. Cardinality(Busy) = 0
      BY <3>1, FS_EmptySet
    <3>3. pc \notin {"register", "start"} /\ ~ unstarted
      BY <2>1 DEF RelayInv, SupervisionInv
    <3> QED BY <3>2, <3>3 DEF RelayInv, ActiveInv
  <2> QED BY <2>1, <2>2, <2>3
<1> QED BY <1>1, RelayInvariant, PTL

(* While the path was replaced at most once, no byte reaches another       *)
(* socket than the one validated at the start; and a path that stays       *)
(* replaced is never reported as a pass.                                   *)
THEOREM RelayRoutesGuarded == Spec => []NoForeignRoute
<1>1. RelayInv => NoForeignRoute
  BY DEF RelayInv, RouteInv, EndInv, NoForeignRoute
<1> QED BY <1>1, RelayInvariant, PTL

(* Connections and bytes stay within their limits, for every limit: past   *)
(* the total at most one chunk per concurrent connection is added.         *)
THEOREM RelayLimits == Spec => []LimitsHold
<1>1. RelayInv => LimitsHold
  <2> SUFFICES ASSUME RelayInv PROVE LimitsHold
    OBVIOUS
  <2>1. total <= MaxTotal + MaxConcurrent /\ (total > MaxTotal => failed /\ stop)
    BY WorkersCounted DEF RelayInv, TotalInv, TypeOK
  <2> QED BY <2>1 DEF RelayInv, ActiveInv, Busy, LimitsHold
<1> QED BY <1>1, RelayInvariant, PTL

(* However run() ends, the child's process group was swept, unless a       *)
(* thread could not be started.                                            *)
THEOREM RelayGroupSwept == Spec => []GroupSwept
<1>1. RelayInv => GroupSwept
  BY DEF RelayInv
<1> QED BY <1>1, RelayInvariant, PTL
=============================================================================
