------------------------------ MODULE Campaign ------------------------------
(* One audit campaign: concurrent model requests, the retry loop of the      *)
(* provider client, the budget manager, the cost ledger and the scheduler    *)
(* journal, over several processes.  What the ledger and the journal do      *)
(* inside one call is modelled by CostLedger and SchedulerJournal; here each *)
(* of their calls is one step and a process may die between any two steps.   *)
EXTENDS BudgetManager

CONSTANT MaxRuns    \* bound: processes that work on the campaign

ASSUME RunsAssumption == MaxRuns \in Nat \ {0}
(* Tasks are numbered in the order the pipeline awaits them.                 *)
ASSUME TaskAssumption == Task \subseteq Nat /\ IsFiniteSet(Task)

VARIABLES
    phase,      \* journal: last event of each task
    terminal,   \* journal: credited terminal status of each task
    usage,      \* journal: retained usage record of each task
    mode,       \* "live", "down", "recovering" or "unrestored"
    pc,         \* where the coroutine of each task stands
    local,      \* its local variables: a usage record in the making
    senders,    \* the processes that sent each attempt
    run         \* the number of this process

journal == <<phase, terminal, usage>>
vars == <<ledger, budget, journal, mode, pc, local, senders, run>>

Phase == {"PLANNED", "ACTIVATED", "DISPATCHED", "TERMINAL"}
Terminals == {"SUCCEEDED", "FAILED", "UNCERTAIN"}
Location == {"idle", "reserving", "reserved", "sending", "waiting", "completed",
             "failed", "errored", "retained", "done"}

Init ==
    /\ ledger = NoEntries
    /\ budget = NewManager(NoEntries)
    /\ phase = [t \in Task |-> "PLANNED"]
    /\ terminal = [t \in Task |-> "none"]
    /\ usage = [t \in Task |-> NoUsage]
    /\ mode = "live"
    /\ pc = [t \in Task |-> "idle"]
    /\ local = [t \in Task |-> NoUsage]
    /\ senders = [id \in RequestId |-> {}]
    /\ run = 1

-----------------------------------------------------------------------------
(* The request loop of the provider client.                                  *)

(* The passes run; in an unrestored process without the scheduler as the     *)
(* client's lifecycle observer, so that no request journals anything.        *)
At(t, place) == mode \in {"live", "unrestored"} /\ pc[t] = place
Goto(t, place) == pc' = [pc EXCEPT ![t] = place]

(* The attempt being made, and the one about to be reserved.                 *)
This(t) == <<t, local[t].attempts>>
Following(t) == <<t, local[t].attempts + 1>>

(* request_ready: the activation is durable before anything is reserved.  A  *)
(* resumed task presents the activation it already has.                      *)
request_ready(t) ==
    /\ At(t, "idle")
    /\ phase[t] \in {"PLANNED", "ACTIVATED"}
    /\ phase' = IF mode = "live" THEN [phase EXCEPT ![t] = "ACTIVATED"] ELSE phase
    /\ Goto(t, "reserving")
    /\ UNCHANGED <<ledger, budget, terminal, usage, mode, local, senders, run>>

(* The context or the token plan does not fit: before the activation, or     *)
(* after it and before any reservation.                                      *)
PlanningFails(t) ==
    /\ \/ At(t, "idle") /\ phase[t] = "PLANNED"
       \/ At(t, "reserving") /\ local[t].attempts = 0
    /\ Goto(t, "failed")
    /\ UNCHANGED <<ledger, budget, journal, mode, local, senders, run>>

(* budget.reserve for the next attempt.                                      *)
ReserveAttempt(t) ==
    /\ At(t, "reserving")
    /\ Reserve(Following(t))
    /\ Goto(t, "reserved")
    /\ UNCHANGED <<journal, mode, local, senders, run>>

(* BudgetExhaustedError is recorded as the failure of the task; any other    *)
(* error is one that nobody handles.                                         *)
ReserveRefused(t) ==
    /\ At(t, "reserving")
    /\ \/ WrongState(Following(t)) /\ Goto(t, "errored")
       \/ ~WrongState(Following(t)) /\ ~Affordable(Following(t)) /\ Goto(t, "failed")
    /\ UNCHANGED <<ledger, budget, journal, mode, local, senders, run>>

(* A check between reservation and transport fails: release_active.          *)
PreTransportFails(t) ==
    /\ At(t, "reserved")
    /\ Release(Following(t))
    /\ Goto(t, "failed")
    /\ UNCHANGED <<journal, mode, local, senders, run>>

(* Fault: the transport may be entered before the dispatch is durable.       *)
EnterWithoutDispatch(t) ==
    /\ At(t, "reserved")
    /\ local' = [local EXCEPT ![t].attempts = @ + 1]
    /\ Goto(t, "sending")
    /\ UNCHANGED <<ledger, budget, journal, mode, senders, run>>

(* The attempt counts from here; the first one is journalled as dispatched.  *)
EnterTransport(t) ==
    /\ At(t, "reserved")
    /\ local' = [local EXCEPT ![t].attempts = @ + 1]
    /\ phase' = IF mode = "live" THEN [phase EXCEPT ![t] = "DISPATCHED"] ELSE phase
    /\ Goto(t, "sending")
    /\ UNCHANGED <<ledger, budget, terminal, usage, mode, senders, run>>

(* The dispatch cannot be journalled: the reservation is given back, and the *)
(* journal's error is one that nobody handles.                               *)
DispatchFails(t) ==
    /\ At(t, "reserved")
    /\ local[t].attempts = 0
    /\ local' = [local EXCEPT ![t].attempts = 1]
    /\ Release(Following(t))
    /\ Goto(t, "errored")
    /\ UNCHANGED <<journal, mode, senders, run>>

Send(t) ==
    /\ At(t, "sending")
    /\ senders' = [senders EXCEPT ![This(t)] = @ \cup {run}]
    /\ Goto(t, "waiting")
    /\ UNCHANGED <<ledger, budget, journal, mode, local, run>>

(* Fault: the record keeps only the charge of the last attempt.              *)
BookedLastOnly(t, actual, tokens) ==
    [local[t] EXCEPT !.accounted = AccountedCost(CostOf[t], actual),
                     !.reported = actual,
                     !.tokens = tokens]

(* The record of the task after an attempt that is accounted at this cost.   *)
Booked(t, actual, tokens) ==
    [local[t] EXCEPT !.accounted = @ + AccountedCost(CostOf[t], actual),
                     !.reported = actual,
                     !.tokens = tokens]

(* Timeouts and retryable statuses: the charge is unknown and accounted in   *)
(* full, then the loop goes on or gives up.                                  *)
RetryableFailure(t) ==
    /\ At(t, "waiting")
    /\ Reconcile(This(t), Unknown, TokensOf[t])
    /\ local' = [local EXCEPT ![t] = Booked(t, Unknown, 0)]
    /\ Goto(t, IF local[t].attempts >= MaxAttempts THEN "failed" ELSE "reserving")
    /\ UNCHANGED <<journal, mode, senders, run>>

(* Any other status or transport error.                                      *)
Rejected(t) ==
    /\ At(t, "waiting")
    /\ Reconcile(This(t), Unknown, TokensOf[t])
    /\ local' = [local EXCEPT ![t] = Booked(t, Unknown, 0)]
    /\ Goto(t, "failed")
    /\ UNCHANGED <<journal, mode, senders, run>>

(* A response with usage: valid, or refused by the envelope or schema        *)
(* checks.  A cost or token overrun is an error that nobody handles.         *)
Respond(t, actual, tokens, valid) ==
    /\ At(t, "waiting")
    /\ Reconcile(This(t), actual, tokens)
    /\ local' = [local EXCEPT ![t] = [Booked(t, actual, tokens) EXCEPT !.creditable = valid]]
    /\ Goto(t, CASE actual > CostOf[t] \/ tokens > TokensOf[t] -> "errored"
                 [] OTHER -> IF valid THEN "completed" ELSE "failed")
    /\ UNCHANGED <<journal, mode, senders, run>>

-----------------------------------------------------------------------------
(* Recording the outcome.  The pipeline awaits its tasks in order, so an     *)
(* outcome is recorded only after those of all earlier tasks.                *)
MyTurn(t) == \A u \in Task : u < t => pc[u] = "done"

(* persist_output or persist_provider_attempt, for a task that was           *)
(* dispatched.                                                               *)
RetainUsage(t) ==
    /\ At(t, "completed") \/ At(t, "failed")
    /\ MyTurn(t)
    /\ local[t].attempts > 0
    /\ usage' = [usage EXCEPT ![t] = local[t]]
    /\ Goto(t, "retained")
    /\ UNCHANGED <<ledger, budget, phase, terminal, mode, local, senders, run>>

(* record_terminal, or one of the preflight failures for a task that never   *)
(* reached the transport.  A failed task whose usage record is not           *)
(* accountable is recorded without one.                                      *)
RecordTerminal(t) ==
    /\ MyTurn(t)
    /\ At(t, "retained") \/ At(t, "failed")
    /\ terminal' = [terminal EXCEPT ![t] =
                       IF local[t].creditable THEN "SUCCEEDED" ELSE "FAILED"]
    /\ phase' = [phase EXCEPT ![t] = "TERMINAL"]
    /\ Goto(t, "done")
    /\ UNCHANGED <<ledger, budget, usage, mode, local, senders, run>>

(* An error that nobody handles is raised where the task is awaited, and     *)
(* ends the process.                                                         *)
RaiseError(t) ==
    /\ At(t, "errored")
    /\ MyTurn(t)
    /\ mode' = "down"
    /\ UNCHANGED <<ledger, budget, journal, pc, local, senders, run>>

-----------------------------------------------------------------------------
(* Interruption and resume.                                                  *)

Crash ==
    /\ mode # "down"
    /\ mode' = "down"
    /\ UNCHANGED <<ledger, budget, journal, pc, local, senders, run>>

(* A new process: BudgetManager.__init__ refuses a ledger with an overrun;   *)
(* resuming the journal concludes open dispatches as UNCERTAIN.              *)
Resume ==
    /\ mode = "down"
    /\ run < MaxRuns
    /\ ~HasOverrun(ledger)
    /\ Committed(ledger) <= LedgerCap
    /\ run' = run + 1
    /\ mode' = "recovering"
    /\ budget' = NewManager(ledger)
    /\ terminal' = [t \in Task |->
                       IF phase[t] = "DISPATCHED" THEN "UNCERTAIN" ELSE terminal[t]]
    /\ phase' = [t \in Task |-> IF phase[t] = "DISPATCHED" THEN "TERMINAL" ELSE phase[t]]
    /\ pc' = [t \in Task |->
                 IF phase[t] \in {"DISPATCHED", "TERMINAL"} THEN "done" ELSE "idle"]
    /\ local' = [t \in Task |-> NoUsage]
    /\ UNCHANGED <<ledger, usage, senders>>

(* recover_active_cost_reservations looks at the entries whose charge is     *)
(* open or unknown.                                                          *)
OpenIds(t) == {id \in RequestId : /\ TaskOf(id) = t
                                  /\ ledger[id].status \in {"reserved", "uncertain_accounted"}}
OpenTasks == {t \in Task : OpenIds(t) # {}}

(* Its checks, before anything is changed.                                   *)
CostsRecoverable ==
    \A t \in OpenTasks :
        LET n == Cardinality(OpenIds(t))
        IN  /\ phase[t] # "PLANNED"
            /\ OpenIds(t) = {t} \X (1 .. n)
            /\ phase[t] = "ACTIVATED" => n = 1 /\ ledger[<<t, 1>>].status = "reserved"
            /\ phase[t] # "ACTIVATED" =>
                /\ terminal[t] = "UNCERTAIN"
                /\ \A a \in 1 .. n - 1 : ledger[<<t, a>>].status = "uncertain_accounted"

Adopted == {id \in RequestId : ledger[id].status = "reserved" /\ phase[TaskOf(id)] = "ACTIVATED"}
Unsettled == {id \in RequestId : ledger[id].status = "reserved" /\ phase[TaskOf(id)] # "ACTIVATED"}
Settled == {id \in RequestId : /\ ledger[id].status = "uncertain_accounted"
                               /\ phase[TaskOf(id)] = "TERMINAL"}

(* Fault: a reservation of a dispatched task is given back.                  *)
SettleByRelease(id) ==
    /\ mode = "recovering"
    /\ CostsRecoverable
    /\ id \in Unsettled
    /\ ledger' = [ledger EXCEPT ![id] = ReleasedEntry(@, "failed_before_send", TRUE)]
    /\ UNCHANGED <<budget, journal, mode, pc, local, senders, run>>

(* A reservation of a dispatched task is accounted in full, one ledger call  *)
(* after the other.                                                          *)
SettleUncertain(id) ==
    /\ mode = "recovering"
    /\ CostsRecoverable
    /\ id \in Unsettled
    /\ ledger' = [ledger EXCEPT ![id] = ReconciledEntry(@, Unknown, TRUE)]
    /\ UNCHANGED <<budget, journal, mode, pc, local, senders, run>>

(* restore_recovered_usage with what the journal claims.                     *)
RestoreBudget ==
    /\ mode = "recovering"
    /\ CostsRecoverable
    /\ Unsettled = {}
    /\ Restore(usage, Adopted, Settled)
    /\ mode' = "live"
    /\ UNCHANGED <<journal, pc, local, senders, run>>

Refused ==
    \/ ~CostsRecoverable
    \/ Unsettled = {} /\ ~Restorable(usage, Adopted, Settled)

(* recover_active_cost_reservations raises a ValueError, which the pipeline  *)
(* catches: the passes begin with a manager that was not restored.           *)
ContinueUnrestored ==
    /\ mode = "recovering"
    /\ ~CostsRecoverable
    /\ mode' = "unrestored"
    /\ UNCHANGED <<ledger, budget, journal, pc, local, senders, run>>

(* restore_recovered_usage raises a BudgetReservationStateError, which       *)
(* nobody handles: the resumed process ends.                                 *)
RefuseResume ==
    /\ mode = "recovering"
    /\ CostsRecoverable
    /\ Unsettled = {}
    /\ ~Restorable(usage, Adopted, Settled)
    /\ mode' = "down"
    /\ UNCHANGED <<ledger, budget, journal, pc, local, senders, run>>

Next ==
    \/ \E t \in Task :
        \/ request_ready(t)
        \/ PlanningFails(t)
        \/ ReserveAttempt(t)
        \/ ReserveRefused(t)
        \/ PreTransportFails(t)
        \/ EnterTransport(t)
        \/ DispatchFails(t)
        \/ Send(t)
        \/ RetryableFailure(t)
        \/ Rejected(t)
        \/ \E actual \in ActualCost, tokens \in 0 .. TokensOf[t] + 1, valid \in BOOLEAN :
            Respond(t, actual, tokens, valid)
        \/ RetainUsage(t)
        \/ RecordTerminal(t)
        \/ RaiseError(t)
    \/ Crash
    \/ Resume
    \/ \E id \in RequestId : SettleUncertain(id)
    \/ RestoreBudget
    \/ ContinueUnrestored
    \/ RefuseResume

Spec == Init /\ [][Next]_vars

-----------------------------------------------------------------------------
(* Properties.                                                               *)

(* Every variable has its type; no counter of the manager goes below zero.   *)
TypeOK ==
    /\ ledger \in [RequestId -> Entry]
    /\ budget.reserved \in [RequestId -> Nat]
    /\ budget.issued \subseteq RequestId /\ budget.pending \subseteq RequestId
    /\ budget.reconciled \cup budget.released \subseteq budget.issued
    /\ budget.spent \in Nat /\ budget.tokenReserved \in Nat /\ budget.tokenSpent \in Nat
    /\ budget.roleReserved \in [Role -> Nat] /\ budget.roleSpent \in [Role -> Nat]
    /\ budget.requests \in [Task -> 0 .. MaxRequests]
    /\ budget.recovery \in BOOLEAN
    /\ phase \in [Task -> Phase] /\ terminal \in [Task -> Terminals \cup {"none"}]
    /\ usage \in [Task -> Usage] /\ local \in [Task -> Usage]
    /\ mode \in {"live", "down", "recovering", "unrestored"} /\ pc \in [Task -> Location]
    /\ senders \in [RequestId -> SUBSET (1 .. MaxRuns)] /\ run \in 1 .. MaxRuns

(* request_dispatched before the transport: all requests for a task are made *)
(* by one process, and no process repeats an attempt of another.             *)
OneSender ==
    \A t \in Task : Cardinality(UNION {senders[<<t, a>>] : a \in 1 .. MaxAttempts}) <= 1

(* reserve before send, release only before send: whatever is interrupted, a *)
(* request that reached the provider still holds or has spent its money.     *)
SentIsCharged ==
    \A id \in RequestId :
        senders[id] # {} => ledger[id].status \notin {Unrecorded, "released"}

(* The counters of the manager and the ledger hold the same money, over all  *)
(* roles, an adopted reservation counting once its request is repeated.      *)
LedgerInMemory ==
    /\ budget.spent + Total(budget.reserved) =
        TotalWhere(Held(ledger), LAMBDA id : id \notin budget.pending)
    /\ \A r \in Role :
        budget.roleSpent[r] + budget.roleReserved[r] =
            TotalWhere(Held(ledger),
                       LAMBDA id : RoleOfId(id) = r /\ id \notin budget.pending)

(* reserve, reconcile, release and restore_recovered_usage: a process whose  *)
(* counters were restored, or that needed no recovery, has in memory exactly *)
(* the money that the ledger has committed; one that goes on after a failed  *)
(* recovery reserves nothing and sends nothing.                              *)
CountersAgree ==
    /\ mode = "live" => LedgerInMemory
    /\ mode = "unrestored" =>
        budget.issued = {} /\ \A id \in RequestId : run \notin senders[id]

(* _require_scoped_capacity: no scope is overdrawn by concurrent or resumed  *)
(* requests, in every state of the passes before an error that nobody        *)
(* handles: from the moment a task is errored (an overrun of cost or tokens, *)
(* a failed dispatch record, a reserve in the wrong state) nothing is        *)
(* claimed of this process.                                                  *)
ScopesRespected ==
    mode = "live" /\ (\A t \in Task : pc[t] # "errored") =>
        /\ \A r \in Role : budget.roleSpent[r] + budget.roleReserved[r] <= RoleCap[r]
        /\ budget.tokenSpent + budget.tokenReserved <= TokenBudget

(* persist_output and persist_provider_attempt: a retained usage record      *)
(* names exactly the charges the ledger holds for its attempts, for ever.    *)
RetainedUsageExact == \A t \in Task : JoinsLedger(usage[t], t)

(* What makes a recovery refuse.                                             *)
NothingReserved == Recorded(ledger) = {}
RetriedRequest == \E id \in Recorded(ledger) : AttemptOf(id) > 1
GivenBack == \E id \in RequestId : ledger[id].status = "released"
UnretainedCharge ==
    \E id \in RequestId : ledger[id].status = "reconciled" /\ usage[TaskOf(id)] = NoUsage
UnknownChargeConcluded ==
    \E id \in RequestId : /\ ledger[id].status \in {"reserved", "uncertain_accounted"}
                          /\ phase[TaskOf(id)] = "TERMINAL"
                          /\ terminal[TaskOf(id)] # "UNCERTAIN" \/ usage[TaskOf(id)] # NoUsage
RecountedTokens ==
    /\ Total(RecoveredTokens(usage)) > TokenBudget
    /\ \E t \in Task : /\ usage[t].reported # Unknown
                       /\ ~usage[t].creditable
                       /\ usage[t].tokens = 0

(* recover_active_cost_reservations and restore_recovered_usage: the budget  *)
(* is recovered whenever none of six situations has occurred: no reservation *)
(* was ever made, a request was retried, a reservation was released, a known *)
(* charge was not retained, an unknown charge is not the whole story of its  *)
(* task, or a failed response that reported no tokens was free while the     *)
(* process lived and is counted at its plan now, which exceeds the budget.   *)
RefusalExplained ==
    mode = "recovering" /\ Refused =>
        \/ NothingReserved
        \/ RetriedRequest
        \/ GivenBack
        \/ UnretainedCharge
        \/ UnknownChargeConcluded
        \/ RecountedTokens

(* recover_active_cost_reservations: as long as no task has failed, the      *)
(* reservations of an interrupted campaign can be concluded.                 *)
CostsAlwaysRecoverable ==
    mode = "recovering" /\ (\A t \in Task : terminal[t] # "FAILED") => CostsRecoverable
=============================================================================
