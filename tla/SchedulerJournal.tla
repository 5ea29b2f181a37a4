-------------------------- MODULE SchedulerJournal --------------------------
(* SchedulerJournal: the crash-consistent journal of one audit campaign.     *)
(* Every artifact is a fresh private file that is written once and never     *)
(* changed.  An operation writes several of them in order; the process may   *)
(* die, or a write may fail, before each one.  Resuming loads and validates  *)
(* every file, then finishes what was interrupted.                           *)
EXTENDS Integers, Sequences, FiniteSets, Functions

CONSTANTS
    NTasks,       \* tasks, numbered in plan order
    NPasses,      \* SCHEDULER_PASS_ORDER
    PassOf,       \* the pass each task is planned in
    EmptyTask,    \* EMPTY_COMPLETION tasks
    Failure,      \* failing terminal statuses that may be reported
    MaxAttempts,  \* max_model_retries + 1: requests one dispatch may make
    TornWrites,   \* whether a death may fall inside the writing of a file
    MaxCrashes,   \* bound: process deaths
    MaxFaults     \* bound: failing writes

Task == 1 .. NTasks
Pass == 1 .. NPasses

ASSUME SizeAssumption == NTasks \in Nat \ {0} /\ NPasses \in Nat \ {0}
ASSUME PassAssumption ==
    /\ PassOf \in [Task -> Pass]
    /\ \A t, u \in Task : t < u => PassOf[t] <= PassOf[u]
    /\ \A p \in Pass : \E t \in Task : PassOf[t] = p
ASSUME EmptyAssumption == EmptyTask \subseteq Task
(* "FAILED" also stands for INVALID and UNBOUND, which the journal treats    *)
(* alike everywhere.                                                         *)
ASSUME FailureAssumption == Failure \subseteq {"FAILED", "TRUNCATED", "INCONCLUSIVE"}
ASSUME AttemptsAssumption == MaxAttempts \in Nat \ {0}
ASSUME TornAssumption == TornWrites \in BOOLEAN
ASSUME BoundAssumption == MaxCrashes \in Nat /\ MaxFaults \in Nat

TasksOf(p) == {t \in Task : PassOf[t] = p}
First(S) == CHOOSE t \in S : \A u \in S : t <= u

(* _VALID_TASK_LIFECYCLE_PREFIXES                                            *)
Dispatched == <<"PLANNED", "ACTIVATED", "DISPATCHED">>
Concluded == {<<"PLANNED", "PREFLIGHT_TERMINAL">>,
              <<"PLANNED", "ACTIVATED", "ACTIVATED_PREFLIGHT_TERMINAL">>,
              <<"PLANNED", "ACTIVATED", "DISPATCHED", "TERMINAL">>}
Lifecycle == {<<"PLANNED">>, <<"PLANNED", "ACTIVATED">>, Dispatched} \cup Concluded

Status == {"SUCCEEDED", "EXPLICIT_EMPTY", "UNCERTAIN", "FAILED", "TRUNCATED",
           "INCONCLUSIVE"}
PassStatus == {"COMPLETE", "FAILED", "INCONCLUSIVE", "INCOMPLETE"}

(* A result file: where it was produced and how the task ended.              *)
Result == [origin: {"ACTIVATED", "LOCAL_PREFLIGHT"}, status: Status]
Activated(status) == [origin |-> "ACTIVATED", status |-> status]
Preflight(status) == [origin |-> "LOCAL_PREFLIGHT", status |-> status]
Uncertain == Activated("UNCERTAIN")

VARIABLES
    plans,       \* number of pass-plan files
    history,     \* event files of each task, in order
    activated,   \* tasks with an activation file
    outputs,     \* tasks with an output file
    attempts,    \* tasks with a provider-attempt file
    observed,    \* result files of each task
    credited,    \* the result a task's terminal event names, if any
    passes,      \* pass-result files
    authority,   \* the terminal report authority file exists
    torn,        \* a file holds only a part of its content
    mode,        \* "down", "recovering" or "live"
    todo,        \* writes left of the operation that is running
    transport,   \* what this process did with each task it dispatched
    sends,       \* for each dispatch of a task that made requests, how many
    crashes, faults

files == <<plans, history, activated, outputs, attempts, observed, credited,
           passes, authority, torn>>
process == <<mode, todo, transport>>
bounds == <<crashes, faults>>
vars == <<files, process, sends, bounds>>

Init ==
    /\ plans = 0
    /\ history = [t \in Task |-> <<>>]
    /\ activated = {}
    /\ outputs = {}
    /\ attempts = {}
    /\ observed = [t \in Task |-> {}]
    /\ credited = [t \in Task |-> {}]
    /\ passes = <<>>
    /\ authority = FALSE
    /\ torn = FALSE
    /\ mode = "live"
    /\ todo = <<>>
    /\ transport = [t \in Task |-> "none"]
    /\ sends = [t \in Task |-> <<>>]
    /\ crashes = 0
    /\ faults = 0

-----------------------------------------------------------------------------
(* Durable writes.                                                           *)

PlanFile == [file |-> "plan"]
PassFile(status) == [file |-> "pass", status |-> status]
AuthorityFile == [file |-> "authority"]
TaskFile(kind, t) == [file |-> kind, task |-> t]
ResultFile(t, r) == [file |-> "result", task |-> t, result |-> r]
Event(t, kind, r) == [file |-> "event", task |-> t, kind |-> kind, result |-> r]

(* _write_fresh_private_file and the matching _retain_ method: one artifact  *)
(* becomes durable and visible to the process.                               *)
Apply(w) ==
    /\ plans' = IF w.file = "plan" THEN plans + 1 ELSE plans
    /\ passes' = IF w.file = "pass" THEN Append(passes, w.status) ELSE passes
    /\ authority' = (authority \/ w.file = "authority")
    /\ activated' = IF w.file = "activation" THEN activated \cup {w.task} ELSE activated
    /\ outputs' = IF w.file = "output" THEN outputs \cup {w.task} ELSE outputs
    /\ attempts' = IF w.file = "attempt" THEN attempts \cup {w.task} ELSE attempts
    /\ observed' = IF w.file = "result"
                   THEN [observed EXCEPT ![w.task] = @ \cup {w.result}] ELSE observed
    /\ history' = IF w.file = "event"
                  THEN [history EXCEPT ![w.task] = Append(@, w.kind)] ELSE history
    /\ credited' = IF w.file = "event"
                   THEN [credited EXCEPT ![w.task] = @ \cup w.result] ELSE credited
    /\ transport' = IF w.file = "event" /\ w.kind = "DISPATCHED"
                    THEN [transport EXCEPT ![w.task] =
                             IF w.task \in EmptyTask THEN "returned" ELSE "ready"]
                    ELSE transport
    /\ UNCHANGED torn

(* The running operation makes its next write.                               *)
Write ==
    /\ mode = "live"
    /\ todo # <<>>
    /\ Apply(Head(todo))
    /\ todo' = Tail(todo)
    /\ UNCHANGED <<mode, sends, bounds>>

(* The write belongs to one of the operations that record how a task ended.  *)
RecordsEnd(w) == w.file = "result" \/ (w.file = "event" /\ w.result # {})

(* A write fails: the partial file is unlinked, the operation raises and     *)
(* what it had written stays.  Nobody catches the error of an operation that *)
(* records an end, so the runtime is through with that task; other failing   *)
(* operations may be followed by one that records a failure.                 *)
WriteFails ==
    /\ mode = "live"
    /\ todo # <<>>
    /\ faults < MaxFaults
    /\ faults' = faults + 1
    /\ todo' = <<>>
    /\ transport' = IF RecordsEnd(Head(todo))
                    THEN [transport EXCEPT ![Head(todo).task] = "abandoned"]
                    ELSE transport
    /\ UNCHANGED <<files, mode, sends, crashes>>

-----------------------------------------------------------------------------
(* Operations.  An operation checks its guard and begins its writes.         *)

(* Fault: the terminal report authority does not freeze the journal.         *)
WritableAfterSeal == mode = "live" /\ todo = <<>>

(* _assert_writable_custody                                                  *)
Writable == mode = "live" /\ todo = <<>> /\ ~authority

Perform(writes) ==
    /\ Writable
    /\ todo' = writes
    /\ UNCHANGED <<files, mode, transport, sends, bounds>>

(* The tasks of a pass are consecutive in plan order.                        *)
PlannedEvents(p) ==
    LET ts == TasksOf(p)
    IN  [i \in 1 .. Cardinality(ts) |-> Event(First(ts) + i - 1, "PLANNED", {})]

(* Fault: the pass limit is off by one.                                      *)
SealOnePassTooMany ==
    /\ plans <= NPasses
    /\ Len(passes) = plans
    /\ \A p \in 1 .. Len(passes) : passes[p] = "COMPLETE"
    /\ Perform(<<PlanFile>> \o PlannedEvents(plans + 1))

(* Fault: the campaign advances after a pass that is not complete.           *)
SealAfterAnyPass ==
    /\ plans < NPasses
    /\ Len(passes) = plans
    /\ Perform(<<PlanFile>> \o PlannedEvents(plans + 1))

seal_pass_plan ==
    /\ plans < NPasses
    /\ Len(passes) = plans
    /\ \A p \in 1 .. Len(passes) : passes[p] = "COMPLETE"
    /\ Perform(<<PlanFile>> \o PlannedEvents(plans + 1))

(* Fault: the ACTIVATED event is written before the activation it names.     *)
ActivateEventFirst(t) ==
    /\ history[t] = <<"PLANNED">>
    /\ transport[t] # "abandoned"
    /\ t \notin activated
    /\ Perform(<<Event(t, "ACTIVATED", {}), TaskFile("activation", t)>>)

activate_task(t) ==
    /\ history[t] = <<"PLANNED">>
    /\ transport[t] # "abandoned"
    /\ t \notin activated
    /\ Perform(<<TaskFile("activation", t), Event(t, "ACTIVATED", {})>>)

(* Fault: a task that was already dispatched may be dispatched again.        *)
DispatchAgain(t) ==
    /\ t \in activated
    /\ history[t] \notin Concluded
    /\ Len(history[t]) >= 2
    /\ Perform(<<Event(t, "DISPATCHED", {})>>)

mark_dispatched(t) ==
    /\ history[t] = <<"PLANNED", "ACTIVATED">>
    /\ transport[t] # "abandoned"
    /\ Perform(<<Event(t, "DISPATCHED", {})>>)

(* The runtime records an outcome only after the transport returned.         *)
Returned(t) == transport[t] = "returned"

persist_output(t) ==
    /\ t \notin EmptyTask
    /\ Returned(t)
    /\ history[t] = Dispatched
    /\ t \notin outputs \cup attempts
    /\ Perform(<<TaskFile("output", t)>>)

persist_provider_attempt(t) ==
    /\ t \notin EmptyTask
    /\ Returned(t)
    /\ history[t] = Dispatched
    /\ t \notin outputs \cup attempts
    /\ Perform(<<TaskFile("attempt", t)>>)

(* Fault: a success is recorded without looking for the retained output.     *)
TerminalWithoutOutput(t, status) ==
    /\ status \in Failure \cup (IF t \in EmptyTask THEN {"EXPLICIT_EMPTY"} ELSE {"SUCCEEDED"})
    /\ Returned(t)
    /\ history[t] = Dispatched
    /\ observed[t] = {}
    /\ Perform(<<ResultFile(t, Activated(status)),
                 Event(t, "TERMINAL", {Activated(status)})>>)

(* A success needs the retained output, everything else needs that there is  *)
(* none.                                                                     *)
record_terminal(t, status) ==
    /\ status \in Failure \cup (IF t \in EmptyTask THEN {"EXPLICIT_EMPTY"} ELSE {"SUCCEEDED"})
    /\ (status = "SUCCEEDED") <=> t \in outputs
    /\ Returned(t)
    /\ history[t] = Dispatched
    /\ observed[t] = {}
    /\ Perform(<<ResultFile(t, Activated(status)),
                 Event(t, "TERMINAL", {Activated(status)})>>)

record_preflight_failure(t, status) ==
    /\ status \in Failure \ {"TRUNCATED"}
    /\ transport[t] # "abandoned"
    /\ history[t] = <<"PLANNED">>
    /\ t \notin activated \cup outputs
    /\ observed[t] = {}
    /\ Perform(<<ResultFile(t, Preflight(status)),
                 Event(t, "PREFLIGHT_TERMINAL", {Preflight(status)})>>)

record_activated_preflight_failure(t, status) ==
    /\ status \in Failure
    /\ transport[t] # "abandoned"
    /\ history[t] = <<"PLANNED", "ACTIVATED">>
    /\ t \notin outputs
    /\ observed[t] = {}
    /\ Perform(<<ResultFile(t, Activated(status)),
                 Event(t, "ACTIVATED_PREFLIGHT_TERMINAL", {Activated(status)})>>)

(* _derived_pass_status                                                      *)
DerivedPassStatus(p) ==
    LET statuses == {r.status : r \in UNION {credited[t] : t \in TasksOf(p)}}
    IN  CASE statuses \subseteq {"SUCCEEDED", "EXPLICIT_EMPTY"} -> "COMPLETE"
          [] "FAILED" \in statuses -> "FAILED"
          [] "FAILED" \notin statuses /\ "INCONCLUSIVE" \in statuses -> "INCONCLUSIVE"
          [] OTHER -> "INCOMPLETE"

seal_pass_result ==
    LET p == Len(passes) + 1
    IN  /\ p <= plans
        /\ \A t \in TasksOf(p) : history[t] \in Concluded /\ credited[t] # {}
        /\ Perform(<<PassFile(DerivedPassStatus(p))>>)

(* The last write.  The runtime refuses it while a pass is active, and the   *)
(* evidence it builds needs a result for every planned task.                 *)
seal_terminal_report_authority ==
    /\ Len(passes) = plans
    /\ \A p \in 1 .. plans : \A t \in TasksOf(p) : credited[t] # {}
    /\ Perform(<<AuthorityFile>>)

(* The request loop.  A request that timed out, or got a retryable status,   *)
(* is repeated inside the same dispatch until MaxAttempts; every other       *)
(* answer, and an error, ends the loop.                                      *)
AfterAttempt(n) == {"returned"} \cup (IF n < MaxAttempts THEN {"retrying"} ELSE {})

(* The first request is made after request_dispatched() returned.            *)
SendToProvider(t) ==
    /\ mode = "live"
    /\ todo = <<>>
    /\ transport[t] = "ready"
    /\ \E after \in AfterAttempt(1) : transport' = [transport EXCEPT ![t] = after]
    /\ sends' = [sends EXCEPT ![t] = Append(@, 1)]
    /\ UNCHANGED <<files, mode, todo, bounds>>

(* A later request: nothing is journalled for it.                            *)
SendAgain(t) ==
    LET made == Len(sends[t])
        n == sends[t][made] + 1
    IN  /\ mode = "live"
        /\ todo = <<>>
        /\ transport[t] = "retrying"
        /\ \E after \in AfterAttempt(n) : transport' = [transport EXCEPT ![t] = after]
        /\ sends' = [sends EXCEPT ![t][made] = n]
        /\ UNCHANGED <<files, mode, todo, bounds>>

(* The reservation or the privacy check of a later request raises: the loop  *)
(* ends without it.                                                          *)
RetryRefused(t) ==
    /\ mode = "live"
    /\ todo = <<>>
    /\ transport[t] = "retrying"
    /\ transport' = [transport EXCEPT ![t] = "returned"]
    /\ UNCHANGED <<files, mode, todo, sends, bounds>>

RequestLoop == \E t \in Task : SendToProvider(t) \/ SendAgain(t) \/ RetryRefused(t)

Operation ==
    \/ seal_pass_plan
    \/ seal_pass_result
    \/ seal_terminal_report_authority
    \/ \E t \in Task :
        \/ activate_task(t)
        \/ mark_dispatched(t)
        \/ persist_output(t)
        \/ persist_provider_attempt(t)
        \/ \E status \in Status :
            \/ record_terminal(t, status)
            \/ record_preflight_failure(t, status)
            \/ record_activated_preflight_failure(t, status)

-----------------------------------------------------------------------------
(* Crash and resume.                                                         *)

Statuses(S) == {r.status : r \in S}
PreDispatchFailure == {"FAILED", "TRUNCATED", "INCONCLUSIVE"}

(* _validate_loaded_state, for the files of one task: outputs and provider   *)
(* attempts belong to an activated task and exclude each other.              *)
EvidenceLoads(t) ==
    /\ t \in outputs \cup attempts => t \in activated
    /\ t \notin outputs \cap attempts

(* A result has the evidence it was built from; a second one is what an      *)
(* uncertain recovery leaves behind.                                         *)
ResultsLoad(t) ==
    /\ \A r \in observed[t] :
        /\ r.origin = "LOCAL_PREFLIGHT" => t \notin activated \cup outputs
        /\ r.origin = "ACTIVATED" => t \in activated
        /\ r.status = "SUCCEEDED" => t \in outputs
    /\ Cardinality(observed[t]) <= 2
    /\ Cardinality(observed[t]) = 2 =>
        /\ Cardinality({r \in observed[t] : r.status = "UNCERTAIN"}) = 1
        /\ \A r \in observed[t] : r.origin = "ACTIVATED"

(* The events of a planned task name an existing activation and result.      *)
EventsLoad(t) ==
    /\ history[t] # <<>> => PassOf[t] <= plans
    /\ Len(history[t]) > 1 /\ history[t][2] = "ACTIVATED" => t \in activated
    /\ credited[t] \subseteq observed[t]
    /\ Cardinality(credited[t]) <= 1

(* The lifecycle is a legal prefix and the results fit its last event.       *)
LifecycleLoads(t) ==
    LET h == history[t]
        obs == observed[t]
    IN
    /\ h # <<>> => h \in Lifecycle
    /\ h = <<"PLANNED">> =>
        /\ t \in activated => obs = {}
        /\ t \notin outputs
        /\ Cardinality({r \in obs : r.origin = "LOCAL_PREFLIGHT"}) <= 1
    /\ h = <<"PLANNED", "ACTIVATED">> =>
        /\ t \notin outputs
        /\ Cardinality(obs) <= 1
        /\ \A r \in obs : r.origin = "ACTIVATED" /\ r.status \in PreDispatchFailure
    /\ h \in Concluded => credited[t] # {}
    /\ h \in Concluded /\ Cardinality(obs) > 1 =>
        /\ Statuses(credited[t]) = {"UNCERTAIN"}
        /\ "UNCERTAIN" \notin Statuses(obs \ credited[t])

(* An output belongs to a dispatched task that succeeded or became           *)
(* uncertain, a provider attempt to one that did not succeed; before the     *)
(* PLANNED event there is nothing.                                           *)
RetainedLoads(t) ==
    LET h == history[t]
    IN
    /\ t \in outputs =>
        /\ h # <<>>
        /\ h[Len(h)] \in {"DISPATCHED", "TERMINAL"}
        /\ Statuses(observed[t] \ credited[t]) \subseteq {"SUCCEEDED"}
        /\ h \in Concluded => Statuses(credited[t]) \subseteq {"SUCCEEDED", "UNCERTAIN"}
    /\ t \in attempts =>
        /\ \E i \in 1 .. Len(h) : h[i] = "DISPATCHED"
        /\ Statuses(credited[t]) \cap {"SUCCEEDED", "EXPLICIT_EMPTY"} = {}
    /\ h = <<>> => t \notin activated \cup outputs \cup attempts /\ observed[t] = {}

TaskLoads(t) ==
    /\ EvidenceLoads(t)
    /\ ResultsLoad(t)
    /\ EventsLoad(t)
    /\ LifecycleLoads(t)
    /\ RetainedLoads(t)

(* _validate_loaded_state, for the campaign: only the last plan may lack its *)
(* result, and every earlier pass is complete.                               *)
PlansLoad ==
    /\ Len(passes) <= plans
    /\ Len(passes) >= plans - 1
    /\ \A p \in 1 .. plans - 1 : passes[p] = "COMPLETE"

(* PLANNED events are missing only at the end of the last plan, and a pass   *)
(* result is the one derived from concluded tasks.                           *)
PassesLoad ==
    /\ \A p \in 1 .. plans : \A t, u \in TasksOf(p) :
        t < u /\ history[u] # <<>> => history[t] # <<>>
    /\ \A p \in 1 .. plans - 1 : \A t \in TasksOf(p) : history[t] # <<>>
    /\ \A p \in 1 .. Len(passes) :
        /\ \A t \in TasksOf(p) : history[t] \in Concluded /\ credited[t] # {}
        /\ passes[p] = DerivedPassStatus(p)

(* _load_state and _validate_loaded_state, of every file.                    *)
Loads == ~torn /\ PlansLoad /\ PassesLoad /\ \A t \in Task : TaskLoads(t)

(* resume_scheduler_journal: the files are loaded and validated.             *)
Resume ==
    /\ mode = "down"
    /\ Loads
    /\ mode' = "recovering"
    /\ UNCHANGED <<files, todo, transport, sends, bounds>>

Planned == {t \in Task : PassOf[t] <= plans}

(* _recover_interrupted_state, in its order: the missing PLANNED events, the *)
(* missing ACTIVATED events, then per task the missing terminal event or,    *)
(* for a dispatch without one, an UNCERTAIN result and its terminal event.   *)
Unplanned == {t \in Planned : history[t] = <<>>}
Unactivated == {t \in Planned : t \in activated /\ history[t] = <<"PLANNED">>}
LocalFailures(t) == {r \in observed[t] : r.origin = "LOCAL_PREFLIGHT"}
EarlyFailures(t) ==
    {r \in observed[t] : r.origin = "ACTIVATED" /\ r.status \in PreDispatchFailure}

(* Fault: an interrupted dispatch is left open.                              *)
RecoveryLeavesDispatch(t) ==
    CASE history[t] = <<"PLANNED">> /\ Cardinality(LocalFailures(t)) = 1 ->
            {Event(t, "PREFLIGHT_TERMINAL", LocalFailures(t))}
      [] history[t] = <<"PLANNED", "ACTIVATED">> /\ Cardinality(EarlyFailures(t)) = 1 ->
            {Event(t, "ACTIVATED_PREFLIGHT_TERMINAL", EarlyFailures(t))}
      [] OTHER -> {}

RecoveryWrite(t) ==
    CASE history[t] = <<"PLANNED">> /\ Cardinality(LocalFailures(t)) = 1 ->
            {Event(t, "PREFLIGHT_TERMINAL", LocalFailures(t))}
      [] history[t] = <<"PLANNED", "ACTIVATED">> /\ Cardinality(EarlyFailures(t)) = 1 ->
            {Event(t, "ACTIVATED_PREFLIGHT_TERMINAL", EarlyFailures(t))}
      [] history[t] = Dispatched ->
            {IF Uncertain \in observed[t] THEN Event(t, "TERMINAL", {Uncertain})
             ELSE ResultFile(t, Uncertain)}
      [] OTHER -> {}

Unconcluded == {t \in Planned : RecoveryWrite(t) # {}}

NextRecovery ==
    IF Unplanned # {} THEN {Event(First(Unplanned), "PLANNED", {})}
    ELSE IF Unactivated # {} THEN {Event(First(Unactivated), "ACTIVATED", {})}
    ELSE IF Unconcluded # {} THEN RecoveryWrite(First(Unconcluded))
    ELSE {}

(* The process dies, or close() ends it.  A file is written in place, under  *)
(* its own name: a death inside _write_fresh_private_file leaves a part.     *)
Crash ==
    /\ mode # "down"
    /\ crashes < MaxCrashes
    /\ crashes' = crashes + 1
    /\ torn' \in (IF TornWrites /\ (todo # <<>> \/ (mode = "recovering" /\ NextRecovery # {}))
                 THEN {torn, TRUE} ELSE {torn})
    /\ mode' = "down"
    /\ todo' = <<>>
    /\ transport' = [t \in Task |-> "none"]
    /\ UNCHANGED <<plans, history, activated, outputs, attempts, observed, credited,
                   passes, authority, sends, faults>>

(* _append_event refuses to touch a sealed journal.                          *)
Recover ==
    /\ mode = "recovering"
    /\ ~authority
    /\ \E w \in NextRecovery : Apply(w)
    /\ UNCHANGED <<mode, todo, sends, bounds>>

(* A write of the recovery fails, and with it the resume.                    *)
RecoveryFails ==
    /\ mode = "recovering"
    /\ NextRecovery # {}
    /\ faults < MaxFaults
    /\ faults' = faults + 1
    /\ mode' = "down"
    /\ UNCHANGED <<files, todo, transport, sends, crashes>>

(* The second full validation passes and the journal is handed out.          *)
FinishResume ==
    /\ mode = "recovering"
    /\ NextRecovery = {}
    /\ mode' = IF Loads THEN "live" ELSE "down"
    /\ UNCHANGED <<files, todo, transport, sends, bounds>>

Next ==
    \/ Operation
    \/ Write
    \/ WriteFails
    \/ RequestLoop
    \/ Crash
    \/ Resume
    \/ Recover
    \/ RecoveryFails
    \/ FinishResume

Spec == Init /\ [][Next]_vars

(* A resumed journal finishes its recovery, and an operator resumes one.     *)
FairSpec == Spec /\ WF_vars(Resume) /\ WF_vars(Recover) /\ WF_vars(FinishResume)

-----------------------------------------------------------------------------
(* Properties.                                                               *)

(* Every variable has its type.                                              *)
TypeOK ==
    /\ plans \in 0 .. NPasses
    /\ \A t \in Task : \A i \in 1 .. Len(history[t]) :
        history[t][i] \in {"PLANNED", "ACTIVATED", "DISPATCHED", "TERMINAL",
                          "PREFLIGHT_TERMINAL", "ACTIVATED_PREFLIGHT_TERMINAL"}
    /\ activated \subseteq Task /\ outputs \subseteq Task /\ attempts \subseteq Task
    /\ observed \in [Task -> SUBSET Result]
    /\ credited \in [Task -> SUBSET Result]
    /\ Len(passes) <= NPasses /\ Range(passes) \subseteq PassStatus
    /\ authority \in BOOLEAN /\ torn \in BOOLEAN
    /\ mode \in {"down", "recovering", "live"}
    /\ transport \in [Task -> {"none", "ready", "retrying", "returned", "abandoned"}]
    /\ sends \in [Task -> Seq(1 .. MaxAttempts)]

(* mark_dispatched and the recovery: whatever is interrupted, all the        *)
(* provider requests of a task are attempts of one dispatch by one process;  *)
(* no later process sends what an earlier one may have sent.                 *)
AtMostOneDispatch == \A t \in Task : Len(sends[t]) <= 1

(* _recover_interrupted_state: once a journal is handed out, an open         *)
(* dispatch belongs to this very process; one left by an earlier process has *)
(* been concluded.                                                           *)
OpenDispatchIsMine ==
    mode = "live" =>
        \A t \in Task : history[t] = Dispatched => transport[t] # "none"

(* seal_pass_plan: a provider is asked only for a task all of whose          *)
(* predecessors in earlier passes succeeded.                                 *)
PassOrder ==
    \A t, u \in Task :
        PassOf[u] < PassOf[t] /\ sends[t] # <<>> =>
            Statuses(credited[u]) \in {{"SUCCEEDED"}, {"EXPLICIT_EMPTY"}}

(* record_terminal: a credited success rests on one retained output of the   *)
(* only dispatch that made requests, with no other outcome on record.        *)
SuccessIsUnambiguous ==
    \A t \in Task :
        Activated("SUCCEEDED") \in credited[t] =>
            /\ t \in outputs \ attempts
            /\ observed[t] = {Activated("SUCCEEDED")}
            /\ Len(sends[t]) = 1

(* seal_terminal_report_authority: after the last write no file is added, by *)
(* operations or by the recovery of a later process.                         *)
SealFreezes == [][authority => UNCHANGED files]_vars

(* resume_scheduler_journal: a journal left behind is refused only when a    *)
(* file is torn, or when a recovery was itself interrupted between the       *)
(* UNCERTAIN result of a task with a retained output and its terminal event. *)
RefusedOnlyByInterruptedRecovery ==
    mode = "down" /\ ~Loads =>
        \/ torn
        \/ \E t \in outputs : history[t] = Dispatched /\ Uncertain \in observed[t]

(* An interrupted journal can be resumed from what it left on disk.          *)
AlwaysResumable == mode = "down" => Loads

(* A dispatch whose process died is concluded by the resumed journal, unless *)
(* what the death left on disk is refused: then nobody ever runs again.      *)
DeadDispatchConcluded ==
    \A t \in Task :
        mode = "down" /\ history[t] = Dispatched
            ~> credited[t] # {} \/ (mode = "down" /\ ~Loads)
=============================================================================
