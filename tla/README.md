# A TLA+ verification project for mmaudit

mmaudit audits smart-contract repositories by running scanners and a campaign of
paid model requests.  This directory models the parts of it that are hardest to
test and most expensive to get wrong: spending money with a provider exactly
once, across concurrent tasks, retries, failing writes and processes that die
and are resumed; the two threaded helpers between a test command and a chain
node; and how candidate findings become a report while the audited source may
change.  Paths below are relative to `src/src/mmaudit/`.

## Inventory

| Component | State it keeps | Operations | What makes it correct |
|---|---|---|---|
| Cost ledger `orchestration/cost_ledger.py` | one JSON file with a cap and one entry per provider attempt; a lock file | initialize, open, reserve, reconcile, release, active_reservation | the cap holds whoever races; no reservation is lost; every call is atomic; the file can always be read again |
| Scheduler journal `orchestration/scheduler.py`, `models/scheduler.py` | a directory of files written once: pass plans, activations, events, outputs, provider attempts, results, pass results, terminal authority | seal_pass_plan, activate_task, mark_dispatched, persist_*, record_*, seal_*; create, resume, recover | the requests of a task are attempts of one dispatch; each task is concluded once; passes follow each other; an interrupted journal can be resumed |
| Budget manager `orchestration/budgets.py` | counters in memory per total, role, model, token and request scope; adopted reservations | reserve, reconcile, release, restore_recovered_usage | memory agrees with the ledger, also after a resume; no scope is overdrawn |
| Provider request loop `models/openrouter.py` | the attempt counter, the active reservation and the usage record of one coroutine | one structured completion | what was sent stays charged; the usage record names exactly the ledger's charges |
| Scheduler runtime `orchestration/scheduler_runtime.py` | the active pass plan and its activations | request_ready, request_dispatched, record_model_success, record_failure | a dispatch is durable before the transport is entered |
| Pipeline `orchestration/pipeline.py` | tasks in flight, the report being built | seven passes; resume | outcomes are recorded in the order tasks are awaited |
| RPC bridge `scanners/read_only_rpc.py` | counters for its life and for the open test scope, an accept generation, handler threads, checkpoints | start, begin and end of a selected test's scope, admission, handling, stop, snapshot | a scope accounts exactly for the requests of its test; a clean stop leaves exact, final numbers; budgets hold; every call returns |
| Loopback relay `isolation/hardhat_loopback_relay.py` | connections, threads and byte totals behind one lock, two events, the child | run, one worker per connection, a signal handler | the command's own exit code means that nothing went wrong; limits hold; no process is left; it ends |
| Findings: `orchestration/consensus.py`, `run_status.py` and passes four to seven of `pipeline.py` | candidates, validations, decisions, reproductions, judgements, findings, reasons for incompleteness | validate, verify, reproduce, judge, group, merge, assess | what is accepted rests on source as it is; models cannot remove what the host observed; COMPLETE is earned |
| Other helpers `scanners/runner.py`, `benchmark/model_portfolio.py`, `models/refresh_staging.py` | subprocesses, checkpoints, staged files | supervising, staging | a replaced set of files is never mixed |
| Everything else (Solidity analysis, reports, agents, repository, privacy, snapshots, release gates, CLI) | inputs and outputs | transformation and validation of data | not a question for a model checker |

How they interact: the pipeline starts the model tasks of a pass concurrently
and awaits them in order.  Each task runs the provider request loop, which calls
the runtime (`request_ready`, `request_dispatched`: journal writes) and the
budget manager, which calls the ledger.  The outcome goes back through the
runtime into the journal.  A resumed process reads the journal, concludes what
was open, concludes the ledger's open reservations from it, and rebuilds the
manager's counters from the journal's usage records and the ledger.  Beside the
model tasks, the Foundry runner executes the repository's tests one by one
against the RPC bridge, bracketing each with an accounting scope; for Hardhat the
loopback relay runs inside the container and forwards to the bridge's socket.
What models and executions found goes through validation, reproduction and the
judge into the report.

Hard behaviour, listed line by line under `hazards` in `PROJECT.json`: several
processes on one ledger file; deaths between any two durable writes, also during
recovery; failing writes after which memory and disk differ; lost answers and
retries; charges above the reservation; a wall clock that is set back; a request
that crosses a scope boundary or a shutdown; a signal inside a locked section; a
source file that is edited while models are awaited.

## Modules

| Module | Models |
|---|---|
| `CostEntries` | one ledger entry, what the loader accepts, totals |
| `CostAccount` | the abstract account the ledger promises its callers |
| `CostLedger` | the ledger: processes, lock file, exclusive lock, read, atomic replacement, failing writes, crashes |
| `CostEntriesProofs` | what recording and concluding an entry does to totals |
| `CostLedgerProofs` | theorems about `CostLedger` |
| `SchedulerJournal` | the journal: ordered fresh-file writes, loading and validation, recovery |
| `BudgetManager` | the budget manager's methods as operators on its state and the ledger's entries |
| `Campaign` | composition: request loop, budget manager, ledger and journal over several processes |
| `RpcAccounting` | the counters of the RPC bridge and what a snapshot demands of them |
| `RpcBridge` | the bridge: scanner thread, accept loop, handlers, admission and cleanup threads |
| `LoopbackRelay` | the relay: main thread, signal handler, workers, child |
| `Findings` | candidates to report: groups, statuses, passes four to seven, run status |
| `SchedulerJournalProofs`, `CampaignProofs`, `RpcBridgeProofs`, `LoopbackRelayProofs`, `FindingsProofs` | theorems about these modules |
| `DataInduction` | induction and recursion over an interval of numbers, for the grouping of `Findings` |
| `MCCostLedger`, `MCSchedulerJournal`, `MCCampaign`, `MCRpcBridge`, `MCLoopbackRelay`, `MCFindings` | constants for TLC |

Definitions named `Fault: ...` in their comment are not part of any
specification: each is a plausible mistake in the code that the property named
in `PROJECT.json` detects.

### CostLedger

Variables and code: `lockFile` and `holder` are the lock file and its `flock`;
`ledger` is the JSON file (`present`, `cap`, `entries`); `pc`, `call` and `view`
are the position, arguments and locally read state of each process; `handles`
are the `CostReservation` values it holds.  A call is `Begin*`, `Acquire`
(lock and read), `Replace` (the rename inside `_write_state`), `Return`; it may
instead end without a write (`ReturnUnchanged`), with a failing temporary file
(`WriteFails`) or with a failing directory sync after the rename (`SyncFails`).
`Crash` drops the lock and the handles.  The two timestamps are abstracted to
the one fact the loader tests, whether `updated_at >= created_at`.  An entry is
identified by its request id; the random reservation id is left out because a
request id is never reused.

`CostAccount` has no processes: it opens once, reserves under the cap, and
concludes a reservation once.  `ImplementsAccount` states the refinement.

### SchedulerJournal

A task's files are sets and sequences (`history` for its events, `observed` for
its result files, `credited` for the result its terminal event names).  An
operation checks its guard and puts its writes into `todo`; `Write` makes one of
them, `WriteFails` abandons the rest, `Crash` loses memory and, when
`TornWrites`, may leave a part of the file being written.  `Loads` is
`_validate_loaded_state`; `NextRecovery` is the next write of
`_recover_interrupted_state` in its order.  `RequestLoop` is the client's attempt
loop: a request that times out or gets a retryable status is repeated inside the
same dispatch, up to `MaxAttempts` (`max_model_retries + 1`), and nothing is
journalled for a repetition; a repetition whose reservation or privacy check
raises ends the loop (`RetryRefused`).  `sends` records, for each dispatch of a
task that reached the provider, how many requests it made; it exists only for
the properties, which are therefore about dispatches, not about requests: one
dispatch may make several.  INVALID and UNBOUND are merged with FAILED: the
journal treats the three alike.  `transport = "abandoned"` stands for a task
whose record_* call raised: the runtime lets that error end the run.

### BudgetManager and Campaign

Each method of the manager runs under one asyncio lock and is one step; a ledger
call is atomic, as `CostAccount` allows and the refinement justifies.  Roles
stand for models too (same code path), and one token counter for input and
output.  `Campaign` adds the coroutine of each task (`pc`, and `local`, the usage
record in the making), the journal abstracted to the last event, terminal status
and retained usage of each task, and the process number `run`.  Every await is a
point where another task may step or the process may die.  `Resume` concludes
open dispatches as UNCERTAIN, which `SchedulerJournal` models in detail;
`SettleUncertain` and `RestoreBudget` are the cost and budget recovery.  They
raise in two different ways.  A `ValueError` of `recover_active_cost_reservations`
is caught (`pipeline.py:3203`), and since the scheduler is already set (3169) the
guard at 3212 lets the passes begin with counters that were not restored:
`ContinueUnrestored`, `mode = "unrestored"`.  The scheduler was not bound as the
client's observer (3189 is not reached), so `request_ready` and the dispatch
journal nothing; the first `reserve` raises on `_recovery_required`, which ends the
process where the task is awaited, unless planning fails first and the task is
recorded as FAILED.  A `BudgetReservationStateError` of `restore_recovered_usage` is
a `RuntimeError` that no handler of the pipeline names: `RefuseResume` ends the
process.

Left out of `Campaign`: the campaign baseline (entries of other campaigns on the
same ledger), the host and empty tasks, backoff times, failures inside a ledger
call, and a model catalogue that cannot be validated on resume
(`_validate_models`, whose `OpenRouterError` is caught as well).

### RpcBridge

`driver` is the scanner thread inside `start`, `begin_selected_test_scope`,
`end_selected_test_scope` or `stop`; `loop` the accept loop with the connection
and generation it holds; `conn` says where each connection is, and so which
handlers are active and which slots taken; `admission` and `cleanup` are the two
threads `stop` relies on.  `backlog` is the listener's queue: a scope boundary
queues a probe connection behind everything made so far, waits until the loop
has accepted it (the loop then pauses), waits for pending requests, handlers and
requests in flight, and switches scope under its lock after looking again.  One
action is one critical section of the code.  Time is `late`: whether the deadline
of the scanner's call in progress has passed, which may happen at any moment.

A request is known by how many of its calls go to the node and how many are
answered from the pinned state; why a payload is refused is a free choice.  A
batch answered from the pinned state alone is taken to be answered: that its
response could be too large or its encoding raise (`read_only_rpc.py:2176`, 2183)
is left out, as it cannot be at the default sizes.
`Connect` and the node's answers are the environment.  `verdict`, `home` and
`born` record each connection's fate for the properties, so that the counters are
compared with something other than themselves.  Left out: `Unix` listeners (they
have no scopes), the contents of requests and the identity observations.

### LoopbackRelay

`pc` is the main thread in `run`; its locked sections are two steps (`MainAcquire`
and the section), because a signal handler runs in the main thread between any
two of its instructions.  A worker's locked section is one step.  `route` records
the socket a worker connected to, and bytes are counted in chunks in the busier
direction of a stream.  Closing a socket is not modelled as state: it makes reads
end, which they may do anyway.  Waits of the main thread are timed, so they may
give up at any point; the grace for the child ends with the child gone or not.

### Findings

A candidate is a number; `similar` is any relation the similarity score may
produce, `link` any link the host may have made, and `profile` what a candidate
claims.  Executions come last, as `candidates.extend` puts them.  `current` is the
set of candidates whose source is as it was read; `Drift` edits or restores a file
at any point, and each validation in the code is a copy of `current`.  The passes
are one action each, with their failures: `Trouble` is a pass that is not
COMPLETE, which halts the later ones.  Verifier, reproductions and judge answer
anything the code accepts.  `Groups` is the greedy union in list order,
`PreliminaryStatus`, `Primary`, `Merge` and `Capped` are `consensus.py`, and
`FloorStatus` is `assess_minimum_analysis_floor` over any evidence the other
components may have left; `ExecutionsOnly` is the path without models.
`requireProof` is the operator's setting
`require_formal_or_reproduction_for_confirmed_critical` (on by default, off with
`--no-require-formal-or-reproduction-for-confirmed-critical`): `Capped` demotes a
confirmed critical finding without executable proof only while it is on.  In the
instance the verifier never answers "insufficient context" itself, so that
`CompleteIsEarned` can tell the verifier's decision from the placeholder the host
puts in its place when the verifier failed.

## Runs

| Run | Instance | Shows |
|---|---|---|
| `CostLedger` | 2 processes, 2 requests, amounts 1-2, charges 0, 4 or unknown, cap 3 | all safety properties and the refinement, through races, failures and crashes (about half a million states, with symmetry over request ids) |
| `CostLedgerLive` | 2 processes with different caps, 1 request | every call ends |
| `CostLedgerClock` | as above, clock may step back | **violation**: the ledger becomes unreadable |
| `SchedulerJournal` | 4 tasks in 2 passes, one of them empty, all failing statuses, 2 deaths, 1 failing write, torn files | the journal's safety properties; a dead dispatch is concluded |
| `SchedulerJournalTwice` | 2 tasks, 2 deaths | **violation**: a death inside the recovery makes the journal unloadable |
| `Campaign` | 2 concurrent tasks of one role, 2 attempts each, 3 processes, overruns in cost and tokens | charges, counters, scopes, and the only six situations in which the budget is not recovered; also the process that goes on without its recovery |
| `CampaignRetry` | the same | **violation**: a retried and then successful request blocks cost recovery |
| `RpcBridge` | 1 test, 2 requests, budget 2, 1 call to the node, 1 handler slot | scopes are exact and belong to their test; a clean stop's numbers are exact and final; the budget; every call returns (1.3 million states) |
| `RpcBridgeBudget` | the same with budget 1 | **violation**: a stale connection jumps over the saturation of the budget |
| `LoopbackRelay` | 3 connections, 2 at a time, limits of 1 chunk, 1 replaced path, 1 signal | the exit code, the route, the limits, the sweep and the end of a run (1.3 million states) |
| `LoopbackRelaySignal` | 1 connection, 1 signal | **violation**: the handler waits for its own thread's lock |
| `Findings` | 3 candidates of which 0 to 2 are executions, every similarity and link, 1 drift | groups, grounding, executions, completeness; with the proof requirement on, and off for reviews alone (2.7 million states) |

Why the bounds suffice.  Two processes are enough for every race on one lock,
and two requests for a reservation that competes with another's charge; the
amounts put the cap below, at and above the sums.  Two passes of two tasks
give concurrency and dependency; a second death is what reaches
the recovery of a recovery, and one failing write combined with it a memory that
differs from the disk.  Two attempts give the retry, and three processes a
recovery that is itself interrupted.  The role cap 4 lies between what one task
with a retry and both tasks may hold.  For the bridge, two requests give one that
straddles a boundary and one that is counted after it, or two that compete for
the only slot; the budgets lie at and just below them.  The relay's third
connection is the one over the concurrent limit after two, or over the total
after one has finished; a chunk limit of one makes every second chunk an excess.
Three candidates are the least in which a review bridges two executions, or an
execution and an unrelated review.  The theorems remove the
bounds for every safety property; only what is eventually done rests on them.

Deadlock is not checked for the journal and the campaign: both end when the
bounded number of deaths or processes is used up and the campaign is over or
refused.  The other models have an explicit final step and are checked for
deadlock.

### Fairness

`CostLedger!FairSpec`: a process that is not killed runs its call to the end
(weak fairness on its steps), and a waiter for a contended `flock` is served in
its turn (strong fairness on `Acquire`; the kernel queues blocked lockers).  Calls
need not begin, and a process may still fail or die at any point.
`SchedulerJournal!FairSpec`: an operator resumes an interrupted campaign and the
resumed process finishes its recovery.  Nothing obliges the campaign to go on.
`DeadDispatchConcluded` allows for the journal that the second finding makes
unloadable.
`RpcBridge!FairSpec`: the scanner, the accept loop, the admission and the cleanup
thread run and clocks advance.  Clients, the node and the handlers that wait for
them get no fairness: `CallsReturn` holds because of the deadlines.
`LoopbackRelay!FairSpec`: the main thread and a handler that can take the lock run.
Nothing is assumed of the child or of the workers.

### Findings

1. *Clock* (`CostLedgerClock`).  `reconcile` and `release` store the wall clock
   unchecked; `_parse_entry` refuses `updated_at < created_at`.  One step back of
   the clock makes the whole ledger unreadable.
2. *Interrupted recovery* (`SchedulerJournalTwice`).  A death between the
   UNCERTAIN result and its TERMINAL event, for a task with a retained output,
   leaves a journal that validation refuses before recovery can finish it.
3. *Retry* (`CampaignRetry`).  The unknown charge of a timed-out attempt makes
   `recover_active_cost_reservations` raise when the retry succeeded.
4. *Budget* (`RpcBridgeBudget`).  Admission saturates when the count equals the
   maximum after an admission; a stale connection is refused and counted, and can
   take the count past that value.
5. *Signal* (`LoopbackRelaySignal`).  The signal handler takes a lock that is not
   reentrant and that the interrupted main thread may hold.

`RefusalExplained` and `RefusedOnlyByInterruptedRecovery` say how far this goes:
outside the situations they name, every interruption can be resumed.  How a
resume fails differs: see `ContinueUnrestored` and `RefuseResume`.  Those of
`RefusalExplained` are: no reservation was made yet, a request was retried, a
reservation was released, a known charge was not retained by the journal, an
unknown charge is not the whole story of its task, or the token budget is passed
because a failed response that reported no tokens was counted as none while its
process lived and is counted at its plan by the recovery.  The attempt to prove
`RefusalExplained` for every budget is what brought the sixth to light.  A ledger with an overrun is
refused before that, when the budget manager is built.
`ScopesRespected` claims nothing once a task is errored.  `BudgetHolds` and
`RunEnds` likewise say that findings 4 and 5 are the only ways past the budget
and past the end.  Two smaller observations are part of the properties:
an unexpected error while a payload is prepared is recorded as an upstream error
without an upstream call, after which `snapshot` refuses a cleanly stopped bridge
(last clause of `CleanStopAccounts`); and a thread that cannot be started makes
the relay skip the sweep of the process group (`GroupSwept`).

## Proofs

Every invariant, every action property and the refinement that a passing run
checks is also a theorem, for every value of the constants.  The assumptions are
the named `ASSUME`s of the specifications: sets of requests and tasks are finite,
limits are natural numbers of the kind the code's validators accept, plans and
profiles have their types.  Bounds that exist for TLC (processes, deaths, failing
writes, drifts, replaced paths) are arbitrary natural numbers in the theorems.

None of the properties is inductive alone.  Each module of proofs states one
invariant (the bridge two) as a conjunction of named parts, shows
`Init => Inv` and `Inv /\ [Next]_vars => Inv'` with one lemma per part or per
group of actions, and derives the properties.

| Module | Theorems | Inductive invariant |
|---|---|---|
| `CostLedgerProofs` | `TypeCorrect`, `CapIsRespected`, `HandlesAreDurable`, `OverCapNeedsOverrun`, `ReservationsAreRecoverable`, `LedgerRefinesAccount` | `LedgerInv` |
| `SchedulerJournalProofs` | `JournalTypeCorrect`, `JournalDispatchesOnce`, `JournalDispatchIsMine`, `JournalPassOrder`, `JournalSuccess`, `JournalSealFreezes`, `JournalRefusals` | `JournalInv` |
| `CampaignProofs` | `CampaignTypeCorrect`, `CampaignOneSender`, `CampaignSentIsCharged`, `CampaignCounters`, `CampaignScopes`, `CampaignRetained`, `CampaignRefusals` | `CampaignInv` |
| `RpcBridgeProofs` | `BridgeTypeCorrect`, `BridgeScopeWindow`, `BridgeScopeExact`, `BridgeCleanStop`, `BridgeBudget`, `BridgeFrozen` | `BridgeInv`, `BookInv` |
| `LoopbackRelayProofs` | `RelayTypeCorrect`, `RelayCodeIsClean`, `RelayRoutesGuarded`, `RelayLimits`, `RelayGroupSwept` | `RelayInv` |
| `FindingsProofs` | `FindingsTypeCorrect`, `FindingsGroups`, `FindingsExecutions`, `FindingsComplete`, `FindingsGrounded` | `FindingsInv` |

*Ledger.*  That a rename loses nothing needs that the view it was computed from is
the current file.  `LedgerInv` therefore adds to types, cap and handles:
`LockInv`, that exactly the holder of the lock is past `Acquire`; `ViewInv`, that
its view is the file until it renames; `EntriesInv`, that every entry has the
shape its status demands; and `PromiseInv`, that between rename and return the
reservation to be handed out is in the file.  Totals are the number of unit
coins laid out beside the ids (`Coins`), so that sums become cardinalities of
finite sets, for which the library has theorems: `TotalMonotone` and `TotalRaise`
of `CostEntriesProofs` are all the arithmetic the cap needs.  `WriteCases` reduces
every write to three cases (created, booked, concluded), and the `...Keeps` lemmas
treat each once for all theorems.  The refinement maps the rename of each call to
the operation of the account and everything else to stuttering.
`ReservationsAreRecoverable` has the hypothesis that the clock is never set back
(`~ClockMayStepBack`); the run `CostLedgerClock` refutes it without.  The other
theorems allow clock steps.

*Journal.*  `JournalInv` says for each task which files go with each prefix of its
lifecycle (`TaskInv`), what the process may still be doing with it
(`TransportInv`), and for the operation in progress which writes are outstanding
and what they rely on (`TodoInv`): a death may come between any two of them, so a
loaded journal is any state this describes without its `todo`.  `PendingInv` says
when a result may lack its event, `CampaignInv` that passes are planned, run and
sealed one after the other.  `JournalRefusals` then goes through the conditions of
`_validate_loaded_state` one by one.

*Campaign.*  `CampaignInv` joins three records of the same money.  `ManagerInv`
makes every counter in memory a total over the manager's own reservations;
`LiveInv` equates those totals with the ledger's, less the reservations a resumed
process has adopted and not yet repeated; `RolesInv` bounds the ledger by role.
For each task `TaskInv` relates the place of its coroutine to its last event
(`PcInv`), the usage record in the making to the entries it names (`RecordInv`,
`Joined`), and the requests made to the one process that made them
(`SendersInv`).  `UnrestoredInv` describes the process that goes on after a failed
cost recovery: the manager still demands recovery, nothing is issued, and no
coroutine is past its first reservation.  With `NoneSent` (the number of such a
process is on no request) it gives the second half of `CountersAgree`: counters
that disagree with the ledger are never spent from.  `TokensInv` bounds the tokens that retained records stand for by
what was spent, unless a charge was lost on the way; that is what decides whether
`restore_recovered_usage` can refuse.

*Bridge.*  `BridgeInv` is about places and order: which boundary the scanner is at
(`PhaseInv`), that the queue is in the order connections were made
(`BacklogInv`), that a boundary is sealed only after its probe was accepted
(`AcceptedInv`), hence that a request made before a probe is admitted or refused
before the boundary (`WaitingInv`, `BornInv`, `WindowInv`), and what a clean stop has
waited for (`StopInv`).  `BookInv` is about numbers: each counter of the bridge, of
the open scope and of each sealed scope is the sum of the shares of the
connections it accounts for (`OpenBook`, `SealedBooks`, `BridgeBook`).  `ScopeExact`
and `CleanStopAccounts` need both.

*Relay.*  `SupervisionInv` says what the main thread has done about the child at
each place, `ThreadInv` which threads are registered, `RouteInv` which socket a
stream goes to, `ActiveInv` who is counted.  `TotalInv` is the strengthening the
byte limit needs: past the limit nobody reads another chunk, so that the excess
is bounded by the chunks already read.

*Findings.*  The grouping is a recursive function over the pairs in loop order, and
its soundness an induction over it.  The library's induction theorems take an
operator as parameter, which the provers cannot instantiate; `DataInduction`
states induction and recursion over an interval with a set and a function
instead, from the well-foundedness of the natural numbers.  `RootsRooted` carries
the invariant of the loop (classes are connected, and an execution is only with
what the host linked to it), and `PairMet` says that the loops meet every pair.  The rest of `FindingsInv`
follows the passes: `WorkInv` what is decided for whom, `JudgeInv` for which groups
the judge has answered, `ReportInv` what has been reported, `EndInv` the status.
`FindingsGrounded` says of every reported finding that it stands; of a confirmed
one that standing candidates of its group substantiate it; and of a confirmed
critical one that it has executable proof if the operator requires it.

Only model-checked: liveness (`CallsEnd`, `DeadDispatchConcluded`, `CallsReturn`,
`RunEnds`), which depends on fairness and so on ENABLED, out of the prover's reach;
and the five violations, which are counterexamples on an instance.

## Not modelled

The map covers about four percent of the implementation's lines, because most of
them are not behaviour.  About 12,000 lines of `models/schemas.py`, 6,000 of
`orchestration/manifest.py`, 6,000 of `models/scheduler.py`, 5,000 of
`models/qualification.py` and most of `benchmark/`, `reporting/` and the release
gates are field-by-field validators, digests over canonical JSON and their error
messages: a model of them would restate each comparison, and no order of events
can make them wrong.  `solidity/` parses and walks syntax trees; `agents/`
builds prompts; `cli.py` and `config.py` read arguments.  Of `pipeline.py` the
parts that assemble contexts, packages and report fields are left out for the
same reason.  What remains with state or concurrency of its own and is worth a
model is listed in the plan.

Within the modelled components, left out are: the digests that bind journal
artifacts to each other; candidate worksets as evidence (their effect is in
`Findings`); the campaign baseline; catalogue discovery and privacy policy of the
provider client; the contents of RPC payloads and the identity of Unix listeners;
similarity scores and location checks as text.

## Plan

Done: the ledger with its refinement, the journal, the budget manager and their
composition, the RPC bridge, the relay, the findings; and the proofs of every
invariant and action property that the passing runs check.  Next, in this order:

1. Proofs: the abstraction `Campaign` makes of the journal (last event, terminal
   status, retained usage) as a refinement; lemmas that let the proofs of the
   campaign and of the bridge become shorter.
2. `PipelineScheduler`: prepare, resume and conclude a pass, host and empty tasks,
   halting, composed with an abstract journal that `SchedulerJournal` implements;
   the campaign baseline and start-up.
3. Liveness of `Campaign`: a campaign that is not interrupted ends.
4. `RefreshStaging` and the portfolio's checkpoints: replaced sets of files;
   process supervision of `scanners/runner.py`.
