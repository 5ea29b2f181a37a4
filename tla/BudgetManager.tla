--------------------------- MODULE BudgetManager ---------------------------
(* BudgetManager: what one audit process keeps in memory about the money its *)
(* provider requests hold and have spent, beside the persistent ledger.  Its *)
(* methods run one at a time under an asyncio lock, so each is one step; the *)
(* ledger's own steps are the business of CostLedger, and here a ledger call *)
(* is atomic, as CostAccount promises.                                       *)
EXTENDS CostEntries

CONSTANTS
    Task,           \* scheduled model requests
    MaxAttempts,    \* max_model_retries + 1
    Role,
    RoleOf,         \* the role a task asks for
    CostOf,         \* the maximum cost of one attempt at a task
    TokensOf,       \* the tokens planned for one attempt at a task
    LedgerCap,      \* cap_usd of the ledger
    TotalUsd,       \* total_usd of the manager
    RoleCap,        \* per_role_usd_caps
    TokenBudget,    \* global_output_token_budget
    MaxRequests     \* max_requests_per_agent

ASSUME AttemptAssumption == MaxAttempts \in Nat \ {0} /\ MaxRequests \in Nat \ {0}
ASSUME RequestAssumption == RequestId = Task \X (1 .. MaxAttempts)
ASSUME PlanAssumption ==
    /\ RoleOf \in [Task -> Role]
    /\ CostOf \in [Task -> Amount]
    /\ TokensOf \in [Task -> Nat]
ASSUME CapAssumption ==
    /\ LedgerCap \in Nat \ {0} /\ TotalUsd \in Nat /\ TokenBudget \in Nat
    /\ RoleCap \in [Role -> Nat]

VARIABLES
    ledger,     \* the persistent entries, shared with later processes
    budget      \* the manager of this process

TaskOf(id) == id[1]
AttemptOf(id) == id[2]
RoleOfId(id) == RoleOf[TaskOf(id)]

(* The sum of f over the ids that satisfy a test.                            *)
TotalWhere(f, Test(_)) == Total([id \in RequestId |-> IF Test(id) THEN f[id] ELSE 0])

AccountedOf(entries) == [id \in RequestId |-> entries[id].accounted]

(* BudgetManager.__init__ of a process that finds these ledger entries.      *)
(* reserved[id] = 0 stands for an id that _reserved does not hold.  Models   *)
(* are scoped exactly like roles, and input tokens like output tokens.       *)
NewManager(entries) ==
    [reserved      |-> [id \in RequestId |-> 0],
     issued        |-> {},
     reconciled    |-> {},
     released      |-> {},
     pending       |-> {},
     spent         |-> Total(AccountedOf(entries)),
     roleReserved  |-> [r \in Role |-> 0],
     roleSpent     |-> [r \in Role |-> 0],
     tokenReserved |-> 0,
     tokenSpent    |-> 0,
     requests      |-> [t \in Task |-> 0],
     recovery      |-> Recorded(entries) # {}]

(* BudgetReservationStateError, or an id the ledger already knows: an error  *)
(* that no caller handles.                                                   *)
WrongState(id) ==
    \/ budget.recovery
    \/ id \in budget.issued
    \/ budget.pending # {} /\ id \notin budget.pending
    \/ id \notin budget.pending /\ ledger[id] # NoEntry

(* Fault: the capacity left for a role ignores what is in flight.            *)
ScopedCapacityBySpent(id) ==
    /\ CostOf[TaskOf(id)] <= RoleCap[RoleOfId(id)] - budget.roleSpent[RoleOfId(id)]
    /\ TokensOf[TaskOf(id)] <= TokenBudget - budget.tokenSpent - budget.tokenReserved

(* _require_scoped_capacity                                                  *)
ScopedCapacity(id) ==
    LET r == RoleOfId(id)
    IN  /\ CostOf[TaskOf(id)] <= RoleCap[r] - budget.roleSpent[r] - budget.roleReserved[r]
        /\ TokensOf[TaskOf(id)] <= TokenBudget - budget.tokenSpent - budget.tokenReserved

(* No BudgetExhaustedError: neither the manager nor the ledger refuses.  An  *)
(* adopted reservation is already held by the ledger.                        *)
Affordable(id) ==
    LET t == TaskOf(id)
    IN  /\ budget.requests[t] < MaxRequests
        /\ CostOf[t] <= TotalUsd - budget.spent - Total(budget.reserved)
        /\ ScopedCapacity(id)
        /\ id \notin budget.pending =>
            /\ ~HasOverrun(ledger)
            /\ CostOf[t] <= Remaining(LedgerCap, ledger)

(* reserve: a fresh ledger reservation, or the adopted one.                  *)
Reserve(id) ==
    LET t == TaskOf(id)
        r == RoleOfId(id)
    IN  /\ ~WrongState(id)
        /\ Affordable(id)
        /\ ledger' = IF id \in budget.pending THEN ledger
                     ELSE [ledger EXCEPT ![id] = ReservedEntry(CostOf[t])]
        /\ budget' = [budget EXCEPT !.reserved[id] = CostOf[t],
                                    !.issued = @ \cup {id},
                                    !.pending = @ \ {id},
                                    !.requests[t] = @ + 1,
                                    !.roleReserved[r] = @ + CostOf[t],
                                    !.tokenReserved = @ + TokensOf[t]]

(* Fault: the role keeps its reservation after the charge is known.          *)
CloseWithoutRelease(b, id, cost, tokens) ==
    LET r == RoleOfId(id)
    IN  [b EXCEPT !.roleSpent[r] = @ + cost,
                  !.tokenReserved = @ - TokensOf[TaskOf(id)],
                  !.tokenSpent = @ + tokens]

(* _close_scoped_reservation: the reservation of every scope is replaced by  *)
(* what the attempt is accounted at.                                         *)
CloseScoped(b, id, cost, tokens) ==
    LET r == RoleOfId(id)
    IN  [b EXCEPT !.roleReserved[r] = @ - b.reserved[id],
                  !.roleSpent[r] = @ + cost,
                  !.tokenReserved = @ - TokensOf[TaskOf(id)],
                  !.tokenSpent = @ + tokens]

Active(id) == id \in budget.issued \ (budget.reconciled \cup budget.released)

(* reconcile: the ledger entry first, then the memory.  An overrun is        *)
(* recorded like any other charge before its error is raised.                *)
Reconcile(id, actual, tokens) ==
    /\ Active(id)
    /\ ledger' = [ledger EXCEPT ![id] = ReconciledEntry(@, actual, TRUE)]
    /\ LET cost == AccountedCost(budget.reserved[id], actual)
       IN  budget' = [CloseScoped(budget, id, cost, tokens) EXCEPT
                          !.reserved[id] = 0,
                          !.spent = @ + cost,
                          !.reconciled = @ \cup {id}]

(* release: only before the transport was entered.                           *)
Release(id) ==
    /\ Active(id)
    /\ ledger' = [ledger EXCEPT ![id] = ReleasedEntry(@, "failed_before_send", TRUE)]
    /\ budget' = [budget EXCEPT !.reserved[id] = 0,
                                !.released = @ \cup {id},
                                !.roleReserved[RoleOfId(id)] = @ - budget.reserved[id],
                                !.tokenReserved = @ - TokensOf[TaskOf(id)]]

-----------------------------------------------------------------------------
(* Recovery of the counters by a later process.                              *)

(* The retained usage record of a task: the attempts it stands for, what     *)
(* they were accounted at, and what the provider reported for the last one.  *)
Usage == [attempts: 0 .. MaxAttempts, accounted: Nat, reported: Nat \cup {Unknown},
          tokens: Nat, creditable: BOOLEAN]
NoUsage == [attempts |-> 0, accounted |-> 0, reported |-> Unknown, tokens |-> 0,
            creditable |-> FALSE]

(* Fault: the last attempt of a record is left out.                          *)
CoveredExceptLast(usage) == {id \in RequestId : AttemptOf(id) < usage[TaskOf(id)].attempts}

(* The attempts that retained records stand for.                             *)
Covered(usage) == {id \in RequestId : AttemptOf(id) <= usage[TaskOf(id)].attempts}

(* A record is accepted when the ledger holds the very same charges.         *)
JoinsLedger(record, t) ==
    record.attempts > 0 =>
        LET last == ledger[<<t, record.attempts>>]
        IN  /\ \A id \in {t} \X (1 .. record.attempts) :
                ledger[id].status \in {"reconciled", "uncertain_accounted"}
            /\ record.creditable => last.status = "reconciled"
            /\ record.reported = last.actual
            /\ record.accounted =
                TotalWhere(AccountedOf(ledger),
                           LAMBDA id : TaskOf(id) = t /\ AttemptOf(id) <= record.attempts)

(* Tokens a recovered record stands for: the plan for every attempt that was *)
(* retried, and for a last one that reported nothing.                        *)
RecoveredTokens(usage) ==
    [id \in RequestId |->
        LET u == usage[TaskOf(id)]
        IN  CASE AttemptOf(id) > u.attempts -> 0
              [] AttemptOf(id) = u.attempts /\ (u.creditable \/ u.tokens > 0) -> u.tokens
              [] OTHER -> TokensOf[TaskOf(id)]]

TokensAfterRecovery(usage, uncertain) ==
    IF uncertain # {} THEN TokenBudget ELSE Total(RecoveredTokens(usage))

(* restore_recovered_usage accepts what the journal claims: every entry of   *)
(* the ledger is bound to exactly one claim.                                 *)
Restorable(usage, adopted, uncertain) ==
    /\ budget.recovery
    /\ \A t \in Task : JoinsLedger(usage[t], t)
    /\ (adopted \cup uncertain) \cap Covered(usage) = {}
    /\ \A id \in uncertain : usage[TaskOf(id)] = NoUsage
    /\ \A id \in adopted : ledger[id].status = "reserved"
    /\ \A id \in uncertain : ledger[id].status = "uncertain_accounted"
    /\ Recorded(ledger) = Covered(usage) \cup adopted \cup uncertain
    /\ TokensAfterRecovery(usage, uncertain) <= TokenBudget

(* restore_recovered_usage                                                   *)
Restore(usage, adopted, uncertain) ==
    /\ Restorable(usage, adopted, uncertain)
    /\ budget' =
        [budget EXCEPT
            !.pending = adopted,
            !.spent = Total(AccountedOf(ledger)),
            !.roleSpent = [r \in Role |->
                TotalWhere(AccountedOf(ledger),
                           LAMBDA id : /\ RoleOfId(id) = r
                                       /\ id \in Covered(usage) \cup uncertain)],
            !.tokenSpent = TokensAfterRecovery(usage, uncertain),
            !.requests = [t \in Task |->
                IF \E id \in uncertain : TaskOf(id) = t THEN 1 ELSE usage[t].attempts],
            !.recovery = FALSE]
    /\ UNCHANGED ledger
=============================================================================
