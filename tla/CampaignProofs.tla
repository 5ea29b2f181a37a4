--------------------------- MODULE CampaignProofs ---------------------------
(* The safety properties of Campaign, for every set of tasks, every number   *)
(* of attempts and of processes, and every budget.                           *)
EXTENDS Campaign, CostEntriesProofs, TLAPS

-----------------------------------------------------------------------------
(* The inductive invariant.                                                  *)

(* What an entry records once its reservation is concluded.                  *)
EntryOK(e, cost) ==
    /\ e.status = Unrecorded => e = NoEntry
    /\ e.status # Unrecorded => e.reserved = cost
    /\ e.status \in {"reserved", "released"} => e.accounted = 0
    /\ e.status = "uncertain_accounted" => e.actual = Unknown /\ e.accounted = cost
    /\ e.status = "reconciled" =>
        e.actual \in Nat /\ e.accounted = e.actual /\ e.actual <= cost
    /\ e.status = "reservation_overrun" => e.accounted = e.actual

LedgerInv ==
    /\ ledger \in [RequestId -> Entry]
    /\ \A id \in RequestId : EntryOK(ledger[id], CostOf[TaskOf(id)])

Manager ==
    [reserved: [RequestId -> Nat],
     issued: SUBSET RequestId, reconciled: SUBSET RequestId,
     released: SUBSET RequestId, pending: SUBSET RequestId,
     spent: Nat, roleReserved: [Role -> Int], roleSpent: [Role -> Nat],
     tokenReserved: Int, tokenSpent: Nat, requests: [Task -> Nat],
     recovery: BOOLEAN]

(* The manager with these fields.                                            *)
Made(res, iss, rec, rel, pend, sp, rres, rsp, tres, tsp, reqs, recov) ==
    [reserved |-> res, issued |-> iss, reconciled |-> rec, released |-> rel,
     pending |-> pend, spent |-> sp, roleReserved |-> rres, roleSpent |-> rsp,
     tokenReserved |-> tres, tokenSpent |-> tsp, requests |-> reqs, recovery |-> recov]

(* The terms of the manager's counters.                                      *)
ReservedOf(f, r) == [id \in RequestId |-> IF RoleOfId(id) = r THEN f[id] ELSE 0]
InFlight(b) == b.issued \ (b.reconciled \cup b.released)
Planned(b) == [id \in RequestId |-> IF id \in InFlight(b) THEN TokensOf[TaskOf(id)] ELSE 0]

(* What the memory of a process holds about its own reservations.            *)
ManagerInv ==
    /\ budget \in Manager
    /\ budget.reconciled \cup budget.released \subseteq budget.issued
    /\ budget.issued \cap budget.pending = {}
    /\ \A id \in RequestId :
        budget.reserved[id] = IF id \in InFlight(budget) THEN CostOf[TaskOf(id)] ELSE 0
    /\ \A t \in Task : budget.requests[t] <= MaxRequests
    /\ \A r \in Role : budget.roleReserved[r] = Total(ReservedOf(budget.reserved, r))
    /\ budget.tokenReserved = Total(Planned(budget))

(* The money the ledger holds, but for the reservations yet to be repeated.  *)
Free(entries, pend) ==
    [id \in RequestId |-> IF id \notin pend THEN Hold(entries[id]) ELSE 0]
FreeOf(entries, pend, r) ==
    [id \in RequestId |-> IF RoleOfId(id) = r /\ id \notin pend THEN Hold(entries[id]) ELSE 0]
HeldOf(entries, r) ==
    [id \in RequestId |-> IF RoleOfId(id) = r THEN Hold(entries[id]) ELSE 0]

(* Memory and ledger of a live process.                                      *)
LiveInv ==
    /\ \A id \in RequestId :
        ledger[id].status = "reserved" <=> id \in InFlight(budget) \/ id \in budget.pending
    /\ budget.spent + Total(budget.reserved) = Total(Free(ledger, budget.pending))
    /\ \A r \in Role : budget.roleSpent[r] + budget.roleReserved[r] =
                        Total(FreeOf(ledger, budget.pending, r))

(* The ledger never holds more for a role than its cap, but for an overrun.  *)
RolesInv ==
    ~HasOverrun(ledger) => \A r \in Role : Total(HeldOf(ledger, r)) <= RoleCap[r]

Ours(t) == {id \in RequestId : TaskOf(id) = t}
Waiting == {"sending", "waiting"}
Reserving == {"reserving", "reserved"}
Fresh == {"PLANNED", "ACTIVATED"}

StateOK ==
    /\ phase \in [Task -> Phase] /\ terminal \in [Task -> Terminals \cup {"none"}]
    /\ usage \in [Task -> Usage] /\ local \in [Task -> Usage]
    /\ mode \in {"live", "down", "recovering", "unrestored"} /\ pc \in [Task -> Location]
    /\ senders \in [RequestId -> SUBSET (1 .. MaxRuns)] /\ run \in 1 .. MaxRuns

(* What the journal, the ledger and the requests made so far say of a task,  *)
(* whether or not a process is alive.                                        *)
JournalInv(t) ==
    /\ phase[t] = "PLANNED" => \A id \in Ours(t) : ledger[id].status = Unrecorded
    /\ phase[t] \in Fresh =>
        /\ usage[t] = NoUsage
        /\ \A id \in Ours(t) : /\ senders[id] = {}
                               /\ ledger[id].status \in {Unrecorded, "reserved", "released"}
    /\ usage[t] # NoUsage => usage[t].attempts > 0 /\ usage[t].attempts <= MaxRequests

SendersInv(t) ==
    /\ \E r \in 1 .. MaxRuns : \A id \in Ours(t) : senders[id] \subseteq {r}
    /\ mode # "down" /\ pc[t] # "done" => \A id \in Ours(t) : senders[id] \subseteq {run}

(* Where a coroutine stands, and what that says of the journal.              *)
PcInv(t) ==
    /\ pc[t] = "idle" => phase[t] \in Fresh /\ local[t] = NoUsage
    /\ pc[t] \in Reserving =>
        /\ local[t].attempts < MaxAttempts
        /\ phase[t] = IF local[t].attempts = 0 THEN "ACTIVATED" ELSE "DISPATCHED"
    /\ pc[t] = "reserved" => Following(t) \in InFlight(budget)
    /\ pc[t] \in Waiting => /\ phase[t] = "DISPATCHED"
                            /\ local[t].attempts > 0
                            /\ This(t) \in InFlight(budget)
    /\ pc[t] \in {"completed", "retained"} => phase[t] = "DISPATCHED" /\ local[t].attempts > 0
    /\ pc[t] = "failed" =>
        IF local[t].attempts = 0 THEN phase[t] \in Fresh ELSE phase[t] = "DISPATCHED"
    /\ pc[t] = "done" => phase[t] = "TERMINAL"
    /\ pc[t] \notin {"retained", "done"} => usage[t] = NoUsage
    /\ pc[t] \in Reserving \cup Waiting =>
        \A id \in Ours(t) : AttemptOf(id) > local[t].attempts => senders[id] = {}

(* A usage record against the entries of a ledger.                           *)
Upto(entries, t, n) ==
    [id \in RequestId |->
        IF TaskOf(id) = t /\ AttemptOf(id) <= n THEN entries[id].accounted ELSE 0]

Joined(entries, record, t) ==
    record.attempts > 0 =>
        /\ \A id \in Ours(t) : AttemptOf(id) <= record.attempts =>
            entries[id].status \in {"reconciled", "uncertain_accounted"}
        /\ record.creditable => entries[<<t, record.attempts>>].status = "reconciled"
        /\ record.reported = entries[<<t, record.attempts>>].actual
        /\ record.accounted = Total(Upto(entries, t, record.attempts))

(* The record a coroutine is making: until a response arrives every attempt  *)
(* that was closed is charged in full.                                       *)
RecordInv(t) ==
    /\ pc[t] \in Reserving \cup Waiting =>
        /\ ~local[t].creditable
        /\ local[t].tokens = 0 /\ local[t].reported = Unknown
        /\ local[t].accounted = Total(Upto(ledger, t, local[t].attempts))
        /\ \A id \in Ours(t) :
            AttemptOf(id) <= (IF pc[t] \in Waiting THEN local[t].attempts - 1
                                                   ELSE local[t].attempts) =>
                ledger[id].status = "uncertain_accounted"
    /\ pc[t] \in {"completed", "failed"} => Joined(ledger, local[t], t)
    /\ pc[t] \in Reserving \cup Waiting \cup {"completed", "failed"} =>
        local[t].attempts + (IF pc[t] = "reserved" THEN 1 ELSE 0) <= budget.requests[t]

RecoveringInv ==
    /\ InFlight(budget) = {} /\ budget.issued = {} /\ budget.pending = {}
    /\ budget.recovery <=> Recorded(ledger) # {}
    /\ ~HasOverrun(ledger)
    /\ \A t \in Task : /\ pc[t] = IF phase[t] \in Fresh THEN "idle" ELSE "done"
                       /\ phase[t] # "DISPATCHED"
                       /\ local[t] = NoUsage

(* A process whose recovery failed: nothing was reserved and no task is past *)
(* its first reservation, which the manager refuses.                         *)
UnrestoredInv ==
    /\ budget.recovery /\ budget.issued = {}
    /\ \A t \in Task : /\ pc[t] \in {"idle", "reserving", "failed", "errored", "done"}
                       /\ pc[t] # "done" => phase[t] \in Fresh
                       /\ local[t] = NoUsage

(* The tokens that records stand for, and the best record of each task.      *)
Known(records) ==
    [id \in RequestId |-> IF AttemptOf(id) = records[TaskOf(id)].attempts
                          THEN records[TaskOf(id)].tokens ELSE 0]
Best == [t \in Task |-> IF usage[t] = NoUsage THEN local[t] ELSE usage[t]]

(* A charge that no retained record will ever explain.                       *)
Lost(id) ==
    /\ ledger[id].status = "reconciled"
    /\ usage[TaskOf(id)] = NoUsage
    /\ pc[TaskOf(id)] \in {"errored", "done"}
Spoilt == HasOverrun(ledger) \/ \E id \in RequestId : Lost(id)

TokensInv ==
    /\ mode = "live" => Total(Known(Best)) <= budget.tokenSpent
    /\ mode = "live" =>
        Spoilt \/ budget.tokenSpent + budget.tokenReserved <= TokenBudget
    /\ mode = "live" /\ (\A t \in Task : pc[t] # "errored") =>
        ~HasOverrun(ledger) /\ budget.tokenSpent + budget.tokenReserved <= TokenBudget
    /\ Spoilt \/ Total(Known(usage)) <= TokenBudget

AccountsInv == LedgerInv /\ ManagerInv /\ RolesInv /\ (mode = "live" => LiveInv)

TaskInv(t) ==
    /\ JournalInv(t)
    /\ SendersInv(t)
    /\ Joined(ledger, usage[t], t)
    /\ mode \in {"live", "recovering"} => PcInv(t)
    /\ mode = "live" => RecordInv(t)

CampaignInv ==
    /\ AccountsInv
    /\ StateOK
    /\ \A t \in Task : TaskInv(t)
    /\ SentIsCharged
    /\ mode = "recovering" => RecoveringInv
    /\ mode = "unrestored" => UnrestoredInv
    /\ TokensInv

-----------------------------------------------------------------------------
(* Identifiers and plans.                                                    *)

(* A request identifier is a task and the number of an attempt.              *)
LEMMA IdParts ==
    ASSUME NEW id \in RequestId
    PROVE  /\ TaskOf(id) \in Task /\ RoleOfId(id) \in Role
           /\ AttemptOf(id) \in 1 .. MaxAttempts /\ AttemptOf(id) \in Nat
           /\ id = <<TaskOf(id), AttemptOf(id)>>
BY RequestAssumption, PlanAssumption, AttemptAssumption DEF TaskOf, AttemptOf, RoleOfId

(* Every attempt of a task has its identifier.                               *)
LEMMA IdMade ==
    ASSUME NEW t \in Task, NEW a \in 1 .. MaxAttempts
    PROVE  <<t, a>> \in RequestId /\ TaskOf(<<t, a>>) = t /\ AttemptOf(<<t, a>>) = a
BY RequestAssumption DEF TaskOf, AttemptOf

(* An attempt costs something and has a plan for its tokens.                 *)
LEMMA Plans ==
    ASSUME NEW t \in Task
    PROVE  CostOf[t] \in Nat /\ CostOf[t] > 0 /\ TokensOf[t] \in Nat /\ RoleOf[t] \in Role
<1>1. CostOf[t] \in Nat \ {0}
  BY PlanAssumption, AmountAssumption
<1> QED BY <1>1, PlanAssumption

-----------------------------------------------------------------------------
(* The effect of each call of the manager, field by field.                   *)

(* reserve() moves the attempt into flight in every scope.                   *)
LEMMA ReserveEffect ==
    ASSUME NEW id \in RequestId, budget \in Manager, Reserve(id)
    PROVE  /\ budget' \in Manager
           /\ budget'.reserved = [budget.reserved EXCEPT ![id] = CostOf[TaskOf(id)]]
           /\ budget'.issued = budget.issued \cup {id}
           /\ budget'.reconciled = budget.reconciled /\ budget'.released = budget.released
           /\ budget'.pending = budget.pending \ {id}
           /\ budget'.spent = budget.spent
           /\ budget'.roleReserved =
                [budget.roleReserved EXCEPT ![RoleOfId(id)] = @ + CostOf[TaskOf(id)]]
           /\ budget'.roleSpent = budget.roleSpent
           /\ budget'.tokenReserved = budget.tokenReserved + TokensOf[TaskOf(id)]
           /\ budget'.tokenSpent = budget.tokenSpent
           /\ budget'.requests = [budget.requests EXCEPT ![TaskOf(id)] = @ + 1]
           /\ budget'.recovery = budget.recovery
<1>1. PICK t \in Task : t = TaskOf(id)
  BY IdParts
<1>2. PICK r \in Role : r = RoleOfId(id)
  BY IdParts
<1>3. CostOf[t] \in Nat /\ TokensOf[t] \in Nat
  BY <1>1, Plans
<1>4. budget' = [budget EXCEPT !.reserved[id] = CostOf[t],
                               !.issued = @ \cup {id},
                               !.pending = @ \ {id},
                               !.requests[t] = @ + 1,
                               !.roleReserved[r] = @ + CostOf[t],
                               !.tokenReserved = @ + TokensOf[t]]
  BY <1>1, <1>2 DEF Reserve
<1>5. budget.roleReserved[r] \in Int /\ budget.requests[t] \in Nat
  BY <1>1, <1>2 DEF Manager
<1>6. budget' =
         Made([budget.reserved EXCEPT ![id] = CostOf[t]],
                    budget.issued \cup {id}, budget.reconciled,
                    budget.released, budget.pending \ {id},
                    budget.spent, [budget.roleReserved EXCEPT ![r] = @ + CostOf[t]],
                    budget.roleSpent,
                    budget.tokenReserved + TokensOf[t], budget.tokenSpent,
                    [budget.requests EXCEPT ![t] = @ + 1], budget.recovery)
  BY <1>4 DEF Manager, Made
<1>7. budget' \in Manager
  <2>1. [budget.reserved EXCEPT ![id] = CostOf[t]] \in [RequestId -> Nat]
    BY <1>3 DEF Manager
  <2>2. [budget.roleReserved EXCEPT ![r] = @ + CostOf[t]] \in [Role -> Int]
    BY <1>3, <1>5 DEF Manager
  <2>3. [budget.requests EXCEPT ![t] = @ + 1] \in [Task -> Nat]
    BY <1>5 DEF Manager
  <2>4. budget.tokenReserved + TokensOf[t] \in Int
    BY <1>3 DEF Manager
  <2> QED BY <1>6, <2>1, <2>2, <2>3, <2>4 DEF Manager, Made
<1> QED BY <1>1, <1>2, <1>6, <1>7 DEF Made

(* release() takes it out again.                                             *)
LEMMA ReleaseEffect ==
    ASSUME NEW id \in RequestId, budget \in Manager, Release(id)
    PROVE  /\ budget' \in Manager
           /\ budget'.reserved = [budget.reserved EXCEPT ![id] = 0]
           /\ budget'.issued = budget.issued
           /\ budget'.reconciled = budget.reconciled
           /\ budget'.released = budget.released \cup {id}
           /\ budget'.pending = budget.pending
           /\ budget'.spent = budget.spent
           /\ budget'.roleReserved =
                [budget.roleReserved EXCEPT ![RoleOfId(id)] = @ - budget.reserved[id]]
           /\ budget'.roleSpent = budget.roleSpent
           /\ budget'.tokenReserved = budget.tokenReserved - TokensOf[TaskOf(id)]
           /\ budget'.tokenSpent = budget.tokenSpent
           /\ budget'.requests = budget.requests
           /\ budget'.recovery = budget.recovery
<1>1. PICK t \in Task : t = TaskOf(id)
  BY IdParts
<1>2. PICK r \in Role : r = RoleOfId(id)
  BY IdParts
<1>3. TokensOf[t] \in Nat
  BY <1>1, Plans
<1>4. budget' = [budget EXCEPT !.reserved[id] = 0,
                               !.released = @ \cup {id},
                               !.roleReserved[r] = @ - budget.reserved[id],
                               !.tokenReserved = @ - TokensOf[t]]
  BY <1>1, <1>2 DEF Release
<1>5. budget.roleReserved[r] \in Int /\ budget.reserved[id] \in Nat
  BY <1>1, <1>2 DEF Manager
<1>6. budget' =
         Made([budget.reserved EXCEPT ![id] = 0],
                    budget.issued, budget.reconciled,
                    budget.released \cup {id}, budget.pending,
                    budget.spent, [budget.roleReserved EXCEPT ![r] = @ - budget.reserved[id]],
                    budget.roleSpent,
                    budget.tokenReserved - TokensOf[t], budget.tokenSpent,
                    budget.requests, budget.recovery)
  BY <1>4 DEF Manager, Made
<1>7. budget' \in Manager
  BY <1>1, <1>2, <1>3, <1>4, <1>5, <1>6 DEF Manager, Made
<1> QED BY <1>1, <1>2, <1>3, <1>4, <1>5, <1>6, <1>7 DEF Made

(* reconcile() replaces what was in flight by what it is accounted at.       *)
LEMMA ReconcileEffect ==
    ASSUME NEW id \in RequestId, budget \in Manager,
           NEW actual \in Nat \cup {Unknown}, NEW tokens \in Nat,
           Reconcile(id, actual, tokens)
    PROVE  LET cost == AccountedCost(budget.reserved[id], actual)
           IN  /\ cost \in Nat
               /\ budget' \in Manager
               /\ budget'.reserved = [budget.reserved EXCEPT ![id] = 0]
               /\ budget'.issued = budget.issued
               /\ budget'.reconciled = budget.reconciled \cup {id}
               /\ budget'.released = budget.released
               /\ budget'.pending = budget.pending
               /\ budget'.spent = budget.spent + cost
               /\ budget'.roleReserved =
                    [budget.roleReserved EXCEPT ![RoleOfId(id)] = @ - budget.reserved[id]]
               /\ budget'.roleSpent =
                    [budget.roleSpent EXCEPT ![RoleOfId(id)] = @ + cost]
               /\ budget'.tokenReserved = budget.tokenReserved - TokensOf[TaskOf(id)]
               /\ budget'.tokenSpent = budget.tokenSpent + tokens
               /\ budget'.requests = budget.requests
               /\ budget'.recovery = budget.recovery
<1>1. PICK t \in Task : t = TaskOf(id)
  BY IdParts
<1>2. PICK r \in Role : r = RoleOfId(id)
  BY IdParts
<1>3. TokensOf[t] \in Nat
  BY <1>1, Plans
<1>4. budget.reserved[id] \in Nat
  BY <1>1, <1>2 DEF Manager
<1>5. PICK cost \in Nat : cost = AccountedCost(budget.reserved[id], actual)
  BY <1>4 DEF AccountedCost
<1>6. PICK b : b = CloseScoped(budget, id, cost, tokens)
  OBVIOUS
<1>7. budget.roleReserved[r] \in Int /\ budget.roleSpent[r] \in Nat
  BY <1>1, <1>2 DEF Manager
<1>8. b = Made(budget.reserved, budget.issued, budget.reconciled, budget.released,
               budget.pending, budget.spent,
               [budget.roleReserved EXCEPT ![r] = @ - budget.reserved[id]],
               [budget.roleSpent EXCEPT ![r] = @ + cost],
               budget.tokenReserved - TokensOf[t], budget.tokenSpent + tokens,
               budget.requests, budget.recovery)
  BY <1>1, <1>2, <1>6 DEF CloseScoped, Manager, Made
<1>9. budget' = [b EXCEPT !.reserved[id] = 0,
                          !.spent = @ + cost,
                          !.reconciled = @ \cup {id}]
  BY <1>5, <1>6 DEF Reconcile
<1>10. budget' =
         Made([budget.reserved EXCEPT ![id] = 0],
                    budget.issued, budget.reconciled \cup {id},
                    budget.released, budget.pending,
                    budget.spent + cost,
                    [budget.roleReserved EXCEPT ![r] = @ - budget.reserved[id]],
                    [budget.roleSpent EXCEPT ![r] = @ + cost],
                    budget.tokenReserved - TokensOf[t], budget.tokenSpent + tokens,
                    budget.requests, budget.recovery)
  BY <1>8, <1>9 DEF Made
<1>11. budget' \in Manager
  BY <1>1, <1>2, <1>3, <1>4, <1>5, <1>7, <1>10 DEF Manager, Made
<1> QED BY <1>1, <1>2, <1>3, <1>4, <1>5, <1>7, <1>10, <1>11 DEF Made

-----------------------------------------------------------------------------
(* The terms of the totals.                                                  *)

(* The terms are natural numbers.                                            *)
LEMMA TermsTyped ==
    ASSUME NEW entries \in [RequestId -> Entry], NEW pend, NEW r, NEW t, NEW n
    PROVE  /\ \A id \in RequestId : Hold(entries[id]) \in Nat
           /\ Free(entries, pend) \in [RequestId -> Nat]
           /\ FreeOf(entries, pend, r) \in [RequestId -> Nat]
           /\ HeldOf(entries, r) \in [RequestId -> Nat]
           /\ Upto(entries, t, n) \in [RequestId -> Nat]
           /\ AccountedOf(entries) \in [RequestId -> Nat]
<1>1. \A id \in RequestId : Hold(entries[id]) \in Nat /\ entries[id].accounted \in Nat
  BY DEF Hold, Entry
<1> QED BY <1>1 DEF Free, FreeOf, HeldOf, Upto, AccountedOf

(* So are those of what is in flight.                                        *)
LEMMA FlightTyped ==
    ASSUME NEW b \in Manager, NEW r
    PROVE  /\ ReservedOf(b.reserved, r) \in [RequestId -> Nat]
           /\ Planned(b) \in [RequestId -> Nat]
           /\ Total(b.reserved) \in Nat
           /\ Total(ReservedOf(b.reserved, r)) \in Nat
           /\ Total(Planned(b)) \in Nat
<1>1. ReservedOf(b.reserved, r) \in [RequestId -> Nat]
  BY DEF Manager, ReservedOf
<1>2. Planned(b) \in [RequestId -> Nat]
  BY IdParts, Plans DEF Planned
<1>3. b.reserved \in [RequestId -> Nat]
  BY DEF Manager
<1> QED BY <1>1, <1>2, <1>3, CoinsFinite

-----------------------------------------------------------------------------
(* reserve().                                                                *)

(* The ledger holds the attempt, whether it is fresh or adopted.             *)
LEMMA ReserveLedger ==
    ASSUME NEW id \in RequestId, LedgerInv, ManagerInv, LiveInv, Reserve(id)
    PROVE  /\ LedgerInv'
           /\ \A o \in RequestId : o # id => ledger'[o] = ledger[o]
           /\ ledger'[id].status = "reserved"
           /\ ledger'[id].accounted = 0 /\ ledger[id].accounted = 0
           /\ Hold(ledger'[id]) = CostOf[TaskOf(id)]
           /\ id \notin budget.issued
           /\ id \in budget.pending \/ (budget.pending = {} /\ ledger[id] = NoEntry)
<1>1. /\ id \notin budget.issued
      /\ id \in budget.pending \/ (budget.pending = {} /\ ledger[id] = NoEntry)
  BY DEF Reserve, WrongState
<1>2. CostOf[TaskOf(id)] \in Nat
  BY IdParts, Plans
<1>3. CASE id \in budget.pending
  <2>1. ledger' = ledger
    BY <1>3 DEF Reserve
  <2>2. ledger[id].status = "reserved"
    BY <1>3 DEF LiveInv
  <2>3. ledger[id].accounted = 0 /\ ledger[id].reserved = CostOf[TaskOf(id)]
    BY <2>2 DEF LedgerInv, EntryOK, Unrecorded
  <2> QED BY <1>1, <1>2, <2>1, <2>2, <2>3 DEF LedgerInv, Hold
<1>4. CASE id \notin budget.pending
  <2>1. ledger' = [ledger EXCEPT ![id] = ReservedEntry(CostOf[TaskOf(id)])]
    BY <1>4 DEF Reserve
  <2>2. PICK cost \in Nat : cost = CostOf[TaskOf(id)]
    BY <1>2
  <2>3. PICK e : e = ReservedEntry(cost)
    OBVIOUS
  <2>4. e = [status |-> "reserved", reserved |-> cost, actual |-> Unknown,
             accounted |-> 0, reason |-> NoReason, ordered |-> TRUE]
    BY <2>3 DEF ReservedEntry, NoEntry
  <2>5. e \in Entry
    BY <2>4 DEF Entry, EntryStatus, Terminal, Unknown
  <2>6. EntryOK(e, cost)
    BY <2>4 DEF EntryOK, Unrecorded
  <2>7. ledger' = [ledger EXCEPT ![id] = e] /\ ledger \in [RequestId -> Entry]
    BY <2>1, <2>2, <2>3 DEF LedgerInv
  <2>8. ledger' \in [RequestId -> Entry]
    BY <2>5, <2>7
  <2>9. \A o \in RequestId : EntryOK(ledger'[o], CostOf[TaskOf(o)])
    BY <2>2, <2>6, <2>7 DEF LedgerInv
  <2>10. ledger[id].accounted = 0
    BY <1>1, <1>4 DEF NoEntry
  <2>11. Hold(e) = cost /\ e.status = "reserved" /\ e.accounted = 0
    BY <2>2, <2>4 DEF Hold
  <2> QED BY <1>1, <2>2, <2>7, <2>8, <2>9, <2>10, <2>11 DEF LedgerInv
<1> QED BY <1>3, <1>4

(* Every scope takes the attempt in.                                         *)
LEMMA ReserveManager ==
    ASSUME NEW id \in RequestId, LedgerInv, ManagerInv, LiveInv, Reserve(id)
    PROVE  ManagerInv' /\ InFlight(budget') = InFlight(budget) \cup {id}
<1>1. PICK b : b = budget'
  OBVIOUS
<1>2. PICK cost \in Nat : cost = CostOf[TaskOf(id)]
  BY IdParts, Plans
<1>3. PICK tok \in Nat : tok = TokensOf[TaskOf(id)]
  BY IdParts, Plans
<1>4. PICK q \in Role : q = RoleOfId(id)
  BY IdParts
<1>5. budget \in Manager
  BY DEF ManagerInv
<1>6. /\ b \in Manager
      /\ b.reserved = [budget.reserved EXCEPT ![id] = cost]
      /\ b.issued = budget.issued \cup {id}
      /\ b.reconciled = budget.reconciled /\ b.released = budget.released
      /\ b.pending = budget.pending \ {id}
      /\ b.roleReserved = [budget.roleReserved EXCEPT ![q] = budget.roleReserved[q] + cost]
      /\ b.tokenReserved = budget.tokenReserved + tok
      /\ b.requests = [budget.requests EXCEPT ![TaskOf(id)] = budget.requests[TaskOf(id)] + 1]
  BY <1>1, <1>2, <1>3, <1>4, <1>5, ReserveEffect
<1>7. id \notin budget.issued
  BY ReserveLedger
<1>8. InFlight(b) = InFlight(budget) \cup {id} /\ id \notin InFlight(budget)
  BY <1>6, <1>7 DEF InFlight, ManagerInv
<1>9. b.reconciled \cup b.released \subseteq b.issued /\ b.issued \cap b.pending = {}
  BY <1>6 DEF ManagerInv
<1>10. \A o \in RequestId :
        b.reserved[o] = IF o \in InFlight(b) THEN CostOf[TaskOf(o)] ELSE 0
  <2>1. budget.reserved \in [RequestId -> Nat]
    BY <1>5 DEF Manager
  <2> QED BY <1>2, <1>6, <1>8, <2>1 DEF ManagerInv
<1>11. \A t \in Task : b.requests[t] <= MaxRequests
  <2>1. budget.requests[TaskOf(id)] < MaxRequests
    BY DEF Reserve, Affordable
  <2>2. budget.requests \in [Task -> Nat] /\ MaxRequests \in Nat
    BY <1>5, AttemptAssumption DEF Manager
  <2>3. \A t \in Task : budget.requests[t] <= MaxRequests
    BY DEF ManagerInv
  <2> QED BY <1>6, <2>1, <2>2, <2>3
<1>12. budget.reserved \in [RequestId -> Nat] /\ budget.reserved[id] = 0
  BY <1>5, <1>8 DEF ManagerInv, Manager
<1>13. \A r \in Role : b.roleReserved[r] = Total(ReservedOf(b.reserved, r))
  <2>1. SUFFICES ASSUME NEW r \in Role
                 PROVE  b.roleReserved[r] = Total(ReservedOf(b.reserved, r))
    OBVIOUS
  <2>2. budget.roleReserved[r] = Total(ReservedOf(budget.reserved, r))
    BY DEF ManagerInv
  <2>3. budget.roleReserved \in [Role -> Int]
    BY <1>5 DEF Manager
  <2>4. PICK f \in [RequestId -> Nat] : f = ReservedOf(budget.reserved, r)
    BY <1>5, FlightTyped
  <2>5. PICK g \in [RequestId -> Nat] : g = ReservedOf(b.reserved, r)
    BY <1>6, FlightTyped
  <2>6. \A o \in RequestId \ {id} : g[o] = f[o]
    BY <1>6, <1>12, <2>4, <2>5 DEF ReservedOf
  <2>7. f[id] = 0
    BY <1>12, <2>4 DEF ReservedOf
  <2>8. g[id] = IF r = q THEN cost ELSE 0
    BY <1>4, <1>6, <1>12, <2>5 DEF ReservedOf
  <2>9. Total(g) = Total(f) + g[id]
    BY <2>6, <2>7, TotalRaise
  <2>10. Total(f) \in Nat
    BY CoinsFinite
  <2> QED BY <1>2, <1>6, <2>2, <2>3, <2>4, <2>5, <2>8, <2>9, <2>10
<1>14. b.tokenReserved = Total(Planned(b))
  <2>1. PICK f \in [RequestId -> Nat] : f = Planned(budget)
    BY <1>5, FlightTyped
  <2>2. PICK g \in [RequestId -> Nat] : g = Planned(b)
    BY <1>6, FlightTyped
  <2>3. \A o \in RequestId \ {id} : g[o] = f[o]
    BY <1>8, <2>1, <2>2 DEF Planned
  <2>4. f[id] = 0 /\ g[id] = tok
    BY <1>3, <1>8, <2>1, <2>2 DEF Planned
  <2>5. Total(g) = Total(f) + g[id]
    BY <2>3, <2>4, TotalRaise
  <2> QED BY <1>6, <2>1, <2>2, <2>4, <2>5 DEF ManagerInv
<1>15. ManagerInv'
  BY <1>1, <1>6, <1>9, <1>10, <1>11, <1>13, <1>14 DEF ManagerInv
<1> QED BY <1>1, <1>8, <1>15

(* Memory and ledger still agree.                                            *)
LEMMA ReserveLive ==
    ASSUME NEW id \in RequestId, LedgerInv, ManagerInv, LiveInv, RolesInv, Reserve(id)
    PROVE  LiveInv' /\ RolesInv'
<1>1. PICK b : b = budget'
  OBVIOUS
<1>2. PICK l : l = ledger'
  OBVIOUS
<1>3. PICK cost \in Nat : cost = CostOf[TaskOf(id)]
  BY IdParts, Plans
<1>4. PICK q \in Role : q = RoleOfId(id)
  BY IdParts
<1>5. budget \in Manager /\ ledger \in [RequestId -> Entry]
  BY DEF ManagerInv, LedgerInv
<1>6. /\ b \in Manager
      /\ b.reserved = [budget.reserved EXCEPT ![id] = cost]
      /\ b.pending = budget.pending \ {id}
      /\ b.spent = budget.spent /\ b.roleSpent = budget.roleSpent
      /\ b.roleReserved = [budget.roleReserved EXCEPT ![q] = budget.roleReserved[q] + cost]
  BY <1>1, <1>3, <1>4, <1>5, ReserveEffect
<1>7. InFlight(b) = InFlight(budget) \cup {id}
  BY <1>1, ReserveManager
<1>8. /\ l \in [RequestId -> Entry]
      /\ \A o \in RequestId : o # id => l[o] = ledger[o]
      /\ l[id].status = "reserved" /\ Hold(l[id]) = cost
      /\ id \in budget.pending \/ (budget.pending = {} /\ ledger[id] = NoEntry)
      /\ id \notin budget.issued
  BY <1>2, <1>3, ReserveLedger DEF LedgerInv
<1>9. budget.reserved \in [RequestId -> Nat] /\ budget.reserved[id] = 0
  BY <1>5, <1>8 DEF ManagerInv, Manager, InFlight
<1>10. Hold(NoEntry) = 0
  BY DEF Hold, NoEntry, Unrecorded
<1>11. \A o \in RequestId : l[o].status = "reserved" <=> o \in InFlight(b) \/ o \in b.pending
  BY <1>6, <1>7, <1>8 DEF LiveInv
<1>12. b.spent + Total(b.reserved) = Total(Free(l, b.pending))
  <2>1. PICK f \in [RequestId -> Nat] : f = Free(ledger, budget.pending)
    BY <1>5, TermsTyped
  <2>2. PICK g \in [RequestId -> Nat] : g = Free(l, b.pending)
    BY <1>8, TermsTyped
  <2>3. \A o \in RequestId \ {id} : g[o] = f[o]
    BY <1>6, <1>8, <2>1, <2>2 DEF Free
  <2>4. f[id] = 0 /\ g[id] = cost
    BY <1>6, <1>8, <1>10, <2>1, <2>2 DEF Free
  <2>5. Total(g) = Total(f) + cost
    BY <2>3, <2>4, TotalRaise
  <2>6. b.reserved \in [RequestId -> Nat] /\ b.reserved[id] = cost
    BY <1>6, <1>9
  <2>7. \A o \in RequestId \ {id} : b.reserved[o] = budget.reserved[o]
    BY <1>6, <1>9
  <2>8. Total(b.reserved) = Total(budget.reserved) + cost
    BY <1>9, <2>6, <2>7, TotalRaise
  <2>9. budget.spent + Total(budget.reserved) = Total(f)
    BY <2>1 DEF LiveInv
  <2>10. budget.spent \in Nat /\ Total(budget.reserved) \in Nat /\ Total(f) \in Nat
    BY <1>5, <1>9, CoinsFinite DEF Manager
  <2> QED BY <1>6, <2>2, <2>5, <2>8, <2>9, <2>10
<1>13. \A r \in Role : b.roleSpent[r] + b.roleReserved[r] = Total(FreeOf(l, b.pending, r))
  <2>1. SUFFICES ASSUME NEW r \in Role
                 PROVE  b.roleSpent[r] + b.roleReserved[r] = Total(FreeOf(l, b.pending, r))
    OBVIOUS
  <2>2. PICK f \in [RequestId -> Nat] : f = FreeOf(ledger, budget.pending, r)
    BY <1>5, TermsTyped
  <2>3. PICK g \in [RequestId -> Nat] : g = FreeOf(l, b.pending, r)
    BY <1>8, TermsTyped
  <2>4. \A o \in RequestId \ {id} : g[o] = f[o]
    BY <1>6, <1>8, <2>2, <2>3 DEF FreeOf
  <2>5. f[id] = 0 /\ g[id] = IF r = q THEN cost ELSE 0
    BY <1>4, <1>6, <1>8, <1>10, <2>2, <2>3 DEF FreeOf
  <2>6. Total(g) = Total(f) + g[id]
    BY <2>4, <2>5, TotalRaise
  <2>7. budget.roleSpent[r] + budget.roleReserved[r] = Total(f)
    BY <2>2 DEF LiveInv
  <2>8. /\ budget.roleSpent[r] \in Nat /\ budget.roleReserved[r] \in Int
        /\ budget.roleReserved \in [Role -> Int] /\ Total(f) \in Nat
    BY <1>5, CoinsFinite DEF Manager
  <2> QED BY <1>3, <1>6, <2>3, <2>5, <2>6, <2>7, <2>8
<1>14. ~HasOverrun(l) => \A r \in Role : Total(HeldOf(l, r)) <= RoleCap[r]
  <2>1. SUFFICES ASSUME ~HasOverrun(l), NEW r \in Role
                 PROVE  Total(HeldOf(l, r)) <= RoleCap[r]
    OBVIOUS
  <2>2. CASE id \in budget.pending
    <3>1. l = ledger
      BY <1>2, <2>2 DEF Reserve
    <3> QED BY <2>1, <3>1 DEF RolesInv
  <2>3. CASE budget.pending = {} /\ ledger[id] = NoEntry
    <3>1. ~HasOverrun(ledger)
      BY <2>3 DEF Reserve, Affordable
    <3>2. PICK f \in [RequestId -> Nat] : f = HeldOf(ledger, r)
      BY <1>5, TermsTyped
    <3>3. PICK g \in [RequestId -> Nat] : g = HeldOf(l, r)
      BY <1>8, TermsTyped
    <3>4. \A o \in RequestId \ {id} : g[o] = f[o]
      BY <1>8, <3>2, <3>3 DEF HeldOf
    <3>5. f[id] = 0 /\ g[id] = IF r = q THEN cost ELSE 0
      BY <1>4, <1>8, <1>10, <2>3, <3>2, <3>3 DEF HeldOf
    <3>6. Total(g) = Total(f) + g[id]
      BY <3>4, <3>5, TotalRaise
    <3>7. Total(f) <= RoleCap[r]
      BY <3>1, <3>2 DEF RolesInv
    <3>8. f = FreeOf(ledger, budget.pending, r)
      BY <2>3, <3>2 DEF FreeOf, HeldOf
    <3>9. Total(f) = budget.roleSpent[r] + budget.roleReserved[r]
      BY <3>8 DEF LiveInv
    <3>10. r = q => cost <= RoleCap[r] - budget.roleSpent[r] - budget.roleReserved[r]
      BY <1>3, <1>4 DEF Reserve, Affordable, ScopedCapacity
    <3>11. /\ budget.roleSpent[r] \in Nat /\ budget.roleReserved[r] \in Int
           /\ RoleCap[r] \in Nat /\ Total(f) \in Nat
      BY <1>5, CapAssumption, CoinsFinite DEF Manager
    <3> QED BY <1>3, <3>3, <3>5, <3>6, <3>7, <3>9, <3>10, <3>11
  <2> QED BY <1>8, <2>2, <2>3
<1> QED BY <1>1, <1>2, <1>11, <1>12, <1>13, <1>14 DEF LiveInv, RolesInv

-----------------------------------------------------------------------------
(* release() and reconcile().                                                *)

(* What both do to an attempt in flight, accounted at this cost.             *)
Closing(id, cost) ==
    /\ id \in InFlight(budget) /\ InFlight(budget') = InFlight(budget) \ {id}
    /\ budget' \in Manager
    /\ budget'.reserved = [budget.reserved EXCEPT ![id] = 0]
    /\ budget'.issued = budget.issued /\ budget'.pending = budget.pending
    /\ budget'.reconciled \cup budget'.released \subseteq budget.issued
    /\ budget'.requests = budget.requests /\ budget'.recovery = budget.recovery
    /\ budget'.spent = budget.spent + cost
    /\ \A r \in Role :
        /\ budget'.roleReserved[r] =
            budget.roleReserved[r] - IF r = RoleOfId(id) THEN CostOf[TaskOf(id)] ELSE 0
        /\ budget'.roleSpent[r] = budget.roleSpent[r] + IF r = RoleOfId(id) THEN cost ELSE 0
    /\ budget'.tokenReserved = budget.tokenReserved - TokensOf[TaskOf(id)]
    /\ ledger[id].status = "reserved" /\ ledger[id].accounted = 0
    /\ Hold(ledger[id]) = CostOf[TaskOf(id)] /\ ledger[id].reserved = CostOf[TaskOf(id)]
    /\ ledger' \in [RequestId -> Entry]
    /\ \A o \in RequestId : o # id => ledger'[o] = ledger[o]
    /\ ledger'[id].status # "reserved" /\ ledger'[id].status # Unrecorded
    /\ ledger'[id].accounted = cost /\ Hold(ledger'[id]) = cost
    /\ EntryOK(ledger'[id], CostOf[TaskOf(id)])
    /\ ledger'[id].status = "reservation_overrun" \/ cost <= CostOf[TaskOf(id)]

(* An attempt in flight is an active reservation of the ledger.              *)
LEMMA FlightReserved ==
    ASSUME NEW id \in RequestId, LedgerInv, ManagerInv, LiveInv, Active(id)
    PROVE  /\ id \in InFlight(budget) /\ id \in budget.issued
           /\ budget.reserved[id] = CostOf[TaskOf(id)]
           /\ ledger[id].status = "reserved" /\ ledger[id].accounted = 0
           /\ ledger[id].reserved = CostOf[TaskOf(id)]
           /\ Hold(ledger[id]) = CostOf[TaskOf(id)]
<1>1. id \in InFlight(budget) /\ id \in budget.issued
  BY DEF Active, InFlight
<1>2. ledger[id].status = "reserved" /\ budget.reserved[id] = CostOf[TaskOf(id)]
  BY <1>1 DEF LiveInv, ManagerInv
<1>3. ledger[id].accounted = 0 /\ ledger[id].reserved = CostOf[TaskOf(id)]
  BY <1>2 DEF LedgerInv, EntryOK, Unrecorded
<1>4. CostOf[TaskOf(id)] \in Nat
  BY IdParts, Plans
<1> QED BY <1>1, <1>2, <1>3, <1>4 DEF Hold

(* release() closes at nothing.                                              *)
LEMMA ReleaseCloses ==
    ASSUME NEW id \in RequestId, LedgerInv, ManagerInv, LiveInv, Release(id)
    PROVE  /\ Closing(id, 0)
           /\ ledger'[id].status = "released" /\ budget'.tokenSpent = budget.tokenSpent
<1>1. Active(id)
  BY DEF Release
<1>2. /\ id \in InFlight(budget) /\ id \in budget.issued
      /\ budget.reserved[id] = CostOf[TaskOf(id)]
      /\ ledger[id].status = "reserved" /\ ledger[id].accounted = 0
      /\ ledger[id].reserved = CostOf[TaskOf(id)]
      /\ Hold(ledger[id]) = CostOf[TaskOf(id)]
  BY <1>1, FlightReserved
<1>3. budget \in Manager
  BY DEF ManagerInv
<1>4. PICK b : b = budget'
  OBVIOUS
<1>5. /\ b \in Manager
      /\ b.reserved = [budget.reserved EXCEPT ![id] = 0]
      /\ b.issued = budget.issued /\ b.reconciled = budget.reconciled
      /\ b.released = budget.released \cup {id}
      /\ b.pending = budget.pending /\ b.spent = budget.spent
      /\ b.roleReserved =
            [budget.roleReserved EXCEPT ![RoleOfId(id)] =
                budget.roleReserved[RoleOfId(id)] - budget.reserved[id]]
      /\ b.roleSpent = budget.roleSpent
      /\ b.tokenReserved = budget.tokenReserved - TokensOf[TaskOf(id)]
      /\ b.tokenSpent = budget.tokenSpent
      /\ b.requests = budget.requests /\ b.recovery = budget.recovery
  BY <1>3, <1>4, ReleaseEffect
<1>6. /\ InFlight(b) = InFlight(budget) \ {id}
      /\ b.reconciled \cup b.released \subseteq budget.issued
  BY <1>2, <1>5 DEF InFlight, ManagerInv
<1>7. /\ budget.roleReserved \in [Role -> Int] /\ budget.roleSpent \in [Role -> Nat]
      /\ budget.spent \in Nat
  BY <1>3 DEF Manager
<1>8. CostOf[TaskOf(id)] \in Nat
  BY IdParts, Plans
<1>9. \A r \in Role :
        /\ b.roleReserved[r] =
            budget.roleReserved[r] - IF r = RoleOfId(id) THEN CostOf[TaskOf(id)] ELSE 0
        /\ b.roleSpent[r] = budget.roleSpent[r] + IF r = RoleOfId(id) THEN 0 ELSE 0
  BY <1>2, <1>5, <1>7, <1>8
<1>10. b.spent = budget.spent + 0
  BY <1>5, <1>7
<1>11. PICK e : e = ReleasedEntry(ledger[id], "failed_before_send", TRUE)
  OBVIOUS
<1>12. ledger \in [RequestId -> Entry] /\ ledger' = [ledger EXCEPT ![id] = e]
  BY <1>11 DEF Release, LedgerInv
<1>13. /\ e \in Entry /\ e.status = "released"
       /\ e.accounted = 0 /\ e.reserved = CostOf[TaskOf(id)]
  BY <1>2, <1>11, <1>12 DEF ReleasedEntry, Entry, EntryStatus, Terminal, ReleaseReason
<1>14. EntryOK(e, CostOf[TaskOf(id)]) /\ Hold(e) = 0
  BY <1>13 DEF EntryOK, Hold, Unrecorded
<1>15. ledger' \in [RequestId -> Entry] /\ ledger'[id] = e
  BY <1>12, <1>13
<1>16. Closing(id, 0)
  BY <1>2, <1>4, <1>5, <1>6, <1>8, <1>9, <1>10, <1>12, <1>13, <1>14, <1>15
  DEF Closing, Unrecorded
<1> QED BY <1>4, <1>5, <1>13, <1>15, <1>16

(* reconcile() closes at what the attempt is accounted at.                   *)
LEMMA ReconcileCloses ==
    ASSUME NEW id \in RequestId, LedgerInv, ManagerInv, LiveInv,
           NEW actual \in Nat \cup {Unknown}, NEW tokens \in Nat,
           Reconcile(id, actual, tokens)
    PROVE  /\ Closing(id, AccountedCost(CostOf[TaskOf(id)], actual))
           /\ AccountedCost(CostOf[TaskOf(id)], actual) \in Nat
           /\ ledger'[id].actual = actual
           /\ ledger'[id].status = ReconciledStatus(CostOf[TaskOf(id)], actual)
           /\ budget'.tokenSpent = budget.tokenSpent + tokens
<1>1. Active(id)
  BY DEF Reconcile
<1>2. /\ id \in InFlight(budget) /\ id \in budget.issued
      /\ budget.reserved[id] = CostOf[TaskOf(id)]
      /\ ledger[id].status = "reserved" /\ ledger[id].accounted = 0
      /\ ledger[id].reserved = CostOf[TaskOf(id)]
      /\ Hold(ledger[id]) = CostOf[TaskOf(id)]
  BY <1>1, FlightReserved
<1>3. budget \in Manager
  BY DEF ManagerInv
<1>4. PICK b : b = budget'
  OBVIOUS
<1>5. CostOf[TaskOf(id)] \in Nat
  BY IdParts, Plans
<1>6. PICK cost \in Nat : cost = AccountedCost(CostOf[TaskOf(id)], actual)
  BY <1>5 DEF AccountedCost
<1>7. /\ b \in Manager
      /\ b.reserved = [budget.reserved EXCEPT ![id] = 0]
      /\ b.issued = budget.issued /\ b.released = budget.released
      /\ b.reconciled = budget.reconciled \cup {id}
      /\ b.pending = budget.pending /\ b.spent = budget.spent + cost
      /\ b.roleReserved =
            [budget.roleReserved EXCEPT ![RoleOfId(id)] =
                budget.roleReserved[RoleOfId(id)] - budget.reserved[id]]
      /\ b.roleSpent =
            [budget.roleSpent EXCEPT ![RoleOfId(id)] = budget.roleSpent[RoleOfId(id)] + cost]
      /\ b.tokenReserved = budget.tokenReserved - TokensOf[TaskOf(id)]
      /\ b.tokenSpent = budget.tokenSpent + tokens
      /\ b.requests = budget.requests /\ b.recovery = budget.recovery
  BY <1>2, <1>3, <1>4, <1>6, ReconcileEffect
<1>8. /\ InFlight(b) = InFlight(budget) \ {id}
      /\ b.reconciled \cup b.released \subseteq budget.issued
  BY <1>2, <1>7 DEF InFlight, ManagerInv
<1>9. /\ budget.roleReserved \in [Role -> Int] /\ budget.roleSpent \in [Role -> Nat]
      /\ budget.spent \in Nat
  BY <1>3 DEF Manager
<1>10. \A r \in Role :
        /\ b.roleReserved[r] =
            budget.roleReserved[r] - IF r = RoleOfId(id) THEN CostOf[TaskOf(id)] ELSE 0
        /\ b.roleSpent[r] = budget.roleSpent[r] + IF r = RoleOfId(id) THEN cost ELSE 0
  BY <1>2, <1>5, <1>6, <1>7, <1>9
<1>11. PICK e : e = ReconciledEntry(ledger[id], actual, TRUE)
  OBVIOUS
<1>12. ledger \in [RequestId -> Entry] /\ ledger' = [ledger EXCEPT ![id] = e]
  BY <1>11 DEF Reconcile, LedgerInv
<1>13. PICK st : st = ReconciledStatus(CostOf[TaskOf(id)], actual)
  OBVIOUS
<1>14. /\ st \in {"uncertain_accounted", "reconciled", "reservation_overrun"}
       /\ st = "uncertain_accounted" <=> actual = Unknown
       /\ st = "reservation_overrun" \/ cost <= CostOf[TaskOf(id)]
       /\ st = "uncertain_accounted" => cost = CostOf[TaskOf(id)]
       /\ st # "uncertain_accounted" => cost = actual
  BY <1>5, <1>6, <1>13 DEF ReconciledStatus, AccountedCost, Unknown
<1>15. /\ e.status = st /\ e.actual = actual /\ e.accounted = cost
       /\ e.reserved = CostOf[TaskOf(id)]
  BY <1>2, <1>6, <1>11, <1>12, <1>13 DEF ReconciledEntry, Entry
<1>16. e \in Entry
  BY <1>2, <1>6, <1>11, <1>12, <1>13, <1>14
  DEF ReconciledEntry, Entry, EntryStatus, Terminal
<1>17. EntryOK(e, CostOf[TaskOf(id)]) /\ Hold(e) = cost
  BY <1>6, <1>14, <1>15 DEF EntryOK, Hold, Unrecorded, Unknown
<1>18. ledger' \in [RequestId -> Entry] /\ ledger'[id] = e
  BY <1>12, <1>16
<1>19. Closing(id, cost)
  BY <1>2, <1>4, <1>7, <1>8, <1>10, <1>12, <1>14, <1>15, <1>17, <1>18
  DEF Closing, Unrecorded
<1> QED BY <1>4, <1>6, <1>7, <1>13, <1>15, <1>18, <1>19

(* Closing an attempt keeps the accounts.                                    *)
LEMMA ClosingKeeps ==
    ASSUME NEW id \in RequestId, NEW cost \in Nat,
           LedgerInv, ManagerInv, LiveInv, RolesInv, Closing(id, cost)
    PROVE  LedgerInv' /\ ManagerInv' /\ LiveInv' /\ RolesInv'
<1>1. PICK b : b = budget'
  OBVIOUS
<1>2. PICK l : l = ledger'
  OBVIOUS
<1>3. PICK c \in Nat : c = CostOf[TaskOf(id)]
  BY IdParts, Plans
<1>4. PICK tok \in Nat : tok = TokensOf[TaskOf(id)]
  BY IdParts, Plans
<1>5. PICK q \in Role : q = RoleOfId(id)
  BY IdParts
<1>6. budget \in Manager /\ ledger \in [RequestId -> Entry]
  BY DEF ManagerInv, LedgerInv
<1>7. /\ id \in InFlight(budget) /\ InFlight(b) = InFlight(budget) \ {id}
      /\ b \in Manager
      /\ b.reserved = [budget.reserved EXCEPT ![id] = 0]
      /\ b.issued = budget.issued /\ b.pending = budget.pending
      /\ b.reconciled \cup b.released \subseteq budget.issued
      /\ b.requests = budget.requests
      /\ b.spent = budget.spent + cost
      /\ b.tokenReserved = budget.tokenReserved - tok
  BY <1>1, <1>4 DEF Closing
<1>8. \A r \in Role :
        /\ b.roleReserved[r] = budget.roleReserved[r] - IF r = q THEN c ELSE 0
        /\ b.roleSpent[r] = budget.roleSpent[r] + IF r = q THEN cost ELSE 0
  BY <1>1, <1>3, <1>5 DEF Closing
<1>9. /\ ledger[id].status = "reserved" /\ Hold(ledger[id]) = c
      /\ l \in [RequestId -> Entry]
      /\ \A o \in RequestId : o # id => l[o] = ledger[o]
      /\ l[id].status # "reserved" /\ Hold(l[id]) = cost
      /\ EntryOK(l[id], CostOf[TaskOf(id)])
      /\ l[id].status = "reservation_overrun" \/ cost <= c
  BY <1>2, <1>3 DEF Closing
<1>10. LedgerInv'
  BY <1>2, <1>9 DEF LedgerInv
<1>11. budget.reserved \in [RequestId -> Nat] /\ budget.reserved[id] = c
  BY <1>3, <1>6, <1>7 DEF ManagerInv, Manager
<1>12. id \notin budget.pending
  BY <1>7 DEF ManagerInv, InFlight
<1>13. b.reserved \in [RequestId -> Nat] /\ b.reserved[id] = 0
  BY <1>7, <1>11
<1>14. \A o \in RequestId \ {id} : b.reserved[o] = budget.reserved[o]
  BY <1>7, <1>11
<1>15. \A o \in RequestId :
        b.reserved[o] = IF o \in InFlight(b) THEN CostOf[TaskOf(o)] ELSE 0
  BY <1>7, <1>13, <1>14 DEF ManagerInv
<1>16. \A r \in Role : b.roleReserved[r] = Total(ReservedOf(b.reserved, r))
  <2>1. SUFFICES ASSUME NEW r \in Role
                 PROVE  b.roleReserved[r] = Total(ReservedOf(b.reserved, r))
    OBVIOUS
  <2>2. PICK f \in [RequestId -> Nat] : f = ReservedOf(budget.reserved, r)
    BY <1>6, FlightTyped
  <2>3. PICK g \in [RequestId -> Nat] : g = ReservedOf(b.reserved, r)
    BY <1>7, FlightTyped
  <2>4. \A o \in RequestId \ {id} : g[o] = f[o]
    BY <1>14, <2>2, <2>3 DEF ReservedOf
  <2>5. g[id] = 0 /\ f[id] = IF r = q THEN c ELSE 0
    BY <1>5, <1>11, <1>13, <2>2, <2>3 DEF ReservedOf
  <2>6. Total(g) + f[id] = Total(f) + g[id]
    BY <2>4, TotalChange
  <2>7. Total(f) \in Nat /\ Total(g) \in Nat /\ budget.roleReserved[r] = Total(f)
    BY <2>2, CoinsFinite DEF ManagerInv
  <2> QED BY <1>3, <1>8, <2>3, <2>5, <2>6, <2>7
<1>17. b.tokenReserved = Total(Planned(b))
  <2>1. PICK f \in [RequestId -> Nat] : f = Planned(budget)
    BY <1>6, FlightTyped
  <2>2. PICK g \in [RequestId -> Nat] : g = Planned(b)
    BY <1>7, FlightTyped
  <2>3. \A o \in RequestId \ {id} : g[o] = f[o]
    BY <1>7, <2>1, <2>2 DEF Planned
  <2>4. f[id] = tok /\ g[id] = 0
    BY <1>4, <1>7, <2>1, <2>2 DEF Planned
  <2>5. Total(g) + f[id] = Total(f) + g[id]
    BY <2>3, TotalChange
  <2>6. Total(f) \in Nat /\ Total(g) \in Nat /\ budget.tokenReserved = Total(f)
    BY <2>1, CoinsFinite DEF ManagerInv
  <2> QED BY <1>4, <1>7, <2>2, <2>4, <2>5, <2>6
<1>18. ManagerInv'
  BY <1>1, <1>7, <1>15, <1>16, <1>17 DEF ManagerInv
<1>19. \A o \in RequestId : l[o].status = "reserved" <=> o \in InFlight(b) \/ o \in b.pending
  BY <1>7, <1>9, <1>12 DEF LiveInv
<1>20. b.spent + Total(b.reserved) = Total(Free(l, b.pending))
  <2>1. PICK f \in [RequestId -> Nat] : f = Free(ledger, budget.pending)
    BY <1>6, TermsTyped
  <2>2. PICK g \in [RequestId -> Nat] : g = Free(l, b.pending)
    BY <1>9, TermsTyped
  <2>3. \A o \in RequestId \ {id} : g[o] = f[o]
    BY <1>7, <1>9, <2>1, <2>2 DEF Free
  <2>4. f[id] = c /\ g[id] = cost
    BY <1>7, <1>9, <1>12, <2>1, <2>2 DEF Free
  <2>5. Total(g) + f[id] = Total(f) + g[id]
    BY <2>3, TotalChange
  <2>6. Total(b.reserved) + c = Total(budget.reserved) + 0
    BY <1>11, <1>13, <1>14, TotalChange
  <2>7. budget.spent + Total(budget.reserved) = Total(f)
    BY <2>1 DEF LiveInv
  <2>8. /\ budget.spent \in Nat /\ Total(budget.reserved) \in Nat
        /\ Total(b.reserved) \in Nat /\ Total(f) \in Nat /\ Total(g) \in Nat
    BY <1>6, <1>11, <1>13, CoinsFinite DEF Manager
  <2> QED BY <1>3, <1>7, <2>2, <2>4, <2>5, <2>6, <2>7, <2>8
<1>21. \A r \in Role : b.roleSpent[r] + b.roleReserved[r] = Total(FreeOf(l, b.pending, r))
  <2>1. SUFFICES ASSUME NEW r \in Role
                 PROVE  b.roleSpent[r] + b.roleReserved[r] = Total(FreeOf(l, b.pending, r))
    OBVIOUS
  <2>2. PICK f \in [RequestId -> Nat] : f = FreeOf(ledger, budget.pending, r)
    BY <1>6, TermsTyped
  <2>3. PICK g \in [RequestId -> Nat] : g = FreeOf(l, b.pending, r)
    BY <1>9, TermsTyped
  <2>4. \A o \in RequestId \ {id} : g[o] = f[o]
    BY <1>7, <1>9, <2>2, <2>3 DEF FreeOf
  <2>5. /\ f[id] = IF r = q THEN c ELSE 0
        /\ g[id] = IF r = q THEN cost ELSE 0
    BY <1>5, <1>7, <1>9, <1>12, <2>2, <2>3 DEF FreeOf
  <2>6. Total(g) + f[id] = Total(f) + g[id]
    BY <2>4, TotalChange
  <2>7. budget.roleSpent[r] + budget.roleReserved[r] = Total(f)
    BY <2>2 DEF LiveInv
  <2>8. /\ budget.roleSpent[r] \in Nat /\ budget.roleReserved[r] \in Int
        /\ Total(f) \in Nat /\ Total(g) \in Nat
    BY <1>6, CoinsFinite DEF Manager
  <2> QED BY <1>3, <1>8, <2>3, <2>5, <2>6, <2>7, <2>8
<1>22. ~HasOverrun(l) => \A r \in Role : Total(HeldOf(l, r)) <= RoleCap[r]
  <2>1. SUFFICES ASSUME ~HasOverrun(l), NEW r \in Role
                 PROVE  Total(HeldOf(l, r)) <= RoleCap[r]
    OBVIOUS
  <2>2. ~HasOverrun(ledger) /\ cost <= c
    BY <1>9, <2>1 DEF HasOverrun
  <2>3. PICK f \in [RequestId -> Nat] : f = HeldOf(ledger, r)
    BY <1>6, TermsTyped
  <2>4. PICK g \in [RequestId -> Nat] : g = HeldOf(l, r)
    BY <1>9, TermsTyped
  <2>5. \A o \in RequestId : g[o] <= f[o]
    <3>1. \A o \in RequestId : o # id => g[o] = f[o] /\ f[o] \in Nat
      BY <1>9, <2>3, <2>4 DEF HeldOf
    <3>2. g[id] <= f[id]
      BY <1>3, <1>9, <2>2, <2>3, <2>4 DEF HeldOf
    <3> QED BY <3>1, <3>2
  <2>6. Total(g) <= Total(f)
    BY <2>5, TotalMonotone
  <2>7. Total(f) <= RoleCap[r]
    BY <2>2, <2>3 DEF RolesInv
  <2>8. Total(f) \in Nat /\ Total(g) \in Nat /\ RoleCap[r] \in Nat
    BY CoinsFinite, CapAssumption
  <2> QED BY <2>4, <2>6, <2>7, <2>8
<1> QED BY <1>1, <1>2, <1>10, <1>18, <1>19, <1>20, <1>21, <1>22 DEF LiveInv, RolesInv

-----------------------------------------------------------------------------
(* A later process.                                                          *)

(* A new manager has nothing in flight.                                      *)
LEMMA NewManagerSound ==
    ASSUME NEW entries \in [RequestId -> Entry], NEW b, b = NewManager(entries)
    PROVE  /\ b \in Manager
           /\ b.reconciled \cup b.released \subseteq b.issued /\ b.issued \cap b.pending = {}
           /\ InFlight(b) = {} /\ b.issued = {} /\ b.pending = {}
           /\ \A id \in RequestId :
                b.reserved[id] = IF id \in InFlight(b) THEN CostOf[TaskOf(id)] ELSE 0
           /\ \A t \in Task : b.requests[t] <= MaxRequests
           /\ \A r \in Role : b.roleReserved[r] = Total(ReservedOf(b.reserved, r))
           /\ b.tokenReserved = Total(Planned(b))
           /\ b.spent = Total(AccountedOf(entries)) /\ b.tokenReserved = 0
           /\ b.tokenSpent = 0
           /\ \A r \in Role : b.roleSpent[r] = 0 /\ b.roleReserved[r] = 0
           /\ b.recovery = (Recorded(entries) # {})
<1>1. PICK sp \in Nat : sp = Total(AccountedOf(entries))
  BY TermsTyped, CoinsFinite
<1>2. PICK rc \in BOOLEAN : rc = (Recorded(entries) # {})
  OBVIOUS
<1>3. b = Made([id \in RequestId |-> 0], {}, {}, {}, {}, sp, [r \in Role |-> 0],
               [r \in Role |-> 0], 0, 0, [t \in Task |-> 0], rc)
  BY <1>1, <1>2 DEF NewManager, Made
<1>4. b \in Manager
  BY <1>1, <1>2, <1>3 DEF Made, Manager
<1>5. /\ b.reserved = [id \in RequestId |-> 0] /\ b.issued = {} /\ b.reconciled = {}
      /\ b.released = {} /\ b.pending = {} /\ b.roleReserved = [r \in Role |-> 0]
      /\ b.tokenReserved = 0 /\ b.requests = [t \in Task |-> 0] /\ b.recovery = rc
      /\ b.spent = sp /\ b.roleSpent = [r \in Role |-> 0] /\ b.tokenSpent = 0
  BY <1>3 DEF Made
<1>6. InFlight(b) = {}
  BY <1>5 DEF InFlight
<1>7. \A r \in Role : b.roleReserved[r] = Total(ReservedOf(b.reserved, r))
  <2>1. SUFFICES ASSUME NEW r \in Role
                 PROVE  b.roleReserved[r] = Total(ReservedOf(b.reserved, r))
    OBVIOUS
  <2>2. PICK f \in [RequestId -> Nat] : f = ReservedOf(b.reserved, r)
    BY <1>4, FlightTyped
  <2>3. \A id \in RequestId : f[id] = 0
    BY <1>5, <2>2 DEF ReservedOf
  <2> QED BY <1>5, <2>2, <2>3, TotalZero
<1>8. b.tokenReserved = Total(Planned(b))
  <2>1. PICK f \in [RequestId -> Nat] : f = Planned(b)
    BY <1>4, FlightTyped
  <2>2. \A id \in RequestId : f[id] = 0
    BY <1>6, <2>1 DEF Planned
  <2> QED BY <1>5, <2>1, <2>2, TotalZero
<1>9. \A t \in Task : b.requests[t] <= MaxRequests
  BY <1>5, AttemptAssumption
<1>10. \A id \in RequestId :
        b.reserved[id] = IF id \in InFlight(b) THEN CostOf[TaskOf(id)] ELSE 0
  BY <1>5, <1>6
<1>11. b.reconciled \cup b.released \subseteq b.issued /\ b.issued \cap b.pending = {}
  BY <1>5
<1>12. \A r \in Role : b.roleSpent[r] = 0 /\ b.roleReserved[r] = 0
  BY <1>5
<1> QED BY <1>1, <1>2, <1>4, <1>5, <1>6, <1>7, <1>8, <1>9, <1>10, <1>11, <1>12

(* A process that starts knows nothing in flight.                            *)
LEMMA NewManagerKeeps ==
    ASSUME ledger \in [RequestId -> Entry], budget' = NewManager(ledger)
    PROVE  /\ ManagerInv'
           /\ InFlight(budget') = {} /\ budget'.issued = {} /\ budget'.pending = {}
           /\ budget'.recovery = (Recorded(ledger) # {})
BY NewManagerSound DEF ManagerInv

(* The ledger of a dispatch that is settled holds what it held.              *)
LEMMA SettleKeeps ==
    ASSUME NEW id \in RequestId, LedgerInv, RolesInv, SettleUncertain(id)
    PROVE  /\ LedgerInv' /\ RolesInv'
           /\ \A o \in RequestId : o # id => ledger'[o] = ledger[o]
           /\ ledger[id].status = "reserved" /\ phase[TaskOf(id)] # "ACTIVATED"
           /\ ledger'[id].status = "uncertain_accounted"
<1>1. ledger[id].status = "reserved" /\ phase[TaskOf(id)] # "ACTIVATED"
  BY DEF SettleUncertain, Unsettled
<1>2. PICK c \in Nat : c = CostOf[TaskOf(id)]
  BY IdParts, Plans
<1>3. ledger[id].reserved = c /\ ledger[id].accounted = 0
  BY <1>1, <1>2 DEF LedgerInv, EntryOK, Unrecorded
<1>4. PICK e : e = ReconciledEntry(ledger[id], Unknown, TRUE)
  OBVIOUS
<1>5. ledger \in [RequestId -> Entry] /\ ledger' = [ledger EXCEPT ![id] = e]
  BY <1>4 DEF SettleUncertain, LedgerInv
<1>6. /\ e \in Entry /\ e.status = "uncertain_accounted" /\ e.actual = Unknown
      /\ e.accounted = c /\ e.reserved = c
  BY <1>2, <1>3, <1>4, <1>5
  DEF ReconciledEntry, ReconciledStatus, AccountedCost, Entry, EntryStatus, Terminal, Unknown
<1>7. EntryOK(e, c) /\ Hold(e) = c /\ Hold(ledger[id]) = c
  BY <1>1, <1>2, <1>3, <1>6 DEF EntryOK, Hold, Unrecorded
<1>8. PICK l : l = ledger'
  OBVIOUS
<1>9. /\ l \in [RequestId -> Entry] /\ l[id] = e
      /\ \A o \in RequestId : o # id => l[o] = ledger[o]
  BY <1>5, <1>6, <1>8
<1>10. \A o \in RequestId : EntryOK(l[o], CostOf[TaskOf(o)])
  BY <1>2, <1>7, <1>9 DEF LedgerInv
<1>11. ~HasOverrun(l) => \A r \in Role : Total(HeldOf(l, r)) <= RoleCap[r]
  <2>1. SUFFICES ASSUME ~HasOverrun(l), NEW r \in Role
                 PROVE  Total(HeldOf(l, r)) <= RoleCap[r]
    OBVIOUS
  <2>2. ~HasOverrun(ledger)
    BY <1>1, <1>9, <2>1 DEF HasOverrun
  <2>3. HeldOf(l, r) = HeldOf(ledger, r)
    BY <1>6, <1>7, <1>9 DEF HeldOf
  <2> QED BY <2>2, <2>3 DEF RolesInv
<1> QED BY <1>1, <1>6, <1>8, <1>9, <1>10, <1>11 DEF LedgerInv, RolesInv

(* The tokens of a recovered record are natural numbers.                     *)
LEMMA RecoveredTyped ==
    ASSUME NEW records \in [Task -> Usage]
    PROVE  /\ RecoveredTokens(records) \in [RequestId -> Nat]
           /\ Total(RecoveredTokens(records)) \in Nat
<1>1. \A id \in RequestId : /\ TokensOf[TaskOf(id)] \in Nat
                            /\ records[TaskOf(id)].tokens \in Nat
  BY IdParts, Plans DEF Usage
<1>2. RecoveredTokens(records) \in [RequestId -> Nat]
  BY <1>1 DEF RecoveredTokens
<1> QED BY <1>2, CoinsFinite

(* What the recovered claims account a role at.                              *)
Claimed(entries, records, uncertain, r) ==
    [id \in RequestId |-> IF RoleOfId(id) = r /\ id \in Covered(records) \cup uncertain
                          THEN AccountedOf(entries)[id] ELSE 0]

(* The requests they stand for.                                              *)
Counted(records, uncertain) ==
    [t \in Task |->
        IF \E id \in uncertain : TaskOf(id) = t THEN 1 ELSE records[t].attempts]

(* restore_recovered_usage(), field by field.                                *)
LEMMA RestoreEffect ==
    ASSUME NEW adopted \in SUBSET RequestId, NEW uncertain \in SUBSET RequestId,
           budget \in Manager, ledger \in [RequestId -> Entry], usage \in [Task -> Usage],
           Restore(usage, adopted, uncertain)
    PROVE  /\ budget' \in Manager /\ ledger' = ledger
           /\ budget'.reserved = budget.reserved
           /\ budget'.issued = budget.issued /\ budget'.pending = adopted
           /\ budget'.reconciled = budget.reconciled /\ budget'.released = budget.released
           /\ budget'.spent = Total(AccountedOf(ledger))
           /\ budget'.roleReserved = budget.roleReserved
           /\ \A r \in Role : budget'.roleSpent[r] =
                Total(Claimed(ledger, usage, uncertain, r))
           /\ budget'.tokenReserved = budget.tokenReserved
           /\ budget'.tokenSpent = TokensAfterRecovery(usage, uncertain)
           /\ budget'.requests = Counted(usage, uncertain)
           /\ budget'.recovery = FALSE
<1>1. PICK sp \in Nat : sp = Total(AccountedOf(ledger))
  BY TermsTyped, CoinsFinite
<1>2. PICK tsp \in Nat : tsp = TokensAfterRecovery(usage, uncertain)
  BY RecoveredTyped, CapAssumption DEF TokensAfterRecovery
<1>3. PICK rsp : rsp = [r \in Role |->
                Total(Claimed(ledger, usage, uncertain, r))]
  OBVIOUS
<1>4. PICK rq : rq = Counted(usage, uncertain)
  OBVIOUS
<1>5. rsp \in [Role -> Nat]
  <2>1. SUFFICES ASSUME NEW r \in Role
                 PROVE  Total(Claimed(ledger, usage, uncertain, r)) \in Nat
    BY <1>3
  <2>2. AccountedOf(ledger) \in [RequestId -> Nat]
    BY TermsTyped
  <2>3. Claimed(ledger, usage, uncertain, r) \in [RequestId -> Nat]
    BY <2>2 DEF Claimed
  <2> QED BY <2>3, CoinsFinite
<1>6. rq \in [Task -> Nat]
  BY <1>4, AttemptAssumption DEF Usage, Counted
<1>7. budget' = [budget EXCEPT !.pending = adopted, !.spent = sp, !.roleSpent = rsp,
                               !.tokenSpent = tsp, !.requests = rq, !.recovery = FALSE]
  BY <1>1, <1>2, <1>3, <1>4 DEF Restore, TotalWhere, Claimed, Counted
<1>8. budget' = Made(budget.reserved, budget.issued, budget.reconciled, budget.released,
                     adopted, sp, budget.roleReserved, rsp, budget.tokenReserved, tsp, rq,
                     FALSE)
  BY <1>7 DEF Manager, Made
<1>9. budget' \in Manager
  BY <1>5, <1>6, <1>8 DEF Manager, Made
<1>10. ledger' = ledger
  BY DEF Restore
<1>11. \A r \in Role : rsp[r] =
                Total(Claimed(ledger, usage, uncertain, r))
  BY <1>3
<1> QED BY <1>1, <1>2, <1>4, <1>8, <1>9, <1>10, <1>11 DEF Made

(* The counters of the new process agree with the ledger it found.           *)
LEMMA RestoreKeeps ==
    ASSUME LedgerInv, ManagerInv, StateOK, RecoveringInv, RestoreBudget,
           \A t \in Task : JournalInv(t)
    PROVE  /\ ManagerInv' /\ LiveInv' /\ ledger' = ledger
           /\ budget'.tokenReserved = 0
           /\ budget'.tokenSpent = TokensAfterRecovery(usage, Settled)
           /\ Recorded(ledger) = Covered(usage) \cup Adopted \cup Settled
<1>1. PICK b : b = budget'
  OBVIOUS
<1>2. PICK ad \in SUBSET RequestId : ad = Adopted
  BY DEF Adopted
<1>3. PICK un \in SUBSET RequestId : un = Settled
  BY DEF Settled
<1>4. budget \in Manager /\ ledger \in [RequestId -> Entry] /\ usage \in [Task -> Usage]
  BY DEF ManagerInv, LedgerInv, StateOK
<1>5. Restore(usage, ad, un)
  BY <1>2, <1>3 DEF RestoreBudget
<1>6. /\ b \in Manager /\ ledger' = ledger
      /\ b.reserved = budget.reserved
      /\ b.issued = budget.issued /\ b.pending = ad
      /\ b.reconciled = budget.reconciled /\ b.released = budget.released
      /\ b.spent = Total(AccountedOf(ledger))
      /\ b.roleReserved = budget.roleReserved
      /\ \A r \in Role : b.roleSpent[r] =
            Total(Claimed(ledger, usage, un, r))
      /\ b.tokenReserved = budget.tokenReserved
      /\ b.tokenSpent = TokensAfterRecovery(usage, un)
      /\ b.requests = Counted(usage, un)
  BY <1>1, <1>4, <1>5, RestoreEffect
<1>7. InFlight(b) = {} /\ InFlight(budget) = {} /\ b.issued = {}
  BY <1>6 DEF InFlight, RecoveringInv
<1>8. \A id \in RequestId : budget.reserved[id] = 0
  BY <1>7 DEF ManagerInv
<1>9. /\ Planned(b) = Planned(budget)
      /\ \A r \in Role : b.roleReserved[r] = Total(ReservedOf(b.reserved, r))
      /\ b.tokenReserved = Total(Planned(b))
  BY <1>6, <1>7 DEF ManagerInv, Planned
<1>10. \A t \in Task : b.requests[t] <= MaxRequests
  <2>1. SUFFICES ASSUME NEW t \in Task PROVE b.requests[t] <= MaxRequests
    OBVIOUS
  <2>2. usage[t].attempts <= MaxRequests
    <3>1. CASE usage[t] = NoUsage
      BY <3>1, AttemptAssumption DEF NoUsage
    <3>2. CASE usage[t] # NoUsage
      BY <3>2 DEF JournalInv
    <3> QED BY <3>1, <3>2
  <2>3. 1 <= MaxRequests
    BY AttemptAssumption
  <2> QED BY <1>6, <2>2, <2>3 DEF Counted
<1>11. /\ b.reconciled \cup b.released \subseteq b.issued /\ b.issued \cap b.pending = {}
       /\ \A id \in RequestId :
            b.reserved[id] = IF id \in InFlight(b) THEN CostOf[TaskOf(id)] ELSE 0
  BY <1>6, <1>7, <1>8 DEF ManagerInv
<1>12. ManagerInv'
  BY <1>1, <1>6, <1>9, <1>10, <1>11 DEF ManagerInv
<1>13. \A id \in RequestId : ledger[id].status = "reserved" <=> id \in ad
  <2>1. Unsettled = {}
    BY DEF RestoreBudget
  <2> QED BY <1>2, <2>1 DEF Adopted, Unsettled
<1>14. \A id \in RequestId : /\ id \in ad => ledger[id].accounted = 0
                             /\ id \notin ad => Hold(ledger[id]) = ledger[id].accounted
                             /\ ledger[id].status = Unrecorded => ledger[id].accounted = 0
  <2>1. SUFFICES ASSUME NEW id \in RequestId
                 PROVE  /\ id \in ad => ledger[id].accounted = 0
                        /\ id \notin ad => Hold(ledger[id]) = ledger[id].accounted
                        /\ ledger[id].status = Unrecorded => ledger[id].accounted = 0
    OBVIOUS
  <2>2. ledger[id].accounted \in Nat
    BY <1>4 DEF Entry
  <2>3. id \in ad => ledger[id].accounted = 0
    BY <1>13 DEF LedgerInv, EntryOK
  <2>4. ledger[id].status = Unrecorded => ledger[id].accounted = 0
    BY DEF LedgerInv, EntryOK, NoEntry
  <2> QED BY <1>13, <2>2, <2>3, <2>4 DEF Hold
<1>15. Recorded(ledger) = Covered(usage) \cup ad \cup un
  BY <1>5 DEF Restore, Restorable
<1>16. b.spent + Total(b.reserved) = Total(Free(ledger, b.pending))
  <2>1. \A id \in RequestId : AccountedOf(ledger)[id] = Free(ledger, ad)[id]
    BY <1>14 DEF AccountedOf, Free
  <2>2. Total(AccountedOf(ledger)) = Total(Free(ledger, ad))
    BY <2>1, TotalSame
  <2>3. b.reserved \in [RequestId -> Nat] /\ \A id \in RequestId : b.reserved[id] = 0
    BY <1>6, <1>8 DEF Manager
  <2>4. Total(b.reserved) = 0
    BY <2>3, TotalZero
  <2>5. b.spent \in Nat
    BY <1>6 DEF Manager
  <2> QED BY <1>6, <2>2, <2>4, <2>5
<1>17. \A r \in Role : b.roleReserved[r] = 0
  <2>1. SUFFICES ASSUME NEW r \in Role PROVE b.roleReserved[r] = 0
    OBVIOUS
  <2>2. PICK f \in [RequestId -> Nat] : f = ReservedOf(b.reserved, r)
    BY <1>6, FlightTyped
  <2>3. \A id \in RequestId : f[id] = 0
    BY <1>6, <1>8, <2>2 DEF ReservedOf
  <2> QED BY <1>9, <2>2, <2>3, TotalZero
<1>18. b.tokenReserved = 0
  <2>1. PICK f \in [RequestId -> Nat] : f = Planned(b)
    BY <1>6, FlightTyped
  <2>2. \A id \in RequestId : f[id] = 0
    BY <1>7, <2>1 DEF Planned
  <2> QED BY <1>9, <2>1, <2>2, TotalZero
<1>19. \A r \in Role : b.roleSpent[r] + b.roleReserved[r] = Total(FreeOf(ledger, b.pending, r))
  <2>1. SUFFICES ASSUME NEW r \in Role
                 PROVE  b.roleSpent[r] + b.roleReserved[r] = Total(FreeOf(ledger, ad, r))
    BY <1>6
  <2>2. PICK f : f = Claimed(ledger, usage, un, r)
    OBVIOUS
  <2>3. \A id \in RequestId : f[id] = FreeOf(ledger, ad, r)[id]
    <3>1. SUFFICES ASSUME NEW id \in RequestId
                   PROVE  f[id] = FreeOf(ledger, ad, r)[id]
      OBVIOUS
    <3>2. f[id] = IF RoleOfId(id) = r /\ id \in Covered(usage) \cup un
                  THEN ledger[id].accounted ELSE 0
      BY <2>2 DEF AccountedOf, Claimed
    <3>3. FreeOf(ledger, ad, r)[id] =
            IF RoleOfId(id) = r /\ id \notin ad THEN Hold(ledger[id]) ELSE 0
      BY DEF FreeOf
    <3>4. CASE id \in ad
      BY <1>14, <3>2, <3>3, <3>4
    <3>5. CASE id \notin ad
      <4>1. id \notin Covered(usage) \cup un => ledger[id].accounted = 0
        BY <1>14, <1>15, <3>5 DEF Recorded
      <4> QED BY <1>14, <3>2, <3>3, <3>5, <4>1
    <3> QED BY <3>4, <3>5
  <2>4. Total(f) = Total(FreeOf(ledger, ad, r))
    BY <2>3, TotalSame
  <2>5. b.roleSpent[r] = Total(f)
    BY <1>6, <2>2
  <2>6. b.roleSpent[r] \in Nat
    BY <1>6 DEF Manager
  <2> QED BY <1>17, <2>4, <2>5, <2>6
<1>20. \A id \in RequestId :
        ledger[id].status = "reserved" <=> id \in InFlight(b) \/ id \in b.pending
  BY <1>6, <1>7, <1>13
<1>21. LiveInv'
  BY <1>1, <1>6, <1>16, <1>19, <1>20 DEF LiveInv
<1> QED BY <1>1, <1>2, <1>3, <1>6, <1>12, <1>15, <1>18, <1>21

-----------------------------------------------------------------------------
(* What a step leaves alone.                                                 *)

(* Nothing that the invariant of a task speaks of changes.                   *)
Untouched(u) ==
    /\ phase'[u] = phase[u] /\ usage'[u] = usage[u]
    /\ local'[u] = local[u] /\ pc'[u] = pc[u]
    /\ budget'.requests[u] = budget.requests[u]
    /\ \A id \in Ours(u) : /\ ledger'[id] = ledger[id]
                           /\ senders'[id] = senders[id]
                           /\ id \in InFlight(budget') <=> id \in InFlight(budget)

(* The charges of the attempts of a task do not change with other entries.   *)
LEMMA UptoSame ==
    ASSUME NEW l, NEW k, NEW t, NEW n, \A id \in Ours(t) : AttemptOf(id) <= n => l[id] = k[id]
    PROVE  Total(Upto(l, t, n)) = Total(Upto(k, t, n))
<1>1. Upto(l, t, n) = Upto(k, t, n)
  BY DEF Upto, Ours
<1> QED BY <1>1

(* Nor does a record that agrees with them.                                  *)
LEMMA JoinedSame ==
    ASSUME NEW l, NEW k, NEW t \in Task, NEW u \in Usage,
           \A id \in Ours(t) : AttemptOf(id) <= u.attempts => l[id] = k[id],
           Joined(l, u, t)
    PROVE  Joined(k, u, t)
<1>1. SUFFICES ASSUME u.attempts > 0 PROVE Joined(k, u, t)
  BY DEF Joined
<1>2. u.attempts \in 1 .. MaxAttempts
  BY <1>1, AttemptAssumption DEF Usage
<1>3. <<t, u.attempts>> \in Ours(t) /\ AttemptOf(<<t, u.attempts>>) = u.attempts
  BY <1>2, IdMade DEF Ours
<1>4. l[<<t, u.attempts>>] = k[<<t, u.attempts>>]
  BY <1>2, <1>3
<1>5. Total(Upto(l, t, u.attempts)) = Total(Upto(k, t, u.attempts))
  BY UptoSame
<1> QED BY <1>4, <1>5 DEF Joined

(* A task that a step does not touch keeps its invariant.                    *)
LEMMA OtherTask ==
    ASSUME NEW u \in Task, StateOK, TaskInv(u), Untouched(u), mode' = mode, run' = run
    PROVE  TaskInv(u)'
<1>1. usage[u] \in Usage /\ local[u] \in Usage
  BY DEF StateOK
<1>2. JournalInv(u)'
  BY DEF TaskInv, JournalInv, Untouched, Ours, TaskOf
<1>3. SendersInv(u)'
  BY DEF TaskInv, SendersInv, Untouched, Ours, TaskOf
<1>4. Joined(ledger', usage[u], u)
  BY <1>1, JoinedSame DEF TaskInv, Untouched
<1>5. ASSUME mode \in {"live", "recovering"} PROVE PcInv(u)'
  <2>1. PcInv(u)
    BY <1>5 DEF TaskInv
  <2>2. pc[u] = "reserved" => Following(u) \in Ours(u)
    BY <1>1, <2>1, IdMade, AttemptAssumption DEF PcInv, Reserving, Following, Ours, Usage
  <2>3. pc[u] \in Waiting => This(u) \in Ours(u)
    BY <1>1, <2>1, IdMade, AttemptAssumption DEF PcInv, This, Ours, Usage
  <2>4. Following(u)' = Following(u) /\ This(u)' = This(u)
    BY DEF Following, This, Untouched
  <2>5. \A id \in Ours(u) : /\ senders'[id] = senders[id]
                            /\ id \in InFlight(budget)' <=> id \in InFlight(budget)
    BY DEF Untouched, InFlight
  <2>6. phase'[u] = phase[u] /\ usage'[u] = usage[u] /\ local'[u] = local[u] /\ pc'[u] = pc[u]
    BY DEF Untouched
  <2>7. pc[u] = "reserved" => Following(u)' \in InFlight(budget)'
    BY <2>1, <2>2, <2>4, <2>5 DEF PcInv
  <2>8. pc[u] \in Waiting => This(u)' \in InFlight(budget)'
    BY <2>1, <2>3, <2>4, <2>5 DEF PcInv
  <2>9. \A id \in Ours(u) : senders'[id] = senders[id]
    BY <2>5
  <2> QED BY <2>1, <2>6, <2>7, <2>8, <2>9 DEF PcInv
<1>6. ASSUME mode = "live" PROVE RecordInv(u)'
  <2>1. RecordInv(u)
    BY <1>6 DEF TaskInv
  <2>2. local'[u] = local[u] /\ pc'[u] = pc[u] /\ budget'.requests[u] = budget.requests[u]
    BY DEF Untouched
  <2>3. \A id \in Ours(u) : ledger'[id] = ledger[id]
    BY DEF Untouched
  <2>4. Total(Upto(ledger', u, local[u].attempts)) = Total(Upto(ledger, u, local[u].attempts))
    BY <2>3, UptoSame
  <2>5. Joined(ledger, local[u], u) => Joined(ledger', local[u], u)
    BY <1>1, <2>3, JoinedSame
  <2> QED BY <2>1, <2>2, <2>3, <2>4, <2>5 DEF RecordInv
<1> QED BY <1>2, <1>3, <1>4, <1>5, <1>6 DEF TaskInv, Untouched

-----------------------------------------------------------------------------
(* The task that takes a step.                                               *)

(* The attempts a coroutine names are its own.                               *)
LEMMA OwnIds ==
    ASSUME NEW t \in Task, StateOK, PcInv(t)
    PROVE  /\ local[t] \in Usage /\ usage[t] \in Usage /\ local[t].attempts \in Nat
           /\ local[t].attempts <= MaxAttempts /\ MaxAttempts \in Nat
           /\ pc[t] \in Reserving =>
                /\ Following(t) \in RequestId /\ TaskOf(Following(t)) = t
                /\ AttemptOf(Following(t)) = local[t].attempts + 1
           /\ pc[t] \in Waiting =>
                /\ This(t) \in RequestId /\ TaskOf(This(t)) = t
                /\ AttemptOf(This(t)) = local[t].attempts
<1>1. local[t] \in Usage /\ usage[t] \in Usage
  BY DEF StateOK
<1>2. local[t].attempts \in 0 .. MaxAttempts /\ MaxAttempts \in Nat
  BY <1>1, AttemptAssumption DEF Usage
<1>3. ASSUME pc[t] \in Reserving PROVE local[t].attempts + 1 \in 1 .. MaxAttempts
  BY <1>2, <1>3 DEF PcInv
<1>4. ASSUME pc[t] \in Waiting PROVE local[t].attempts \in 1 .. MaxAttempts
  BY <1>2, <1>4 DEF PcInv
<1> QED BY <1>1, <1>2, <1>3, <1>4, IdMade DEF Following, This

(* Nothing is charged for no attempt.                                        *)
LEMMA UptoNone ==
    ASSUME NEW l \in [RequestId -> Entry], NEW t
    PROVE  Total(Upto(l, t, 0)) = 0
<1>1. Upto(l, t, 0) \in [RequestId -> Nat]
  BY TermsTyped
<1>2. \A id \in RequestId : ~(AttemptOf(id) <= 0)
  BY IdParts, AttemptAssumption
<1>3. \A id \in RequestId : Upto(l, t, 0)[id] = 0
  BY <1>2 DEF Upto
<1> QED BY <1>1, <1>3, TotalZero

(* The next attempt adds what it is accounted at.                            *)
LEMMA UptoNext ==
    ASSUME NEW l \in [RequestId -> Entry], NEW k \in [RequestId -> Entry],
           NEW t \in Task, NEW n \in 1 .. MaxAttempts,
           \A id \in Ours(t) : AttemptOf(id) <= n - 1 => k[id] = l[id]
    PROVE  Total(Upto(k, t, n)) = Total(Upto(l, t, n - 1)) + k[<<t, n>>].accounted
<1>1. n \in Nat /\ n - 1 \in Int /\ MaxAttempts \in Nat
  BY AttemptAssumption
<1>2. <<t, n>> \in RequestId /\ TaskOf(<<t, n>>) = t /\ AttemptOf(<<t, n>>) = n
  BY IdMade
<1>3. PICK f \in [RequestId -> Nat] : f = Upto(l, t, n - 1)
  BY TermsTyped
<1>4. PICK g \in [RequestId -> Nat] : g = Upto(k, t, n)
  BY TermsTyped
<1>5. f[<<t, n>>] = 0 /\ g[<<t, n>>] = k[<<t, n>>].accounted
  BY <1>1, <1>2, <1>3, <1>4 DEF Upto
<1>6. \A id \in RequestId \ {<<t, n>>} : g[id] = f[id]
  <2>1. SUFFICES ASSUME NEW id \in RequestId, id # <<t, n>> PROVE g[id] = f[id]
    OBVIOUS
  <2>2. AttemptOf(id) \in Nat /\ id = <<TaskOf(id), AttemptOf(id)>>
    BY IdParts
  <2>3. CASE TaskOf(id) = t
    <3>1. AttemptOf(id) # n
      BY <2>1, <2>2, <2>3
    <3>2. AttemptOf(id) <= n <=> AttemptOf(id) <= n - 1
      BY <1>1, <2>2, <3>1
    <3>3. AttemptOf(id) <= n - 1 => k[id] = l[id]
      BY <2>3 DEF Ours
    <3> QED BY <1>3, <1>4, <2>3, <3>2, <3>3 DEF Upto
  <2>4. CASE TaskOf(id) # t
    BY <1>3, <1>4, <2>4 DEF Upto
  <2> QED BY <2>3, <2>4
<1>7. Total(g) = Total(f) + g[<<t, n>>]
  BY <1>2, <1>5, <1>6, TotalRaise
<1> QED BY <1>3, <1>4, <1>5, <1>7

(* Between two attempts the record agrees with the ledger.                   *)
LEMMA LoopJoined ==
    ASSUME NEW t \in Task, LedgerInv, StateOK, PcInv(t), RecordInv(t), pc[t] \in Reserving
    PROVE  Joined(ledger, local[t], t)
<1>1. SUFFICES ASSUME local[t].attempts > 0 PROVE Joined(ledger, local[t], t)
  BY DEF Joined
<1>2. local[t].attempts \in 1 .. MaxAttempts
  BY <1>1, OwnIds
<1>3. PICK id \in Ours(t) : id = <<t, local[t].attempts>> /\ AttemptOf(id) = local[t].attempts
  BY <1>2, IdMade DEF Ours
<1>4. \A o \in Ours(t) : AttemptOf(o) <= local[t].attempts =>
        ledger[o].status = "uncertain_accounted"
  BY DEF RecordInv, Reserving, Waiting
<1>5. ledger[id].status = "uncertain_accounted"
  BY <1>2, <1>3, <1>4
<1>6. ledger[id].actual = Unknown
  BY <1>3, <1>5 DEF LedgerInv, EntryOK, Ours
<1>7. /\ ~local[t].creditable /\ local[t].reported = Unknown
      /\ local[t].accounted = Total(Upto(ledger, t, local[t].attempts))
  BY DEF RecordInv
<1> QED BY <1>3, <1>4, <1>6, <1>7 DEF Joined

(* The invariants of a task whose coroutine is alive.                        *)
LEMMA LiveTask ==
    ASSUME NEW t \in Task, TaskInv(t), mode = "live"
    PROVE  /\ JournalInv(t) /\ SendersInv(t) /\ PcInv(t) /\ RecordInv(t)
           /\ Joined(ledger, usage[t], t)
BY DEF TaskInv

(* Activation.                                                               *)
LEMMA ReadyOwn ==
    ASSUME NEW t \in Task, mode = "live", AccountsInv, StateOK, TaskInv(t), request_ready(t)
    PROVE  TaskInv(t)'
<1>1. mode = "live" /\ mode' = "live" /\ pc[t] = "idle" /\ phase[t] \in Fresh
  BY DEF request_ready, At, Fresh
<1>2. /\ phase'[t] = "ACTIVATED" /\ pc'[t] = "reserving"
      /\ ledger' = ledger /\ budget' = budget /\ usage' = usage /\ local' = local
      /\ senders' = senders /\ run' = run
  BY DEF request_ready, Goto, StateOK
<1>3. JournalInv(t) /\ SendersInv(t) /\ PcInv(t) /\ Joined(ledger, usage[t], t)
  BY <1>1, LiveTask
<1>4. local[t] = NoUsage /\ usage[t] = NoUsage
  BY <1>1, <1>3 DEF PcInv, JournalInv
<1>5. JournalInv(t)'
  BY <1>1, <1>2, <1>3, <1>4 DEF JournalInv
<1>6. SendersInv(t)'
  BY <1>1, <1>2, <1>3 DEF SendersInv
<1>7. local[t].attempts = 0 /\ MaxAttempts > 0
  BY <1>4, AttemptAssumption DEF NoUsage
<1>8. PcInv(t)'
  <2>1. \A id \in Ours(t) : senders[id] = {}
    BY <1>1, <1>3 DEF JournalInv
  <2> QED BY <1>2, <1>4, <1>7, <2>1 DEF PcInv, Reserving, Waiting
<1>9. RecordInv(t)'
  <2>1. Total(Upto(ledger, t, 0)) = 0
    BY UptoNone DEF AccountsInv, LedgerInv
  <2>2. \A id \in Ours(t) : ~(AttemptOf(id) <= 0)
    BY IdParts, AttemptAssumption DEF Ours
  <2>3. budget.requests[t] \in Nat
    BY DEF AccountsInv, ManagerInv, Manager
  <2>4. /\ ~local[t].creditable /\ local[t].tokens = 0 /\ local[t].reported = Unknown
        /\ local[t].accounted = 0
    BY <1>4 DEF NoUsage
  <2> QED BY <1>2, <1>7, <2>1, <2>2, <2>3, <2>4 DEF RecordInv, Reserving, Waiting
<1> QED BY <1>1, <1>2, <1>3, <1>5, <1>6, <1>8, <1>9 DEF TaskInv

(* A task that fails before its first reservation.                           *)
LEMMA PlanningOwn ==
    ASSUME NEW t \in Task, mode = "live", AccountsInv, StateOK, TaskInv(t), PlanningFails(t)
    PROVE  TaskInv(t)'
<1>1. /\ mode = "live" /\ mode' = "live" /\ pc'[t] = "failed" /\ phase' = phase
      /\ ledger' = ledger /\ budget' = budget /\ usage' = usage /\ local' = local
      /\ senders' = senders /\ run' = run
  BY DEF PlanningFails, At, Goto, StateOK, journal
<1>2. JournalInv(t) /\ SendersInv(t) /\ PcInv(t) /\ Joined(ledger, usage[t], t)
  BY <1>1, LiveTask
<1>3. local[t].attempts = 0 /\ phase[t] \in Fresh /\ pc[t] \in {"idle", "reserving"}
  BY <1>2 DEF PlanningFails, At, PcInv, Reserving, Fresh, NoUsage
<1>4. JournalInv(t)'
  BY <1>1, <1>2 DEF JournalInv
<1>5. SendersInv(t)'
  BY <1>1, <1>2, <1>3 DEF SendersInv
<1>6. PcInv(t)'
  BY <1>1, <1>2, <1>3 DEF PcInv, Reserving, Waiting
<1>7. RecordInv(t)'
  <2>1. budget.requests[t] \in Nat
    BY DEF AccountsInv, ManagerInv, Manager
  <2> QED BY <1>1, <1>3, <2>1 DEF RecordInv, Joined, Reserving, Waiting
<1> QED BY <1>1, <1>2, <1>4, <1>5, <1>6, <1>7 DEF TaskInv

(* A reservation.                                                            *)
LEMMA ReserveOwn ==
    ASSUME NEW t \in Task, mode = "live", AccountsInv, StateOK, TaskInv(t), ReserveAttempt(t)
    PROVE  TaskInv(t)'
<1>1. /\ mode = "live" /\ mode' = "live" /\ pc[t] = "reserving" /\ pc'[t] = "reserved"
      /\ phase' = phase /\ usage' = usage /\ local' = local
      /\ senders' = senders /\ run' = run
  BY DEF ReserveAttempt, At, Goto, StateOK, journal
<1>2. /\ JournalInv(t) /\ SendersInv(t) /\ PcInv(t) /\ RecordInv(t)
      /\ Joined(ledger, usage[t], t)
  BY <1>1, LiveTask
<1>3. LedgerInv /\ ManagerInv /\ LiveInv
  BY <1>1 DEF AccountsInv
<1>4. PICK id \in RequestId : /\ id = Following(t) /\ TaskOf(id) = t
                              /\ AttemptOf(id) = local[t].attempts + 1
                              /\ local[t].attempts \in Nat /\ local[t] \in Usage
  BY <1>1, <1>2, OwnIds DEF Reserving
<1>5. Reserve(id)
  BY <1>4 DEF ReserveAttempt
<1>6. /\ \A o \in RequestId : o # id => ledger'[o] = ledger[o]
      /\ ledger'[id].status = "reserved" /\ InFlight(budget') = InFlight(budget) \cup {id}
  BY <1>3, <1>5, ReserveLedger, ReserveManager
<1>7. /\ usage[t] = NoUsage /\ local[t].attempts < MaxAttempts
      /\ phase[t] = IF local[t].attempts = 0 THEN "ACTIVATED" ELSE "DISPATCHED"
  BY <1>1, <1>2 DEF PcInv, Reserving
<1>8. JournalInv(t)'
  BY <1>1, <1>2, <1>6, <1>7 DEF JournalInv, Ours
<1>9. SendersInv(t)'
  BY <1>1, <1>2 DEF SendersInv
<1>10. Joined(ledger', usage[t], t)
  BY <1>7 DEF Joined, NoUsage
<1>11. PcInv(t)'
  <2>1. Following(t)' \in InFlight(budget)'
    BY <1>1, <1>4, <1>6 DEF Following, InFlight
  <2>2. \A o \in Ours(t) : AttemptOf(o) > local[t].attempts => senders[o] = {}
    BY <1>1, <1>2 DEF PcInv, Reserving
  <2> QED BY <1>1, <1>7, <2>1, <2>2 DEF PcInv, Reserving, Waiting
<1>12. RecordInv(t)'
  <2>1. \A o \in Ours(t) : AttemptOf(o) <= local[t].attempts => ledger'[o] = ledger[o]
    BY <1>4, <1>6 DEF Ours
  <2>2. Total(Upto(ledger', t, local[t].attempts)) = Total(Upto(ledger, t, local[t].attempts))
    BY <2>1, UptoSame
  <2>3. budget'.requests = [budget.requests EXCEPT ![t] = budget.requests[t] + 1]
    BY <1>3, <1>4, <1>5, ReserveEffect DEF ManagerInv
  <2>4. budget.requests \in [Task -> Nat]
    BY <1>3 DEF ManagerInv, Manager
  <2>5. local[t].attempts <= budget.requests[t]
    BY <1>1, <1>2, <1>4, <2>4 DEF RecordInv, Reserving
  <2>6. local[t].attempts + 1 <= budget'.requests[t]
    BY <1>4, <2>3, <2>4, <2>5
  <2>7. /\ ~local[t].creditable /\ local[t].tokens = 0 /\ local[t].reported = Unknown
        /\ local[t].accounted = Total(Upto(ledger, t, local[t].attempts))
        /\ \A o \in Ours(t) : AttemptOf(o) <= local[t].attempts =>
            ledger[o].status = "uncertain_accounted"
    BY <1>1, <1>2 DEF RecordInv, Reserving, Waiting
  <2> QED BY <1>1, <2>1, <2>2, <2>6, <2>7 DEF RecordInv, Reserving, Waiting
<1> QED BY <1>1, <1>2, <1>8, <1>9, <1>10, <1>11, <1>12 DEF TaskInv

(* A reservation that is refused.                                            *)
LEMMA RefusedOwn ==
    ASSUME NEW t \in Task, mode = "live", AccountsInv, StateOK, TaskInv(t), ReserveRefused(t)
    PROVE  TaskInv(t)'
<1>1. /\ mode = "live" /\ mode' = "live" /\ pc[t] = "reserving"
      /\ pc'[t] \in {"errored", "failed"} /\ phase' = phase
      /\ ledger' = ledger /\ budget' = budget /\ usage' = usage /\ local' = local
      /\ senders' = senders /\ run' = run
  BY DEF ReserveRefused, At, Goto, StateOK, journal
<1>2. /\ JournalInv(t) /\ SendersInv(t) /\ PcInv(t) /\ RecordInv(t)
      /\ Joined(ledger, usage[t], t)
  BY <1>1, LiveTask
<1>3. Joined(ledger, local[t], t)
  BY <1>1, <1>2, LoopJoined DEF AccountsInv, Reserving
<1>4. JournalInv(t)'
  BY <1>1, <1>2 DEF JournalInv
<1>5. SendersInv(t)'
  BY <1>1, <1>2 DEF SendersInv
<1>6. PcInv(t)'
  BY <1>1, <1>2 DEF PcInv, Reserving, Waiting, Fresh
<1>7. RecordInv(t)'
  BY <1>1, <1>2, <1>3 DEF RecordInv, Reserving, Waiting
<1> QED BY <1>1, <1>2, <1>4, <1>5, <1>6, <1>7 DEF TaskInv

(* A reservation that is given back.                                         *)
LEMMA PreTransportOwn ==
    ASSUME NEW t \in Task, mode = "live", AccountsInv, StateOK, TaskInv(t), PreTransportFails(t)
    PROVE  TaskInv(t)'
<1>1. /\ mode = "live" /\ mode' = "live" /\ pc[t] = "reserved" /\ pc'[t] = "failed"
      /\ phase' = phase /\ usage' = usage /\ local' = local
      /\ senders' = senders /\ run' = run
  BY DEF PreTransportFails, At, Goto, StateOK, journal
<1>2. /\ JournalInv(t) /\ SendersInv(t) /\ PcInv(t) /\ RecordInv(t)
      /\ Joined(ledger, usage[t], t)
  BY <1>1, LiveTask
<1>3. LedgerInv /\ ManagerInv /\ LiveInv
  BY <1>1 DEF AccountsInv
<1>4. PICK id \in RequestId : /\ id = Following(t) /\ TaskOf(id) = t
                              /\ AttemptOf(id) = local[t].attempts + 1
                              /\ local[t].attempts \in Nat /\ local[t] \in Usage
  BY <1>1, <1>2, OwnIds DEF Reserving
<1>5. Release(id)
  BY <1>4 DEF PreTransportFails
<1>6. /\ \A o \in RequestId : o # id => ledger'[o] = ledger[o]
      /\ ledger'[id].status = "released" /\ budget'.requests = budget.requests
      /\ ledger[id].status = "reserved"
  BY <1>3, <1>5, ReleaseCloses DEF Closing
<1>7. /\ usage[t] = NoUsage
      /\ phase[t] = IF local[t].attempts = 0 THEN "ACTIVATED" ELSE "DISPATCHED"
  BY <1>1, <1>2 DEF PcInv, Reserving
<1>8. JournalInv(t)'
  BY <1>1, <1>2, <1>6, <1>7 DEF JournalInv, Ours
<1>9. SendersInv(t)'
  BY <1>1, <1>2 DEF SendersInv
<1>10. Joined(ledger', usage[t], t)
  BY <1>7 DEF Joined, NoUsage
<1>11. PcInv(t)'
  BY <1>1, <1>7 DEF PcInv, Reserving, Waiting, Fresh
<1>12. RecordInv(t)'
  <2>1. Joined(ledger, local[t], t)
    BY <1>1, <1>2, <1>3, LoopJoined DEF Reserving
  <2>2. \A o \in Ours(t) : AttemptOf(o) <= local[t].attempts => ledger[o] = ledger'[o]
    BY <1>4, <1>6 DEF Ours
  <2>3. Joined(ledger', local[t], t)
    BY <1>4, <2>1, <2>2, JoinedSame
  <2>4. budget.requests[t] \in Nat
    BY <1>3 DEF ManagerInv, Manager
  <2>5. local[t].attempts + 1 <= budget.requests[t]
    BY <1>1, <1>2 DEF RecordInv, Reserving
  <2>6. local[t].attempts + 0 <= budget'.requests[t]
    BY <1>4, <1>6, <2>4, <2>5
  <2> QED BY <1>1, <2>3, <2>6 DEF RecordInv, Reserving, Waiting
<1> QED BY <1>1, <1>2, <1>8, <1>9, <1>10, <1>11, <1>12 DEF TaskInv

(* The transport is entered.                                                 *)
LEMMA EnterOwn ==
    ASSUME NEW t \in Task, mode = "live", AccountsInv, StateOK, TaskInv(t), EnterTransport(t)
    PROVE  TaskInv(t)'
<1>1. /\ mode = "live" /\ mode' = "live" /\ pc[t] = "reserved" /\ pc'[t] = "sending"
      /\ phase'[t] = "DISPATCHED" /\ ledger' = ledger /\ budget' = budget
      /\ usage' = usage /\ senders' = senders /\ run' = run
  BY DEF EnterTransport, At, Goto, StateOK
<1>2. /\ JournalInv(t) /\ SendersInv(t) /\ PcInv(t) /\ RecordInv(t)
      /\ Joined(ledger, usage[t], t)
  BY <1>1, LiveTask
<1>3. LedgerInv /\ ManagerInv /\ LiveInv
  BY <1>1 DEF AccountsInv
<1>4. PICK id \in RequestId : /\ id = Following(t) /\ TaskOf(id) = t
                              /\ AttemptOf(id) = local[t].attempts + 1
                              /\ local[t].attempts \in Nat /\ local[t] \in Usage
  BY <1>1, <1>2, OwnIds DEF Reserving
<1>5. PICK u : u = local'[t]
  OBVIOUS
<1>6. /\ u.attempts = local[t].attempts + 1 /\ u.creditable = local[t].creditable
      /\ u.tokens = local[t].tokens /\ u.reported = local[t].reported
      /\ u.accounted = local[t].accounted
  BY <1>4, <1>5 DEF EnterTransport, StateOK, Usage
<1>7. usage[t] = NoUsage /\ local[t].attempts < MaxAttempts /\ id \in InFlight(budget)
  BY <1>1, <1>2, <1>4 DEF PcInv, Reserving
<1>8. JournalInv(t)'
  BY <1>1, <1>7 DEF JournalInv, Fresh
<1>9. SendersInv(t)'
  BY <1>1, <1>2 DEF SendersInv
<1>10. PcInv(t)'
  <2>1. This(t)' \in InFlight(budget)'
    BY <1>1, <1>4, <1>5, <1>6, <1>7 DEF This, Following
  <2>2. \A o \in Ours(t) : AttemptOf(o) > u.attempts => senders[o] = {}
    <3>1. \A o \in Ours(t) : AttemptOf(o) \in Nat
      BY IdParts DEF Ours
    <3>2. \A o \in Ours(t) : AttemptOf(o) > local[t].attempts => senders[o] = {}
      BY <1>1, <1>2 DEF PcInv, Reserving
    <3> QED BY <1>4, <1>6, <3>1, <3>2
  <2>3. u.attempts > 0
    BY <1>4, <1>6
  <2> QED BY <1>1, <1>5, <1>7, <2>1, <2>2, <2>3 DEF PcInv, Reserving, Waiting
<1>11. RecordInv(t)'
  <2>1. local[t].attempts + 1 \in 1 .. MaxAttempts /\ id = <<t, local[t].attempts + 1>>
    BY <1>4, <1>7, AttemptAssumption DEF Following
  <2>2. ledger[id].accounted = 0
    <3>1. ledger[id].status = "reserved"
      BY <1>3, <1>7 DEF LiveInv
    <3> QED BY <1>3, <3>1 DEF LedgerInv, EntryOK
  <2>3. ledger \in [RequestId -> Entry]
    BY <1>3 DEF LedgerInv
  <2>4. PICK m \in 1 .. MaxAttempts : m = local[t].attempts + 1 /\ m - 1 = local[t].attempts
    BY <1>4, <2>1
  <2>5. Total(Upto(ledger, t, m)) = Total(Upto(ledger, t, m - 1)) + ledger[<<t, m>>].accounted
    BY <2>3, UptoNext
  <2>6. Total(Upto(ledger, t, m - 1)) \in Nat
    BY <2>3, TermsTyped, CoinsFinite
  <2>7. Total(Upto(ledger, t, u.attempts)) = Total(Upto(ledger, t, local[t].attempts))
    BY <1>6, <2>1, <2>2, <2>4, <2>5, <2>6
  <2>8. /\ ~local[t].creditable /\ local[t].tokens = 0 /\ local[t].reported = Unknown
        /\ local[t].accounted = Total(Upto(ledger, t, local[t].attempts))
        /\ \A o \in Ours(t) : AttemptOf(o) <= local[t].attempts =>
            ledger[o].status = "uncertain_accounted"
        /\ local[t].attempts + 1 <= budget.requests[t]
    BY <1>1, <1>2 DEF RecordInv, Reserving, Waiting
  <2>9. \A o \in Ours(t) : AttemptOf(o) <= u.attempts - 1 =>
            ledger[o].status = "uncertain_accounted"
    BY <1>4, <1>6, <2>8
  <2>10. u.attempts + 0 <= budget.requests[t]
    BY <1>4, <1>6, <2>8
  <2> QED BY <1>1, <1>5, <1>6, <2>7, <2>8, <2>9, <2>10 DEF RecordInv, Reserving, Waiting
<1> QED BY <1>1, <1>2, <1>8, <1>9, <1>10, <1>11 DEF TaskInv

(* A dispatch that cannot be journalled.                                     *)
LEMMA DispatchOwn ==
    ASSUME NEW t \in Task, mode = "live", AccountsInv, StateOK, TaskInv(t), DispatchFails(t)
    PROVE  TaskInv(t)'
<1>1. /\ mode = "live" /\ mode' = "live" /\ pc[t] = "reserved" /\ pc'[t] = "errored"
      /\ phase' = phase /\ usage' = usage /\ senders' = senders /\ run' = run
      /\ local[t].attempts = 0
  BY DEF DispatchFails, At, Goto, StateOK, journal
<1>2. /\ JournalInv(t) /\ SendersInv(t) /\ PcInv(t) /\ RecordInv(t)
      /\ Joined(ledger, usage[t], t)
  BY <1>1, LiveTask
<1>3. LedgerInv /\ ManagerInv /\ LiveInv
  BY <1>1 DEF AccountsInv
<1>4. PICK id \in RequestId : id = Following(t) /\ TaskOf(id) = t
  BY <1>1, <1>2, OwnIds DEF Reserving
<1>5. Release(id)
  BY <1>4 DEF DispatchFails
<1>6. /\ \A o \in RequestId : o # id => ledger'[o] = ledger[o]
      /\ ledger'[id].status = "released"
  BY <1>3, <1>5, ReleaseCloses DEF Closing
<1>7. usage[t] = NoUsage /\ phase[t] = "ACTIVATED"
  BY <1>1, <1>2 DEF PcInv, Reserving
<1>8. JournalInv(t)'
  BY <1>1, <1>2, <1>6, <1>7 DEF JournalInv, Ours
<1>9. SendersInv(t)'
  BY <1>1, <1>2 DEF SendersInv
<1>10. Joined(ledger', usage[t], t)
  BY <1>7 DEF Joined, NoUsage
<1>11. PcInv(t)'
  BY <1>1, <1>7 DEF PcInv, Reserving, Waiting
<1>12. RecordInv(t)'
  BY <1>1 DEF RecordInv, Reserving, Waiting
<1> QED BY <1>1, <1>2, <1>8, <1>9, <1>10, <1>11, <1>12 DEF TaskInv

(* A request is sent.                                                        *)
LEMMA SendOwn ==
    ASSUME NEW t \in Task, mode = "live", AccountsInv, StateOK, TaskInv(t), Send(t)
    PROVE  TaskInv(t)'
<1>1. /\ mode = "live" /\ mode' = "live" /\ pc[t] = "sending" /\ pc'[t] = "waiting"
      /\ phase' = phase /\ usage' = usage /\ local' = local /\ run' = run
      /\ ledger' = ledger /\ budget' = budget
  BY DEF Send, At, Goto, StateOK, journal
<1>2. /\ JournalInv(t) /\ SendersInv(t) /\ PcInv(t) /\ RecordInv(t)
      /\ Joined(ledger, usage[t], t)
  BY <1>1, LiveTask
<1>3. PICK id \in RequestId : /\ id = This(t) /\ TaskOf(id) = t
                              /\ AttemptOf(id) = local[t].attempts
                              /\ local[t].attempts \in Nat
  BY <1>1, <1>2, OwnIds DEF Waiting
<1>4. /\ senders'[id] = senders[id] \cup {run}
      /\ \A o \in RequestId : o # id => senders'[o] = senders[o]
  BY <1>3 DEF Send, StateOK
<1>5. usage[t] = NoUsage /\ phase[t] = "DISPATCHED"
  BY <1>1, <1>2 DEF PcInv, Waiting
<1>6. JournalInv(t)'
  BY <1>1, <1>2, <1>5 DEF JournalInv, Fresh
<1>7. \A o \in Ours(t) : senders'[o] \subseteq {run}
  BY <1>1, <1>2, <1>4 DEF SendersInv, Ours
<1>8. SendersInv(t)'
  <2>1. run \in 1 .. MaxRuns
    BY DEF StateOK
  <2> QED BY <1>1, <1>7, <2>1 DEF SendersInv
<1>9. PcInv(t)'
  <2>1. \A o \in Ours(t) : AttemptOf(o) > local[t].attempts => senders'[o] = {}
    BY <1>1, <1>2, <1>3, <1>4 DEF PcInv, Waiting, Ours
  <2>2. This(t)' \in InFlight(budget)' /\ local[t].attempts > 0
    BY <1>1, <1>2 DEF PcInv, Waiting, This
  <2> QED BY <1>1, <1>5, <2>1, <2>2 DEF PcInv, Reserving, Waiting
<1>10. RecordInv(t)'
  BY <1>1, <1>2 DEF RecordInv, Reserving, Waiting
<1> QED BY <1>1, <1>2, <1>6, <1>8, <1>9, <1>10 DEF TaskInv

(* An attempt is over: what the three outcomes of waiting have in common.    *)
Answered(t, actual, tokens) ==
    /\ mode = "live" /\ mode' = "live" /\ pc[t] = "waiting"
    /\ phase' = phase /\ usage' = usage /\ senders' = senders /\ run' = run
    /\ Reconcile(This(t), actual, tokens)
    /\ local'[t] \in Usage
    /\ local'[t].attempts = local[t].attempts
    /\ local'[t].accounted = local[t].accounted + AccountedCost(CostOf[t], actual)
    /\ local'[t].reported = actual
    /\ pc'[t] \in {"errored", "completed", "failed", "reserving"}
    /\ pc'[t] \in {"completed", "failed"} =>
        /\ actual = Unknown \/ actual <= CostOf[t]
        /\ local'[t].creditable => actual # Unknown
    /\ pc'[t] = "reserving" =>
        /\ actual = Unknown /\ local'[t].tokens = 0 /\ ~local'[t].creditable
        /\ local[t].attempts < MaxAttempts

(* The record then names the charges of all attempts.                        *)
LEMMA AnsweredRecord ==
    ASSUME NEW t \in Task, AccountsInv, StateOK, TaskInv(t),
           NEW actual \in Nat \cup {Unknown}, NEW tokens \in Nat,
           Answered(t, actual, tokens)
    PROVE  /\ local[t].attempts \in 1 .. MaxAttempts
           /\ local'[t].accounted = Total(Upto(ledger', t, local[t].attempts))
           /\ \A o \in RequestId : o # This(t) => ledger'[o] = ledger[o]
           /\ ledger'[This(t)].actual = actual
           /\ ledger'[This(t)].status = ReconciledStatus(CostOf[t], actual)
           /\ \A o \in Ours(t) : AttemptOf(o) <= local[t].attempts - 1 =>
                ledger'[o].status = "uncertain_accounted"
           /\ \A o \in Ours(t) : AttemptOf(o) <= local[t].attempts =>
                o = This(t) \/ AttemptOf(o) <= local[t].attempts - 1
           /\ budget'.requests = budget.requests
<1>1. mode = "live" /\ pc[t] = "waiting" /\ Reconcile(This(t), actual, tokens)
  BY DEF Answered
<1>2. PcInv(t) /\ RecordInv(t)
  BY <1>1, LiveTask
<1>3. LedgerInv /\ ManagerInv /\ LiveInv
  BY <1>1 DEF AccountsInv
<1>4. PICK id \in RequestId : /\ id = This(t) /\ TaskOf(id) = t
                              /\ AttemptOf(id) = local[t].attempts
                              /\ local[t].attempts \in Nat
                              /\ local[t].attempts <= MaxAttempts
  BY <1>1, <1>2, OwnIds DEF Waiting
<1>5. local[t].attempts > 0
  BY <1>1, <1>2 DEF PcInv, Waiting
<1>6. PICK n \in 1 .. MaxAttempts : n = local[t].attempts
  BY <1>4, <1>5, AttemptAssumption
<1>7. PICK cost \in Nat : cost = AccountedCost(CostOf[t], actual)
  BY Plans DEF AccountedCost
<1>8. /\ Closing(id, cost) /\ ledger'[id].actual = actual
      /\ ledger'[id].status = ReconciledStatus(CostOf[t], actual)
  BY <1>1, <1>3, <1>4, <1>7, ReconcileCloses
<1>9. /\ \A o \in RequestId : o # id => ledger'[o] = ledger[o]
      /\ ledger'[id].accounted = cost /\ ledger[id].accounted = 0
      /\ ledger' \in [RequestId -> Entry] /\ budget'.requests = budget.requests
  BY <1>8 DEF Closing
<1>10. \A o \in Ours(t) : /\ AttemptOf(o) \in Nat
                          /\ AttemptOf(o) <= n => o = id \/ AttemptOf(o) <= n - 1
  <2>1. SUFFICES ASSUME NEW o \in Ours(t)
                 PROVE  /\ AttemptOf(o) \in Nat
                        /\ AttemptOf(o) <= n => o = id \/ AttemptOf(o) <= n - 1
    OBVIOUS
  <2>2. o = <<t, AttemptOf(o)>> /\ AttemptOf(o) \in Nat
    BY IdParts DEF Ours
  <2>3. id = <<t, n>>
    BY <1>4, <1>6 DEF This
  <2> QED BY <1>4, <1>6, <2>2, <2>3
<1>11. \A o \in Ours(t) : AttemptOf(o) <= n - 1 => ledger'[o] = ledger[o]
  <2>1. ~(n <= n - 1)
    BY <1>4, <1>6
  <2> QED BY <1>4, <1>6, <1>9, <2>1 DEF Ours
<1>12. ledger \in [RequestId -> Entry]
  BY <1>3 DEF LedgerInv
<1>13. Total(Upto(ledger', t, n)) = Total(Upto(ledger, t, n - 1)) + ledger'[<<t, n>>].accounted
  BY <1>9, <1>11, <1>12, UptoNext
<1>14. Total(Upto(ledger, t, n)) = Total(Upto(ledger, t, n - 1)) + ledger[<<t, n>>].accounted
  BY <1>12, UptoNext
<1>15. id = <<t, n>>
  BY <1>4, <1>6 DEF This
<1>16. Total(Upto(ledger, t, n - 1)) \in Nat
  BY <1>12, TermsTyped, CoinsFinite
<1>17. Total(Upto(ledger', t, n)) = Total(Upto(ledger, t, n)) + cost
  BY <1>7, <1>9, <1>13, <1>14, <1>15, <1>16
<1>18. local[t].accounted = Total(Upto(ledger, t, n))
  BY <1>1, <1>2, <1>6 DEF RecordInv, Waiting
<1>19. local'[t].accounted = Total(Upto(ledger', t, n))
  BY <1>7, <1>17, <1>18 DEF Answered
<1>20. \A o \in Ours(t) : AttemptOf(o) <= n - 1 => ledger'[o].status = "uncertain_accounted"
  BY <1>1, <1>2, <1>6, <1>11 DEF RecordInv, Waiting
<1> QED BY <1>4, <1>6, <1>8, <1>9, <1>10, <1>19, <1>20

(* And the invariant of the task is kept.                                    *)
LEMMA AnsweredOwn ==
    ASSUME NEW t \in Task, AccountsInv, StateOK, TaskInv(t),
           NEW actual \in Nat \cup {Unknown}, NEW tokens \in Nat,
           Answered(t, actual, tokens)
    PROVE  TaskInv(t)'
<1>1. /\ mode = "live" /\ mode' = "live" /\ pc[t] = "waiting"
      /\ phase' = phase /\ usage' = usage /\ senders' = senders /\ run' = run
      /\ pc'[t] \in {"errored", "completed", "failed", "reserving"}
      /\ pc'[t] = "reserving" =>
            /\ actual = Unknown /\ local'[t].tokens = 0 /\ ~local'[t].creditable
            /\ local[t].attempts < MaxAttempts
      /\ local'[t].attempts = local[t].attempts
      /\ local'[t].reported = actual
  BY DEF Answered
<1>2. /\ JournalInv(t) /\ SendersInv(t) /\ PcInv(t) /\ RecordInv(t)
      /\ Joined(ledger, usage[t], t)
  BY <1>1, LiveTask
<1>3. PICK n \in 1 .. MaxAttempts : n = local[t].attempts
  BY AnsweredRecord
<1>4. /\ local'[t].accounted = Total(Upto(ledger', t, n))
      /\ \A o \in RequestId : o # This(t) => ledger'[o] = ledger[o]
      /\ ledger'[This(t)].actual = actual
      /\ ledger'[This(t)].status = ReconciledStatus(CostOf[t], actual)
      /\ \A o \in Ours(t) : AttemptOf(o) <= n - 1 => ledger'[o].status = "uncertain_accounted"
      /\ \A o \in Ours(t) : AttemptOf(o) <= n => o = This(t) \/ AttemptOf(o) <= n - 1
      /\ budget'.requests = budget.requests
  BY <1>3, AnsweredRecord
<1>5. phase[t] = "DISPATCHED" /\ usage[t] = NoUsage
  BY <1>1, <1>2 DEF PcInv, Waiting
<1>6. JournalInv(t)'
  BY <1>1, <1>5 DEF JournalInv, Fresh
<1>7. SendersInv(t)'
  BY <1>1, <1>2 DEF SendersInv
<1>8. Joined(ledger', usage[t], t)
  BY <1>5 DEF Joined, NoUsage
<1>9. n \in Nat /\ n > 0
  BY <1>3, AttemptAssumption
<1>10. PcInv(t)'
  <2>1. \A o \in Ours(t) : AttemptOf(o) > n => senders[o] = {}
    BY <1>1, <1>2, <1>3 DEF PcInv, Waiting
  <2> QED BY <1>1, <1>3, <1>5, <1>9, <2>1 DEF PcInv, Reserving, Waiting
<1>11. n + 0 <= budget.requests[t]
  BY <1>1, <1>2, <1>3 DEF RecordInv, Waiting
<1>12. ASSUME pc'[t] \in {"completed", "failed"} PROVE Joined(ledger', local'[t], t)
  <2>1. /\ actual = Unknown \/ actual <= CostOf[t]
        /\ local'[t].creditable => actual # Unknown
    BY <1>12 DEF Answered
  <2>2. /\ ledger'[This(t)].status \in {"reconciled", "uncertain_accounted"}
        /\ actual # Unknown => ledger'[This(t)].status = "reconciled"
    BY <1>4, <2>1, Plans DEF ReconciledStatus, Unknown
  <2>3. \A o \in Ours(t) : AttemptOf(o) <= n =>
            ledger'[o].status \in {"reconciled", "uncertain_accounted"}
    BY <1>4, <2>2
  <2>4. This(t) = <<t, n>>
    BY <1>3 DEF This
  <2> QED BY <1>1, <1>3, <1>4, <2>1, <2>2, <2>3, <2>4 DEF Joined
<1>13. RecordInv(t)'
  <2>1. CASE pc'[t] = "reserving"
    <3>1. ledger'[This(t)].status = "uncertain_accounted"
      BY <1>1, <1>4, <2>1 DEF ReconciledStatus
    <3>2. \A o \in Ours(t) : AttemptOf(o) <= n => ledger'[o].status = "uncertain_accounted"
      BY <1>4, <3>1
    <3> QED BY <1>1, <1>3, <1>4, <1>11, <2>1, <3>2 DEF RecordInv, Reserving, Waiting
  <2>2. CASE pc'[t] \in {"completed", "failed"}
    BY <1>1, <1>3, <1>4, <1>11, <1>12, <2>2 DEF RecordInv, Reserving, Waiting
  <2>3. CASE pc'[t] = "errored"
    BY <2>3 DEF RecordInv, Reserving, Waiting
  <2> QED BY <1>1, <2>1, <2>2, <2>3
<1> QED BY <1>1, <1>2, <1>6, <1>7, <1>8, <1>10, <1>13 DEF TaskInv

(* The record after an answer.                                               *)
LEMMA BookedRecord ==
    ASSUME NEW t \in Task, StateOK,
           NEW actual \in Nat \cup {Unknown}, NEW tokens \in Nat,
           NEW u, u = Booked(t, actual, tokens)
    PROVE  /\ u \in Usage /\ u.attempts = local[t].attempts
           /\ u.accounted = local[t].accounted + AccountedCost(CostOf[t], actual)
           /\ u.reported = actual /\ u.tokens = tokens /\ u.creditable = local[t].creditable
<1>1. local[t] \in Usage
  BY DEF StateOK
<1>2. PICK cost \in Nat : cost = AccountedCost(CostOf[t], actual)
  BY Plans DEF AccountedCost
<1>3. local[t].accounted + cost \in Nat
  BY <1>1, <1>2 DEF Usage
<1>4. u = [local[t] EXCEPT !.accounted = local[t].accounted + cost,
                           !.reported = actual, !.tokens = tokens]
  BY <1>2 DEF Booked
<1> QED BY <1>1, <1>2, <1>3, <1>4 DEF Usage

(* A timeout, a retryable status or a refusal.                               *)
LEMMA FailureAnswered ==
    ASSUME NEW t \in Task, mode = "live", AccountsInv, StateOK, TaskInv(t),
           RetryableFailure(t) \/ Rejected(t)
    PROVE  /\ Answered(t, Unknown, TokensOf[t])
           /\ pc'[t] # "errored" /\ local'[t].tokens = 0
           /\ pc' = [pc EXCEPT ![t] = pc'[t]] /\ local' = [local EXCEPT ![t] = local'[t]]
           /\ terminal' = terminal
<1>1. /\ mode = "live" /\ mode' = "live" /\ pc[t] = "waiting"
      /\ phase' = phase /\ usage' = usage /\ senders' = senders /\ run' = run
      /\ Reconcile(This(t), Unknown, TokensOf[t])
      /\ local' = [local EXCEPT ![t] = Booked(t, Unknown, 0)]
      /\ terminal' = terminal
  BY DEF RetryableFailure, Rejected, At, journal
<1>2. pc' = [pc EXCEPT ![t] = "failed"] \/
      (pc' = [pc EXCEPT ![t] = "reserving"] /\ ~(local[t].attempts >= MaxAttempts))
  BY DEF RetryableFailure, Rejected, Goto
<1>3. pc'[t] = "failed" \/ (pc'[t] = "reserving" /\ ~(local[t].attempts >= MaxAttempts))
  BY <1>2 DEF StateOK
<1>4. local'[t] = Booked(t, Unknown, 0)
  BY <1>1 DEF StateOK
<1>5. /\ local'[t] \in Usage /\ local'[t].attempts = local[t].attempts
      /\ local'[t].accounted = local[t].accounted + AccountedCost(CostOf[t], Unknown)
      /\ local'[t].reported = Unknown /\ local'[t].tokens = 0
      /\ local'[t].creditable = local[t].creditable
  <2>1. PICK a \in Nat \cup {Unknown}, n \in Nat : a = Unknown /\ n = 0
    OBVIOUS
  <2>2. PICK u : u = Booked(t, a, n)
    OBVIOUS
  <2>3. /\ u \in Usage /\ u.attempts = local[t].attempts
        /\ u.accounted = local[t].accounted + AccountedCost(CostOf[t], a)
        /\ u.reported = a /\ u.tokens = n /\ u.creditable = local[t].creditable
    BY <2>2, BookedRecord
  <2> QED BY <1>4, <2>1, <2>2, <2>3
<1>6. ~local[t].creditable
  BY <1>1, LiveTask DEF RecordInv, Waiting
<1>7. local[t].attempts < MaxAttempts \/ local[t].attempts >= MaxAttempts
  BY <1>1, LiveTask, OwnIds
<1>8. Answered(t, Unknown, TokensOf[t])
  BY <1>1, <1>3, <1>5, <1>6, <1>7 DEF Answered
<1>9. pc' = [pc EXCEPT ![t] = pc'[t]]
  BY <1>2, <1>3
<1> QED BY <1>1, <1>3, <1>4, <1>5, <1>8, <1>9

(* A response.                                                               *)
LEMMA RespondAnswered ==
    ASSUME NEW t \in Task, mode = "live", AccountsInv, StateOK, TaskInv(t),
           NEW actual \in ActualCost, NEW tokens \in 0 .. TokensOf[t] + 1, NEW valid \in BOOLEAN,
           Respond(t, actual, tokens, valid)
    PROVE  /\ actual \in Nat /\ tokens \in Nat
           /\ Answered(t, actual, tokens)
           /\ pc'[t] # "errored" => actual <= CostOf[t] /\ tokens <= TokensOf[t]
           /\ pc'[t] # "reserving" /\ local'[t].tokens = tokens
           /\ pc' = [pc EXCEPT ![t] = pc'[t]] /\ local' = [local EXCEPT ![t] = local'[t]]
           /\ terminal' = terminal
<1>1. actual \in Nat /\ tokens \in Nat /\ actual # Unknown /\ actual \in Nat \cup {Unknown}
  BY ActualAssumption, Plans DEF Unknown
<1>2. /\ mode = "live" /\ mode' = "live" /\ pc[t] = "waiting"
      /\ phase' = phase /\ usage' = usage /\ senders' = senders /\ run' = run
      /\ Reconcile(This(t), actual, tokens)
      /\ local' = [local EXCEPT ![t] = [Booked(t, actual, tokens) EXCEPT !.creditable = valid]]
      /\ terminal' = terminal
  BY DEF Respond, At, journal
<1>3. PICK p \in {"errored", "completed", "failed"} :
        /\ pc' = [pc EXCEPT ![t] = p]
        /\ p # "errored" => ~(actual > CostOf[t] \/ tokens > TokensOf[t])
  <2>1. pc' = [pc EXCEPT ![t] =
                CASE actual > CostOf[t] \/ tokens > TokensOf[t] -> "errored"
                  [] OTHER -> IF valid THEN "completed" ELSE "failed"]
    BY DEF Respond, Goto
  <2>2. CASE actual > CostOf[t] \/ tokens > TokensOf[t]
    BY <2>1, <2>2
  <2>3. CASE ~(actual > CostOf[t] \/ tokens > TokensOf[t])
    BY <2>1, <2>3
  <2> QED BY <2>2, <2>3
<1>4. pc'[t] = p
  BY <1>3 DEF StateOK
<1>5. local'[t] = [Booked(t, actual, tokens) EXCEPT !.creditable = valid]
  BY <1>2 DEF StateOK
<1>6. /\ local'[t] \in Usage /\ local'[t].attempts = local[t].attempts
      /\ local'[t].accounted = local[t].accounted + AccountedCost(CostOf[t], actual)
      /\ local'[t].reported = actual /\ local'[t].tokens = tokens
  <2>1. PICK u : u = Booked(t, actual, tokens)
    OBVIOUS
  <2>2. /\ u \in Usage /\ u.attempts = local[t].attempts
        /\ u.accounted = local[t].accounted + AccountedCost(CostOf[t], actual)
        /\ u.reported = actual /\ u.tokens = tokens
    BY <1>1, <2>1, BookedRecord
  <2>3. local'[t] = [u EXCEPT !.creditable = valid]
    BY <1>5, <2>1
  <2> QED BY <2>2, <2>3 DEF Usage
<1>7. p # "errored" => actual <= CostOf[t] /\ tokens <= TokensOf[t]
  BY <1>1, <1>3, Plans
<1>8. Answered(t, actual, tokens)
  BY <1>1, <1>2, <1>3, <1>4, <1>6, <1>7 DEF Answered
<1> QED BY <1>1, <1>2, <1>3, <1>4, <1>5, <1>6, <1>7, <1>8

(* The record is retained.                                                   *)
LEMMA RetainOwn ==
    ASSUME NEW t \in Task, mode = "live", AccountsInv, StateOK, TaskInv(t), RetainUsage(t)
    PROVE  TaskInv(t)'
<1>1. /\ mode = "live" /\ mode' = "live" /\ pc[t] \in {"completed", "failed"}
      /\ pc'[t] = "retained" /\ local[t].attempts > 0 /\ usage'[t] = local[t]
      /\ phase' = phase /\ local' = local /\ senders' = senders /\ run' = run
      /\ ledger' = ledger /\ budget' = budget
  BY DEF RetainUsage, At, Goto, StateOK
<1>2. /\ JournalInv(t) /\ SendersInv(t) /\ PcInv(t) /\ RecordInv(t)
  BY <1>1, LiveTask
<1>3. phase[t] = "DISPATCHED"
  <2>1. local[t].attempts # 0
    BY <1>1, <1>2, OwnIds
  <2> QED BY <1>1, <1>2, <2>1 DEF PcInv
<1>4. Joined(ledger, local[t], t) /\ local[t].attempts + 0 <= budget.requests[t]
  BY <1>1, <1>2 DEF RecordInv
<1>5. local[t].attempts <= MaxRequests
  <2>1. budget.requests[t] <= MaxRequests /\ budget.requests[t] \in Nat
    BY DEF AccountsInv, ManagerInv, Manager
  <2>2. local[t].attempts \in Nat
    BY <1>2, OwnIds
  <2> QED BY <1>4, <2>1, <2>2, AttemptAssumption
<1>6. JournalInv(t)'
  BY <1>1, <1>3, <1>5 DEF JournalInv, Fresh
<1>7. SendersInv(t)'
  BY <1>1, <1>2 DEF SendersInv
<1>8. PcInv(t)'
  BY <1>1, <1>3 DEF PcInv, Reserving, Waiting
<1>9. RecordInv(t)'
  BY <1>1 DEF RecordInv, Reserving, Waiting
<1> QED BY <1>1, <1>4, <1>6, <1>7, <1>8, <1>9 DEF TaskInv

(* The outcome is recorded.                                                  *)
LEMMA TerminalOwn ==
    ASSUME NEW t \in Task, mode = "live", AccountsInv, StateOK, TaskInv(t), RecordTerminal(t)
    PROVE  TaskInv(t)'
<1>1. /\ mode = "live" /\ mode' = "live" /\ pc[t] \in {"retained", "failed"}
      /\ pc'[t] = "done" /\ phase'[t] = "TERMINAL"
      /\ usage' = usage /\ local' = local /\ senders' = senders /\ run' = run
      /\ ledger' = ledger /\ budget' = budget
  BY DEF RecordTerminal, At, Goto, StateOK
<1>2. JournalInv(t) /\ SendersInv(t) /\ Joined(ledger, usage[t], t)
  BY <1>1, LiveTask
<1>3. JournalInv(t)'
  BY <1>1, <1>2 DEF JournalInv, Fresh
<1>4. SendersInv(t)'
  BY <1>1, <1>2 DEF SendersInv
<1>5. PcInv(t)'
  BY <1>1 DEF PcInv, Reserving, Waiting
<1>6. RecordInv(t)'
  BY <1>1 DEF RecordInv, Reserving, Waiting
<1> QED BY <1>1, <1>2, <1>3, <1>4, <1>5, <1>6 DEF TaskInv

-----------------------------------------------------------------------------
(* The steps of a live process, one task at a time.                          *)

(* What such a step may change.                                              *)
Frame(t) ==
    /\ mode = "live" /\ mode' = "live" /\ run' = run
    /\ StateOK'
    /\ \A u \in Task : u # t => Untouched(u)

(* The steps that call neither the ledger nor the manager.                   *)
QuietStep(t) ==
    \/ request_ready(t) \/ PlanningFails(t) \/ ReserveRefused(t) \/ EnterTransport(t)
    \/ Send(t) \/ RetainUsage(t) \/ RecordTerminal(t)

(* A quiet step changes the variables of its task only.                      *)
LEMMA QuietFrame ==
    ASSUME NEW t \in Task, mode = "live", StateOK, TaskInv(t), QuietStep(t)
    PROVE  Frame(t) /\ ledger' = ledger /\ budget' = budget
<1>1. /\ mode = "live" /\ mode' = "live" /\ run' = run
      /\ ledger' = ledger /\ budget' = budget
  BY DEF QuietStep, request_ready, PlanningFails, ReserveRefused, EnterTransport,
         Send, RetainUsage, RecordTerminal, At
<1>2. PcInv(t)
  BY <1>1, LiveTask
<1>3. PICK place \in Location : pc' = [pc EXCEPT ![t] = place]
  BY DEF QuietStep, request_ready, PlanningFails, ReserveRefused, EnterTransport,
         Send, RetainUsage, RecordTerminal, Goto, Location
<1>4. phase' = phase \/ \E p \in Phase : phase' = [phase EXCEPT ![t] = p]
  BY DEF QuietStep, request_ready, PlanningFails, ReserveRefused, EnterTransport,
         Send, RetainUsage, RecordTerminal, Phase, journal
<1>5. terminal' = terminal \/ \E p \in Terminals : terminal' = [terminal EXCEPT ![t] = p]
  BY DEF QuietStep, request_ready, PlanningFails, ReserveRefused, EnterTransport,
         Send, RetainUsage, RecordTerminal, Terminals, journal
<1>6. usage' = usage \/ usage' = [usage EXCEPT ![t] = local[t]]
  BY DEF QuietStep, request_ready, PlanningFails, ReserveRefused, EnterTransport,
         Send, RetainUsage, RecordTerminal, journal
<1>7. local' = local \/ \E u \in Usage : local' = [local EXCEPT ![t] = u]
  <2>1. CASE EnterTransport(t)
    <3>1. local[t].attempts < MaxAttempts /\ local[t] \in Usage
      BY <1>2, <2>1 DEF EnterTransport, At, PcInv, Reserving, StateOK
    <3>2. PICK u : u = [local[t] EXCEPT !.attempts = local[t].attempts + 1]
      OBVIOUS
    <3>3. local[t].attempts + 1 \in 0 .. MaxAttempts
      BY <3>1, AttemptAssumption DEF Usage
    <3>4. u \in Usage
      BY <3>1, <3>2, <3>3 DEF Usage
    <3>5. local' = [local EXCEPT ![t] = u]
      BY <2>1, <3>2 DEF EnterTransport, StateOK
    <3> QED BY <3>4, <3>5
  <2>2. CASE ~EnterTransport(t)
    BY <2>2 DEF QuietStep, request_ready, PlanningFails, ReserveRefused,
         Send, RetainUsage, RecordTerminal
  <2> QED BY <2>1, <2>2
<1>8. senders' = senders \/
      (/\ This(t) \in RequestId /\ TaskOf(This(t)) = t
       /\ senders' = [senders EXCEPT ![This(t)] = senders[This(t)] \cup {run}])
  <2>1. CASE Send(t)
    <3>1. This(t) \in RequestId /\ TaskOf(This(t)) = t
      BY <1>2, <2>1, OwnIds DEF Send, At, Waiting
    <3> QED BY <2>1, <3>1 DEF Send
  <2>2. CASE ~Send(t)
    BY <2>2 DEF QuietStep, request_ready, PlanningFails, ReserveRefused,
         EnterTransport, RetainUsage, RecordTerminal
  <2> QED BY <2>1, <2>2
<1>9. phase' \in [Task -> Phase] /\ \A u \in Task : u # t => phase'[u] = phase[u]
  BY <1>4 DEF StateOK
<1>10. usage' \in [Task -> Usage] /\ \A u \in Task : u # t => usage'[u] = usage[u]
  BY <1>6 DEF StateOK
<1>11. local' \in [Task -> Usage] /\ \A u \in Task : u # t => local'[u] = local[u]
  BY <1>7 DEF StateOK
<1>12. pc' \in [Task -> Location] /\ \A u \in Task : u # t => pc'[u] = pc[u]
  BY <1>3 DEF StateOK
<1>13. terminal' \in [Task -> Terminals \cup {"none"}]
  BY <1>5 DEF StateOK
<1>14. /\ senders' \in [RequestId -> SUBSET (1 .. MaxRuns)]
       /\ \A id \in RequestId : TaskOf(id) # t => senders'[id] = senders[id]
  BY <1>8 DEF StateOK
<1>15. StateOK'
  BY <1>1, <1>9, <1>10, <1>11, <1>12, <1>13, <1>14 DEF StateOK
<1>16. \A u \in Task : u # t => Untouched(u)
  BY <1>1, <1>9, <1>10, <1>11, <1>12, <1>14 DEF Untouched, Ours
<1> QED BY <1>1, <1>15, <1>16 DEF Frame

(* So does a reservation.                                                    *)
LEMMA ReserveFrame ==
    ASSUME NEW t \in Task, mode = "live", AccountsInv, StateOK, TaskInv(t), ReserveAttempt(t)
    PROVE  Frame(t)
<1>1. /\ mode = "live" /\ mode' = "live" /\ run' = run /\ pc[t] = "reserving"
      /\ phase' = phase /\ terminal' = terminal /\ usage' = usage /\ local' = local
      /\ senders' = senders /\ pc' = [pc EXCEPT ![t] = "reserved"]
  BY DEF ReserveAttempt, At, Goto, journal
<1>2. LedgerInv /\ ManagerInv /\ LiveInv /\ PcInv(t)
  BY <1>1, LiveTask DEF AccountsInv
<1>3. PICK id \in RequestId : id = Following(t) /\ TaskOf(id) = t
  BY <1>1, <1>2, OwnIds DEF Reserving
<1>4. Reserve(id)
  BY <1>3 DEF ReserveAttempt
<1>5. /\ \A o \in RequestId : o # id => ledger'[o] = ledger[o]
      /\ InFlight(budget') = InFlight(budget) \cup {id}
  BY <1>2, <1>4, ReserveLedger, ReserveManager
<1>6. budget'.requests = [budget.requests EXCEPT ![t] = budget.requests[t] + 1]
  BY <1>2, <1>3, <1>4, ReserveEffect DEF ManagerInv
<1>7. budget.requests \in [Task -> Nat]
  BY <1>2 DEF ManagerInv, Manager
<1>8. pc' \in [Task -> Location] /\ \A u \in Task : u # t => pc'[u] = pc[u]
  BY <1>1 DEF StateOK, Location
<1>9. StateOK'
  BY <1>1, <1>8 DEF StateOK
<1>10. \A u \in Task : u # t => Untouched(u)
  BY <1>1, <1>3, <1>5, <1>6, <1>7, <1>8 DEF Untouched, Ours
<1> QED BY <1>1, <1>9, <1>10 DEF Frame

(* And a reservation that is closed.                                         *)
LEMMA ClosingFrame ==
    ASSUME NEW t \in Task, NEW id \in RequestId, NEW cost, StateOK, Closing(id, cost),
           TaskOf(id) = t, mode = "live", mode' = "live", run' = run,
           phase' = phase, terminal' = terminal, usage' = usage, senders' = senders,
           NEW p \in Location, pc' = [pc EXCEPT ![t] = p],
           NEW u \in Usage, local' = [local EXCEPT ![t] = u]
    PROVE  Frame(t)
<1>1. /\ \A o \in RequestId : o # id => ledger'[o] = ledger[o]
      /\ InFlight(budget') = InFlight(budget) \ {id}
      /\ budget'.requests = budget.requests
  BY DEF Closing
<1>2. pc' \in [Task -> Location] /\ \A v \in Task : v # t => pc'[v] = pc[v]
  BY DEF StateOK
<1>3. local' \in [Task -> Usage] /\ \A v \in Task : v # t => local'[v] = local[v]
  BY DEF StateOK
<1>4. StateOK'
  BY <1>2, <1>3 DEF StateOK
<1>5. \A v \in Task : v # t => Untouched(v)
  BY <1>1, <1>2, <1>3 DEF Untouched, Ours
<1> QED BY <1>4, <1>5 DEF Frame

-----------------------------------------------------------------------------
(* Tokens.                                                                   *)

(* The tokens that records name are natural numbers.                         *)
LEMMA KnownTyped ==
    ASSUME NEW records \in [Task -> Usage]
    PROVE  Known(records) \in [RequestId -> Nat] /\ Total(Known(records)) \in Nat
<1>1. \A id \in RequestId : records[TaskOf(id)].tokens \in Nat
  BY IdParts DEF Usage
<1>2. Known(records) \in [RequestId -> Nat]
  BY <1>1 DEF Known
<1> QED BY <1>2, CoinsFinite

(* So are those of the best records.                                         *)
LEMMA BestTyped ==
    ASSUME StateOK
    PROVE  Best \in [Task -> Usage] /\ Total(Known(Best)) \in Nat
<1>1. Best \in [Task -> Usage]
  BY DEF Best, StateOK
<1> QED BY <1>1, KnownTyped

(* A spoilt ledger stays spoilt.                                             *)
LEMMA SpoiltStays ==
    ASSUME \A id \in RequestId :
                ledger[id].status \in {"reconciled", "reservation_overrun"} =>
                    ledger'[id].status = ledger[id].status,
           \A u \in Task : usage[u] = NoUsage /\ pc[u] \in {"errored", "done"} =>
                    usage'[u] = NoUsage /\ pc'[u] \in {"errored", "done"},
           Spoilt
    PROVE  Spoilt'
BY IdParts DEF Spoilt, HasOverrun, Lost

(* The records that matter stay the same.                                    *)
LEMMA KnownSame ==
    ASSUME NEW f \in [Task -> Usage], NEW g \in [Task -> Usage],
           \A u \in Task : g[u] = f[u] \/ (g[u].tokens = 0 /\ f[u].tokens = 0)
    PROVE  Total(Known(g)) = Total(Known(f))
<1>1. \A id \in RequestId : Known(g)[id] = Known(f)[id]
  <2>1. SUFFICES ASSUME NEW id \in RequestId PROVE Known(g)[id] = Known(f)[id]
    OBVIOUS
  <2>2. PICK t \in Task : t = TaskOf(id)
    BY IdParts
  <2> QED BY <2>2 DEF Known
<1> QED BY <1>1, TotalSame

(* The tokens of a new answer are added.                                     *)
LEMMA KnownAnswer ==
    ASSUME NEW f \in [Task -> Usage], NEW g \in [Task -> Usage], NEW t \in Task,
           \A u \in Task : u # t => g[u] = f[u],
           f[t].tokens = 0, g[t].attempts \in 1 .. MaxAttempts
    PROVE  Total(Known(g)) = Total(Known(f)) + g[t].tokens
<1>1. PICK id \in RequestId : /\ id = <<t, g[t].attempts>> /\ TaskOf(id) = t
                              /\ AttemptOf(id) = g[t].attempts
  BY IdMade
<1>2. Known(f) \in [RequestId -> Nat] /\ Known(g) \in [RequestId -> Nat]
  BY KnownTyped
<1>3. Known(f)[id] = 0 /\ Known(g)[id] = g[t].tokens
  BY <1>1 DEF Known
<1>4. \A o \in RequestId \ {id} : Known(g)[o] = Known(f)[o]
  <2>1. SUFFICES ASSUME NEW o \in RequestId, o # id PROVE Known(g)[o] = Known(f)[o]
    OBVIOUS
  <2>2. TaskOf(o) \in Task /\ o = <<TaskOf(o), AttemptOf(o)>>
    BY IdParts
  <2>3. CASE TaskOf(o) = t
    <3>1. AttemptOf(o) # g[t].attempts
      BY <1>1, <2>1, <2>2, <2>3
    <3> QED BY <2>3, <3>1 DEF Known
  <2>4. CASE TaskOf(o) # t
    BY <2>2, <2>4 DEF Known
  <2> QED BY <2>3, <2>4
<1> QED BY <1>2, <1>3, <1>4, TotalRaise

(* The tokens part of the invariant in a live process.                       *)
LEMMA LiveTokens ==
    ASSUME StateOK', ManagerInv', mode' = "live",
           Total(Known(Best')) <= budget'.tokenSpent,
           Spoilt' \/ budget'.tokenSpent + budget'.tokenReserved <= TokenBudget,
           (\A t \in Task : pc'[t] # "errored") =>
             /\ ~HasOverrun(ledger')
             /\ budget'.tokenSpent + budget'.tokenReserved <= TokenBudget
    PROVE  TokensInv'
<1>1. PICK g \in [Task -> Usage] : g = Best'
  BY DEF Best, StateOK
<1>2. usage' \in [Task -> Usage]
  BY DEF StateOK
<1>3. Known(usage') \in [RequestId -> Nat] /\ Known(g) \in [RequestId -> Nat]
  BY <1>2, KnownTyped
<1>4. \A id \in RequestId : Known(usage')[id] <= Known(g)[id]
  <2>1. SUFFICES ASSUME NEW id \in RequestId PROVE Known(usage')[id] <= Known(g)[id]
    OBVIOUS
  <2>2. PICK t \in Task : t = TaskOf(id)
    BY IdParts
  <2>3. Known(usage')[id] \in Nat /\ Known(g)[id] \in Nat
    BY <1>3
  <2>4. CASE usage'[t] = NoUsage
    BY <2>2, <2>3, <2>4 DEF Known, NoUsage
  <2>5. CASE usage'[t] # NoUsage
    <3>1. g[t] = usage'[t]
      BY <1>1, <2>5 DEF Best
    <3> QED BY <2>2, <2>3, <3>1 DEF Known
  <2> QED BY <2>4, <2>5
<1>5. Total(Known(usage')) <= Total(Known(g))
  BY <1>3, <1>4, TotalMonotone
<1>6. Total(Known(usage')) \in Nat /\ Total(Known(g)) \in Nat
  BY <1>3, CoinsFinite
<1>7. budget'.tokenSpent \in Nat /\ budget'.tokenReserved \in Nat /\ TokenBudget \in Nat
  <2>1. budget' \in Manager /\ budget'.tokenReserved = Total(Planned(budget'))
    BY DEF ManagerInv
  <2> QED BY <2>1, FlightTyped, CapAssumption DEF Manager
<1>8. Spoilt' \/ Total(Known(usage')) <= TokenBudget
  BY <1>1, <1>5, <1>6, <1>7
<1> QED BY <1>8 DEF TokensInv

(* A live step of one task keeps the invariant, if it keeps its parts.       *)
LEMMA Assemble ==
    ASSUME NEW t \in Task, CampaignInv, Frame(t), AccountsInv', TaskInv(t)', SentIsCharged',
           TokensInv'
    PROVE  CampaignInv'
<1>1. \A u \in Task : TaskInv(u)'
  <2>1. SUFFICES ASSUME NEW u \in Task, u # t PROVE TaskInv(u)'
    OBVIOUS
  <2>2. StateOK /\ TaskInv(u) /\ Untouched(u) /\ mode' = mode /\ run' = run
    BY <2>1 DEF CampaignInv, Frame
  <2> QED BY <2>2, OtherTask
<1> QED BY <1>1 DEF CampaignInv, Frame

(* The quiet steps.                                                          *)
LEMMA QuietKeeps ==
    ASSUME NEW t \in Task, mode = "live", CampaignInv, QuietStep(t)
    PROVE  CampaignInv'
<1>1. AccountsInv /\ StateOK /\ TaskInv(t) /\ SentIsCharged /\ TokensInv
  BY DEF CampaignInv
<1>2. Frame(t) /\ ledger' = ledger /\ budget' = budget
  BY <1>1, QuietFrame
<1>3. mode = "live" /\ mode' = "live" /\ StateOK'
  BY <1>2 DEF Frame
<1>4. AccountsInv'
  BY <1>1, <1>2, <1>3
  DEF AccountsInv, LedgerInv, ManagerInv, RolesInv, LiveInv
<1>5. TaskInv(t)'
  BY <1>1, ReadyOwn, PlanningOwn, RefusedOwn, EnterOwn, SendOwn, RetainOwn, TerminalOwn
  DEF QuietStep
<1>6. PcInv(t) /\ RecordInv(t)
  BY <1>1, <1>3, LiveTask
<1>7. SentIsCharged'
  <2>1. CASE Send(t)
    <3>1. PICK id \in RequestId : id = This(t)
      BY <1>1, <1>6, <2>1, OwnIds DEF Send, At, Waiting
    <3>2. id \in InFlight(budget)
      BY <1>6, <2>1, <3>1 DEF Send, At, PcInv, Waiting
    <3>3. ledger[id].status = "reserved"
      BY <1>1, <1>3, <3>2 DEF AccountsInv, LiveInv
    <3>4. \A o \in RequestId : o # id => senders'[o] = senders[o]
      BY <1>1, <2>1, <3>1 DEF Send, StateOK
    <3> QED BY <1>1, <1>2, <3>3, <3>4 DEF SentIsCharged, Unrecorded
  <2>2. CASE ~Send(t)
    <3>1. senders' = senders
      BY <2>2 DEF QuietStep, request_ready, PlanningFails, ReserveRefused, EnterTransport,
                  RetainUsage, RecordTerminal
    <3> QED BY <1>1, <1>2, <3>1 DEF SentIsCharged
  <2> QED BY <2>1, <2>2
<1>8. pc[t] \notin {"errored", "done"}
  BY DEF QuietStep, request_ready, PlanningFails, ReserveRefused, EnterTransport,
         Send, RetainUsage, RecordTerminal, At
<1>9. \A u \in Task : u # t => usage'[u] = usage[u] /\ pc'[u] = pc[u] /\ local'[u] = local[u]
  BY <1>2 DEF Frame, Untouched
<1>10. Spoilt => Spoilt'
  BY <1>2, <1>8, <1>9, SpoiltStays
<1>11. Total(Known(Best')) = Total(Known(Best))
  <2>1. PICK f \in [Task -> Usage] : f = Best
    BY <1>1, BestTyped
  <2>2. PICK g \in [Task -> Usage] : g = Best'
    BY <1>3 DEF Best, StateOK
  <2>3. \A u \in Task : u # t => g[u] = f[u]
    BY <1>9, <2>1, <2>2 DEF Best
  <2>4. g[t] = f[t] \/ (g[t].tokens = 0 /\ f[t].tokens = 0)
    <3>1. CASE RetainUsage(t)
      <4>1. usage[t] = NoUsage
        BY <1>6, <3>1 DEF RetainUsage, At, PcInv
      <4>2. usage'[t] = local[t] /\ local' = local
        BY <1>1, <3>1 DEF RetainUsage, StateOK
      <4> QED BY <2>1, <2>2, <4>1, <4>2 DEF Best
    <3>2. CASE EnterTransport(t)
      <4>1. usage[t] = NoUsage /\ local[t].tokens = 0
        BY <1>6, <3>2 DEF EnterTransport, At, PcInv, RecordInv, Reserving
      <4>2. usage'[t] = usage[t] /\ local'[t].tokens = local[t].tokens
        BY <1>1, <3>2 DEF EnterTransport, StateOK, Usage
      <4> QED BY <2>1, <2>2, <4>1, <4>2 DEF Best
    <3>3. CASE ~RetainUsage(t) /\ ~EnterTransport(t)
      <4>1. usage' = usage /\ local' = local
        BY <3>3 DEF QuietStep, request_ready, PlanningFails, ReserveRefused,
                    Send, RecordTerminal, journal
      <4> QED BY <2>1, <2>2, <4>1 DEF Best
    <3> QED BY <3>1, <3>2, <3>3
  <2>5. Total(Known(g)) = Total(Known(f))
    BY <2>3, <2>4, KnownSame
  <2> QED BY <2>1, <2>2, <2>5
<1>12. ASSUME \A u \in Task : pc'[u] # "errored" PROVE \A u \in Task : pc[u] # "errored"
  BY <1>8, <1>9, <1>12
<1>13. TokensInv'
  <2>1. ManagerInv'
    BY <1>4 DEF AccountsInv
  <2>2. /\ Total(Known(Best)) <= budget.tokenSpent
        /\ Spoilt \/ budget.tokenSpent + budget.tokenReserved <= TokenBudget
        /\ (\A u \in Task : pc[u] # "errored") =>
            /\ ~HasOverrun(ledger)
            /\ budget.tokenSpent + budget.tokenReserved <= TokenBudget
    BY <1>1, <1>3 DEF TokensInv
  <2>3. Total(Known(Best')) <= budget'.tokenSpent
    BY <1>2, <1>11, <2>2
  <2>4. Spoilt' \/ budget'.tokenSpent + budget'.tokenReserved <= TokenBudget
    BY <1>2, <1>10, <2>2
  <2>5. (\A u \in Task : pc'[u] # "errored") =>
            /\ ~HasOverrun(ledger')
            /\ budget'.tokenSpent + budget'.tokenReserved <= TokenBudget
    BY <1>2, <1>12, <2>2
  <2> QED BY <1>3, <2>1, <2>3, <2>4, <2>5, LiveTokens
<1> QED BY <1>2, <1>4, <1>5, <1>7, <1>13, Assemble

(* A reservation.                                                            *)
LEMMA ReserveStep ==
    ASSUME NEW t \in Task, mode = "live", CampaignInv, ReserveAttempt(t)
    PROVE  CampaignInv'
<1>1. AccountsInv /\ StateOK /\ TaskInv(t) /\ SentIsCharged /\ TokensInv
  BY DEF CampaignInv
<1>2. Frame(t) /\ TaskInv(t)'
  BY <1>1, ReserveFrame, ReserveOwn
<1>3. /\ mode = "live" /\ mode' = "live" /\ StateOK' /\ pc[t] = "reserving"
      /\ usage' = usage /\ local' = local /\ senders' = senders
      /\ pc' = [pc EXCEPT ![t] = "reserved"]
  BY <1>2 DEF Frame, ReserveAttempt, At, Goto, journal
<1>4. LedgerInv /\ ManagerInv /\ LiveInv /\ RolesInv /\ PcInv(t)
  BY <1>1, <1>3, LiveTask DEF AccountsInv
<1>5. PICK id \in RequestId : id = Following(t) /\ TaskOf(id) = t
  BY <1>1, <1>3, <1>4, OwnIds DEF Reserving
<1>6. Reserve(id)
  BY <1>5 DEF ReserveAttempt
<1>7. AccountsInv'
  BY <1>3, <1>4, <1>6, ReserveLedger, ReserveManager, ReserveLive DEF AccountsInv
<1>8. /\ \A o \in RequestId : o # id => ledger'[o] = ledger[o]
      /\ ledger'[id].status = "reserved"
      /\ id \in budget.pending \/ ledger[id] = NoEntry
  BY <1>4, <1>6, ReserveLedger
<1>9. ledger[id].status \notin {"reconciled", "reservation_overrun"}
  BY <1>4, <1>8 DEF LiveInv, NoEntry, Unrecorded
<1>10. SentIsCharged'
  BY <1>1, <1>3, <1>8 DEF SentIsCharged, Unrecorded
<1>11. \A u \in Task : usage[u] = NoUsage /\ pc[u] \in {"errored", "done"} =>
                        usage'[u] = NoUsage /\ pc'[u] \in {"errored", "done"}
  BY <1>1, <1>3 DEF StateOK
<1>12. Spoilt => Spoilt'
  BY <1>8, <1>9, <1>11, SpoiltStays
<1>13. PICK tok \in Nat : tok = TokensOf[TaskOf(id)]
  BY IdParts, Plans
<1>14. /\ budget'.tokenSpent = budget.tokenSpent
       /\ budget'.tokenReserved = budget.tokenReserved + tok
       /\ budget.tokenSpent \in Nat /\ budget.tokenReserved \in Int
  BY <1>4, <1>6, <1>13, ReserveEffect DEF ManagerInv, Manager
<1>15. tok <= TokenBudget - budget.tokenSpent - budget.tokenReserved
  BY <1>6, <1>13 DEF Reserve, Affordable, ScopedCapacity
<1>16. budget'.tokenSpent + budget'.tokenReserved <= TokenBudget
  BY <1>14, <1>15, CapAssumption
<1>17. Total(Known(Best')) <= budget'.tokenSpent
  <2>1. Best' = Best
    BY <1>3 DEF Best
  <2> QED BY <1>1, <1>3, <1>14, <2>1 DEF TokensInv
<1>18. (\A u \in Task : pc'[u] # "errored") => ~HasOverrun(ledger')
  <2>1. (\A u \in Task : pc'[u] # "errored") => (\A u \in Task : pc[u] # "errored")
    BY <1>1, <1>3 DEF StateOK
  <2>2. ~HasOverrun(ledger) => ~HasOverrun(ledger')
    BY <1>8 DEF HasOverrun
  <2> QED BY <1>1, <1>3, <2>1, <2>2 DEF TokensInv
<1>19. ManagerInv'
  BY <1>7 DEF AccountsInv
<1>20. TokensInv'
  BY <1>3, <1>16, <1>17, <1>18, <1>19, LiveTokens
<1> QED BY <1>2, <1>7, <1>10, <1>20, Assemble

(* A reservation that is given back.                                         *)
LEMMA ReleaseStep ==
    ASSUME NEW t \in Task, mode = "live", CampaignInv, PreTransportFails(t) \/ DispatchFails(t)
    PROVE  CampaignInv'
<1>1. AccountsInv /\ StateOK /\ TaskInv(t) /\ SentIsCharged /\ TokensInv
  BY DEF CampaignInv
<1>2. /\ mode = "live" /\ mode' = "live" /\ run' = run /\ pc[t] = "reserved"
      /\ phase' = phase /\ terminal' = terminal /\ usage' = usage /\ senders' = senders
      /\ Release(Following(t))
  BY DEF PreTransportFails, DispatchFails, At, journal
<1>3. LedgerInv /\ ManagerInv /\ LiveInv /\ RolesInv /\ PcInv(t) /\ RecordInv(t)
  BY <1>1, <1>2, LiveTask DEF AccountsInv
<1>4. PICK id \in RequestId : /\ id = Following(t) /\ TaskOf(id) = t
                              /\ AttemptOf(id) = local[t].attempts + 1
                              /\ local[t] \in Usage /\ local[t].attempts \in Nat
  BY <1>1, <1>2, <1>3, OwnIds DEF Reserving
<1>5. /\ Closing(id, 0) /\ ledger'[id].status = "released"
      /\ budget'.tokenSpent = budget.tokenSpent
  BY <1>2, <1>3, <1>4, ReleaseCloses
<1>6. PICK p \in {"failed", "errored"} : pc' = [pc EXCEPT ![t] = p]
  BY DEF PreTransportFails, DispatchFails, Goto
<1>7. PICK u \in Usage : /\ local' = [local EXCEPT ![t] = u]
                         /\ u.tokens = local[t].tokens
  <2>1. CASE PreTransportFails(t)
    <3>1. local' = [local EXCEPT ![t] = local[t]]
      BY <1>1, <2>1 DEF PreTransportFails, StateOK
    <3> QED BY <1>4, <3>1
  <2>2. CASE DispatchFails(t)
    <3>1. PICK u : u = [local[t] EXCEPT !.attempts = 1]
      OBVIOUS
    <3>2. 1 \in 0 .. MaxAttempts
      BY AttemptAssumption
    <3>3. u \in Usage /\ u.tokens = local[t].tokens
      BY <1>4, <3>1, <3>2 DEF Usage
    <3>4. local' = [local EXCEPT ![t] = u]
      BY <1>1, <2>2, <3>1 DEF DispatchFails, StateOK
    <3> QED BY <3>3, <3>4
  <2> QED BY <2>1, <2>2
<1>8. p \in Location
  BY <1>6 DEF Location
<1>9. Frame(t)
  BY <1>1, <1>2, <1>4, <1>5, <1>6, <1>7, <1>8, ClosingFrame
<1>10. TaskInv(t)' /\ StateOK'
  BY <1>1, <1>9, PreTransportOwn, DispatchOwn DEF Frame
<1>11. AccountsInv'
  <2>1. 0 \in Nat
    OBVIOUS
  <2> QED BY <1>2, <1>3, <1>5, <2>1, ClosingKeeps DEF AccountsInv
<1>12. /\ \A o \in RequestId : o # id => ledger'[o] = ledger[o]
       /\ ledger[id].status = "reserved"
       /\ budget'.tokenReserved = budget.tokenReserved - TokensOf[t]
  BY <1>4, <1>5 DEF Closing
<1>13. SentIsCharged'
  <2>1. senders[id] = {}
    <3>1. id \in Ours(t) /\ AttemptOf(id) > local[t].attempts
      BY <1>4 DEF Ours
    <3> QED BY <1>2, <1>3, <3>1 DEF PcInv, Reserving
  <2> QED BY <1>1, <1>2, <1>12, <2>1 DEF SentIsCharged
<1>14. \A v \in Task : usage[v] = NoUsage /\ pc[v] \in {"errored", "done"} =>
                        usage'[v] = NoUsage /\ pc'[v] \in {"errored", "done"}
  BY <1>1, <1>2, <1>6 DEF StateOK
<1>15. Spoilt => Spoilt'
  BY <1>12, <1>14, SpoiltStays
<1>16. Total(Known(Best')) = Total(Known(Best))
  <2>1. PICK f \in [Task -> Usage] : f = Best
    BY <1>1, BestTyped
  <2>2. PICK g \in [Task -> Usage] : g = Best'
    BY <1>10 DEF Best, StateOK
  <2>3. usage[t] = NoUsage /\ local[t].tokens = 0
    BY <1>2, <1>3 DEF PcInv, RecordInv, Reserving
  <2>4. local'[t] = u /\ \A v \in Task : v # t => local'[v] = local[v]
    BY <1>1, <1>7 DEF StateOK
  <2>5. g[t].tokens = 0 /\ f[t].tokens = 0
    BY <1>2, <1>7, <2>1, <2>2, <2>3, <2>4 DEF Best
  <2>6. \A v \in Task : v # t => g[v] = f[v]
    BY <1>2, <2>1, <2>2, <2>4 DEF Best
  <2>7. Total(Known(g)) = Total(Known(f))
    BY <2>5, <2>6, KnownSame
  <2> QED BY <2>1, <2>2, <2>7
<1>17. /\ budget.tokenSpent \in Nat /\ budget.tokenReserved \in Int /\ TokensOf[t] \in Nat
       /\ TokenBudget \in Nat
  BY <1>3, Plans, CapAssumption DEF ManagerInv, Manager
<1>18. budget'.tokenSpent + budget'.tokenReserved <= budget.tokenSpent + budget.tokenReserved
  BY <1>5, <1>12, <1>17
<1>19. budget'.tokenSpent + budget'.tokenReserved \in Int
  BY <1>5, <1>12, <1>17
<1>20. /\ Total(Known(Best)) <= budget.tokenSpent
       /\ Spoilt \/ budget.tokenSpent + budget.tokenReserved <= TokenBudget
       /\ (\A v \in Task : pc[v] # "errored") =>
            /\ ~HasOverrun(ledger)
            /\ budget.tokenSpent + budget.tokenReserved <= TokenBudget
  BY <1>1, <1>2 DEF TokensInv
<1>21. (\A v \in Task : pc'[v] # "errored") => (\A v \in Task : pc[v] # "errored")
  BY <1>1, <1>2, <1>6 DEF StateOK
<1>22. ~HasOverrun(ledger) => ~HasOverrun(ledger')
  BY <1>5, <1>12 DEF HasOverrun
<1>23. Total(Known(Best')) <= budget'.tokenSpent
  BY <1>5, <1>16, <1>20
<1>24. Spoilt' \/ budget'.tokenSpent + budget'.tokenReserved <= TokenBudget
  BY <1>15, <1>17, <1>18, <1>19, <1>20
<1>25. (\A v \in Task : pc'[v] # "errored") =>
            /\ ~HasOverrun(ledger')
            /\ budget'.tokenSpent + budget'.tokenReserved <= TokenBudget
  BY <1>17, <1>18, <1>19, <1>20, <1>21, <1>22
<1>26. TokensInv'
  BY <1>2, <1>10, <1>11, <1>23, <1>24, <1>25, LiveTokens DEF AccountsInv
<1> QED BY <1>9, <1>10, <1>11, <1>13, <1>26, Assemble

(* The outcome of an attempt that was sent.                                  *)
LEMMA AnsweredStep ==
    ASSUME NEW t \in Task, CampaignInv,
           NEW actual \in Nat \cup {Unknown}, NEW tokens \in Nat,
           Answered(t, actual, tokens),
           terminal' = terminal,
           pc' = [pc EXCEPT ![t] = pc'[t]], local' = [local EXCEPT ![t] = local'[t]],
           local'[t].tokens <= tokens,
           pc'[t] = "errored" => actual # Unknown,
           pc'[t] # "errored" =>
             /\ tokens <= TokensOf[t]
             /\ actual = Unknown \/ actual <= CostOf[t]
    PROVE  CampaignInv'
<1>1. AccountsInv /\ StateOK /\ TaskInv(t) /\ SentIsCharged /\ TokensInv
  BY DEF CampaignInv
<1>2. /\ mode = "live" /\ mode' = "live" /\ run' = run /\ pc[t] = "waiting"
      /\ phase' = phase /\ usage' = usage /\ senders' = senders
      /\ Reconcile(This(t), actual, tokens) /\ local'[t] \in Usage
      /\ pc'[t] \in {"errored", "completed", "failed", "reserving"}
      /\ local'[t].attempts = local[t].attempts
  BY DEF Answered
<1>3. LedgerInv /\ ManagerInv /\ LiveInv /\ RolesInv /\ PcInv(t) /\ RecordInv(t)
  BY <1>1, <1>2, LiveTask DEF AccountsInv
<1>4. PICK id \in RequestId : /\ id = This(t) /\ TaskOf(id) = t
                              /\ local[t].attempts \in Nat
                              /\ local[t].attempts <= MaxAttempts
  BY <1>1, <1>2, <1>3, OwnIds DEF Waiting
<1>5. PICK cost \in Nat : cost = AccountedCost(CostOf[t], actual)
  BY Plans DEF AccountedCost
<1>6. /\ Closing(id, cost)
      /\ ledger'[id].status = ReconciledStatus(CostOf[t], actual)
      /\ budget'.tokenSpent = budget.tokenSpent + tokens
  BY <1>2, <1>3, <1>4, <1>5, ReconcileCloses
<1>7. PICK p \in Location : p = pc'[t]
  BY <1>2 DEF Location
<1>8. PICK u \in Usage : u = local'[t]
  BY <1>2
<1>9. pc' = [pc EXCEPT ![t] = p] /\ local' = [local EXCEPT ![t] = u]
  BY <1>7, <1>8
<1>10. Frame(t)
  BY <1>1, <1>2, <1>4, <1>6, <1>9, ClosingFrame
<1>11. TaskInv(t)' /\ StateOK'
  BY <1>1, <1>10, AnsweredOwn DEF Frame
<1>12. AccountsInv'
  BY <1>2, <1>3, <1>6, ClosingKeeps DEF AccountsInv
<1>13. /\ \A o \in RequestId : o # id => ledger'[o] = ledger[o]
       /\ ledger[id].status = "reserved"
       /\ budget'.tokenReserved = budget.tokenReserved - TokensOf[t]
  BY <1>4, <1>6 DEF Closing
<1>14. /\ ledger'[id].status \in {"uncertain_accounted", "reconciled", "reservation_overrun"}
       /\ actual # Unknown => ledger'[id].status \in {"reconciled", "reservation_overrun"}
       /\ actual = Unknown \/ actual <= CostOf[t] =>
            ledger'[id].status # "reservation_overrun"
  BY <1>6, Plans DEF ReconciledStatus, Unknown
<1>15. SentIsCharged'
  BY <1>1, <1>2, <1>13, <1>14 DEF SentIsCharged, Unrecorded
<1>16. \A v \in Task : v # t => pc'[v] = pc[v] /\ local'[v] = local[v]
  BY <1>1, <1>9 DEF StateOK
<1>17. \A v \in Task : usage[v] = NoUsage /\ pc[v] \in {"errored", "done"} =>
                        usage'[v] = NoUsage /\ pc'[v] \in {"errored", "done"}
  BY <1>2, <1>16
<1>18. Spoilt => Spoilt'
  BY <1>13, <1>17, SpoiltStays
<1>19. usage[t] = NoUsage /\ local[t].tokens = 0 /\ local[t].attempts > 0
  BY <1>2, <1>3 DEF PcInv, RecordInv, Waiting
<1>20. Total(Known(Best')) = Total(Known(Best)) + u.tokens
  <2>1. PICK f \in [Task -> Usage] : f = Best
    BY <1>1, BestTyped
  <2>2. PICK g \in [Task -> Usage] : g = Best'
    BY <1>11 DEF Best, StateOK
  <2>3. g[t] = u /\ f[t] = local[t]
    BY <1>2, <1>8, <1>19, <2>1, <2>2 DEF Best
  <2>4. \A v \in Task : v # t => g[v] = f[v]
    BY <1>2, <1>16, <2>1, <2>2 DEF Best
  <2>5. g[t].attempts \in 1 .. MaxAttempts /\ f[t].tokens = 0
    BY <1>2, <1>4, <1>8, <1>19, <2>3, AttemptAssumption
  <2>6. Total(Known(g)) = Total(Known(f)) + g[t].tokens
    BY <2>4, <2>5, KnownAnswer
  <2> QED BY <2>1, <2>2, <2>3, <2>6
<1>21. /\ budget.tokenSpent \in Nat /\ budget.tokenReserved \in Int /\ TokensOf[t] \in Nat
       /\ TokenBudget \in Nat /\ u.tokens \in Nat /\ Total(Known(Best)) \in Nat
       /\ u.tokens <= tokens
  BY <1>1, <1>3, <1>8, Plans, CapAssumption, BestTyped DEF ManagerInv, Manager, Usage
<1>22. /\ Total(Known(Best)) <= budget.tokenSpent
       /\ Spoilt \/ budget.tokenSpent + budget.tokenReserved <= TokenBudget
       /\ (\A v \in Task : pc[v] # "errored") =>
            /\ ~HasOverrun(ledger)
            /\ budget.tokenSpent + budget.tokenReserved <= TokenBudget
  BY <1>1, <1>2 DEF TokensInv
<1>23. Total(Known(Best')) <= budget'.tokenSpent
  BY <1>6, <1>20, <1>21, <1>22
<1>24. budget'.tokenSpent + budget'.tokenReserved \in Int
  BY <1>6, <1>13, <1>21
<1>25. pc'[t] # "errored" =>
        budget'.tokenSpent + budget'.tokenReserved <= budget.tokenSpent + budget.tokenReserved
  BY <1>6, <1>13, <1>21
<1>26. Spoilt' \/ budget'.tokenSpent + budget'.tokenReserved <= TokenBudget
  <2>1. CASE pc'[t] = "errored"
    <3>1. ledger'[id].status \in {"reconciled", "reservation_overrun"}
      BY <1>14, <2>1
    <3>2. usage'[t] = NoUsage
      BY <1>2, <1>19
    <3> QED BY <1>4, <2>1, <3>1, <3>2 DEF Spoilt, HasOverrun, Lost
  <2>2. CASE pc'[t] # "errored"
    BY <1>18, <1>21, <1>22, <1>24, <1>25, <2>2
  <2> QED BY <2>1, <2>2
<1>27. (\A v \in Task : pc'[v] # "errored") =>
            /\ ~HasOverrun(ledger')
            /\ budget'.tokenSpent + budget'.tokenReserved <= TokenBudget
  <2>1. SUFFICES ASSUME \A v \in Task : pc'[v] # "errored"
                 PROVE  /\ ~HasOverrun(ledger')
                        /\ budget'.tokenSpent + budget'.tokenReserved <= TokenBudget
    OBVIOUS
  <2>2. \A v \in Task : pc[v] # "errored"
    BY <1>2, <1>16, <2>1
  <2>3. ~HasOverrun(ledger')
    BY <1>13, <1>14, <1>22, <2>1, <2>2 DEF HasOverrun
  <2> QED BY <1>21, <1>22, <1>24, <1>25, <2>1, <2>2, <2>3
<1>28. TokensInv'
  BY <1>2, <1>11, <1>12, <1>23, <1>26, <1>27, LiveTokens DEF AccountsInv
<1> QED BY <1>10, <1>11, <1>12, <1>15, <1>28, Assemble

-----------------------------------------------------------------------------
(* The end of a process and the next one.                                    *)

(* A process dies, whatever the reason.                                      *)
LEMMA DownStep ==
    ASSUME CampaignInv, mode' = "down",
           UNCHANGED <<ledger, budget, journal, pc, local, senders, run>>
    PROVE  CampaignInv'
<1>1. /\ ledger' = ledger /\ budget' = budget /\ phase' = phase /\ terminal' = terminal
      /\ usage' = usage /\ pc' = pc /\ local' = local /\ senders' = senders /\ run' = run
  BY DEF journal
<1>2. AccountsInv'
  BY <1>1 DEF CampaignInv, AccountsInv, LedgerInv, ManagerInv, RolesInv
<1>3. StateOK'
  BY <1>1 DEF CampaignInv, StateOK
<1>4. \A t \in Task : TaskInv(t)'
  <2>1. SUFFICES ASSUME NEW t \in Task PROVE TaskInv(t)'
    OBVIOUS
  <2>2. JournalInv(t) /\ SendersInv(t) /\ Joined(ledger, usage[t], t)
    BY DEF CampaignInv, TaskInv
  <2>3. JournalInv(t)'
    BY <1>1, <2>2 DEF JournalInv
  <2>4. SendersInv(t)'
    BY <1>1, <2>2 DEF SendersInv
  <2> QED BY <1>1, <2>2, <2>3, <2>4 DEF TaskInv
<1>5. SentIsCharged'
  BY <1>1 DEF CampaignInv, SentIsCharged
<1>6. TokensInv'
  <2>1. Spoilt \/ Total(Known(usage)) <= TokenBudget
    BY DEF CampaignInv, TokensInv
  <2>2. Spoilt => Spoilt'
    BY <1>1, SpoiltStays
  <2> QED BY <1>1, <2>1, <2>2 DEF TokensInv
<1> QED BY <1>2, <1>3, <1>4, <1>5, <1>6 DEF CampaignInv

(* A new process finds the journal and the ledger of the old one.            *)
LEMMA ResumeStep ==
    ASSUME CampaignInv, Resume
    PROVE  CampaignInv'
<1>1. /\ LedgerInv /\ RolesInv /\ StateOK /\ SentIsCharged /\ TokensInv
      /\ \A t \in Task : JournalInv(t) /\ SendersInv(t) /\ Joined(ledger, usage[t], t)
  BY DEF CampaignInv, AccountsInv, TaskInv
<1>2. /\ mode' = "recovering" /\ run' = run + 1 /\ run < MaxRuns /\ ~HasOverrun(ledger)
      /\ ledger' = ledger /\ usage' = usage /\ senders' = senders
      /\ budget' = NewManager(ledger)
  BY DEF Resume
<1>3. \A t \in Task :
        /\ phase'[t] = IF phase[t] = "DISPATCHED" THEN "TERMINAL" ELSE phase[t]
        /\ pc'[t] = IF phase[t] \in {"DISPATCHED", "TERMINAL"} THEN "done" ELSE "idle"
        /\ local'[t] = NoUsage
        /\ phase[t] \in Phase
  BY <1>1 DEF Resume, StateOK
<1>4. StateOK'
  <2>1. run' \in 1 .. MaxRuns
    BY <1>1, <1>2, RunsAssumption DEF StateOK
  <2>2. NoUsage \in Usage
    BY AttemptAssumption DEF NoUsage, Usage, Unknown
  <2>3. phase' \in [Task -> Phase] /\ terminal' \in [Task -> Terminals \cup {"none"}]
    BY <1>1 DEF Resume, StateOK, Phase, Terminals
  <2>4. pc' \in [Task -> Location] /\ local' \in [Task -> Usage]
    BY <2>2 DEF Resume, Location
  <2> QED BY <1>1, <1>2, <2>1, <2>3, <2>4 DEF StateOK
<1>5. /\ ManagerInv'
      /\ InFlight(budget') = {} /\ budget'.issued = {} /\ budget'.pending = {}
      /\ budget'.recovery = (Recorded(ledger) # {})
  BY <1>1, <1>2, NewManagerKeeps DEF LedgerInv
<1>6. AccountsInv'
  BY <1>1, <1>2, <1>5 DEF AccountsInv, LedgerInv, RolesInv
<1>7. RecoveringInv'
  <2>1. \A t \in Task : /\ pc'[t] = IF phase'[t] \in Fresh THEN "idle" ELSE "done"
                        /\ phase'[t] # "DISPATCHED"
                        /\ local'[t] = NoUsage
    BY <1>3 DEF Fresh, Phase
  <2>2. budget'.recovery <=> Recorded(ledger') # {}
    BY <1>2, <1>5
  <2> QED BY <1>2, <1>5, <2>1, <2>2 DEF RecoveringInv
<1>8. \A t \in Task : TaskInv(t)'
  <2>1. SUFFICES ASSUME NEW t \in Task PROVE TaskInv(t)'
    OBVIOUS
  <2>2. phase'[t] \in Fresh <=> phase[t] \in Fresh
    BY <1>3 DEF Fresh
  <2>3. phase'[t] = "PLANNED" <=> phase[t] = "PLANNED"
    BY <1>3
  <2>4. JournalInv(t)'
    BY <1>1, <1>2, <2>2, <2>3 DEF JournalInv
  <2>5. pc'[t] \in {"idle", "done"}
    BY <1>3
  <2>6. pc'[t] = "idle" => phase[t] \in Fresh
    BY <1>3 DEF Fresh, Phase
  <2>7. SendersInv(t)'
    <3>1. pc'[t] # "done" => \A id \in Ours(t) : senders'[id] \subseteq {run'}
      BY <1>1, <1>2, <2>5, <2>6 DEF JournalInv
    <3> QED BY <1>1, <1>2, <3>1 DEF SendersInv
  <2>8. PcInv(t)'
    <3>1. pc'[t] = "idle" => phase'[t] \in Fresh /\ local'[t] = NoUsage
      BY <1>3, <2>2, <2>6
    <3>2. pc'[t] = "done" => phase'[t] = "TERMINAL"
      BY <1>3 DEF Phase
    <3>3. pc'[t] # "done" => usage'[t] = NoUsage
      BY <1>1, <1>2, <2>5, <2>6 DEF JournalInv
    <3> QED BY <2>5, <3>1, <3>2, <3>3 DEF PcInv, Reserving, Waiting
  <2> QED BY <1>1, <1>2, <2>4, <2>7, <2>8 DEF TaskInv
<1>9. SentIsCharged'
  BY <1>1, <1>2 DEF SentIsCharged
<1>10. TokensInv'
  <2>1. ASSUME Spoilt PROVE Spoilt'
    <3>1. PICK id \in RequestId : Lost(id)
      BY <1>2, <2>1 DEF Spoilt
    <3>2. PICK t \in Task : t = TaskOf(id)
      BY IdParts
    <3>3. id \in Ours(t) /\ ledger[id].status = "reconciled" /\ usage[t] = NoUsage
      BY <3>1, <3>2 DEF Ours, Lost
    <3>4. phase[t] \notin Fresh
      BY <1>1, <3>3 DEF JournalInv, Unrecorded
    <3>5. pc'[t] = "done"
      BY <1>3, <3>4 DEF Fresh, Phase
    <3>6. Lost(id)'
      BY <1>2, <3>2, <3>3, <3>5 DEF Lost
    <3> QED BY <3>6 DEF Spoilt
  <2>2. Spoilt' \/ Total(Known(usage')) <= TokenBudget
    BY <1>1, <1>2, <2>1 DEF TokensInv
  <2> QED BY <1>2, <2>2 DEF TokensInv
<1> QED BY <1>2, <1>4, <1>6, <1>7, <1>8, <1>9, <1>10 DEF CampaignInv

(* A reservation of a dispatched task is concluded by the recovery.          *)
LEMMA SettleStep ==
    ASSUME NEW id \in RequestId, CampaignInv, SettleUncertain(id)
    PROVE  CampaignInv'
<1>1. /\ LedgerInv /\ ManagerInv /\ RolesInv /\ StateOK /\ SentIsCharged /\ TokensInv
      /\ \A t \in Task : TaskInv(t)
  BY DEF CampaignInv, AccountsInv
<1>2. /\ mode = "recovering" /\ mode' = "recovering" /\ run' = run /\ budget' = budget
      /\ phase' = phase /\ terminal' = terminal /\ usage' = usage
      /\ pc' = pc /\ local' = local /\ senders' = senders
  BY DEF SettleUncertain, journal
<1>3. RecoveringInv
  BY <1>2 DEF CampaignInv
<1>4. /\ LedgerInv' /\ RolesInv'
      /\ \A o \in RequestId : o # id => ledger'[o] = ledger[o]
      /\ ledger[id].status = "reserved" /\ phase[TaskOf(id)] # "ACTIVATED"
      /\ ledger'[id].status = "uncertain_accounted"
  BY <1>1, SettleKeeps
<1>5. AccountsInv'
  BY <1>1, <1>2, <1>4 DEF AccountsInv, ManagerInv
<1>6. StateOK'
  BY <1>1, <1>2 DEF StateOK
<1>7. RecoveringInv'
  <2>1. Recorded(ledger') = Recorded(ledger)
    BY <1>4 DEF Recorded, Unrecorded
  <2>2. ~HasOverrun(ledger')
    BY <1>3, <1>4 DEF RecoveringInv, HasOverrun
  <2> QED BY <1>2, <1>3, <2>1, <2>2 DEF RecoveringInv
<1>8. \A t \in Task : TaskInv(t)'
  <2>1. SUFFICES ASSUME NEW t \in Task PROVE TaskInv(t)'
    OBVIOUS
  <2>2. /\ JournalInv(t) /\ SendersInv(t) /\ PcInv(t) /\ Joined(ledger, usage[t], t)
        /\ usage[t] \in Usage
    BY <1>1, <1>2 DEF TaskInv, StateOK
  <2>3. JournalInv(t)'
    <3>1. CASE TaskOf(id) = t
      <4>1. id \in Ours(t)
        BY <3>1 DEF Ours
      <4>2. phase[t] \notin Fresh
        BY <1>4, <2>2, <3>1, <4>1 DEF JournalInv, Fresh, Unrecorded
      <4> QED BY <1>2, <2>2, <4>2 DEF JournalInv, Fresh
    <3>2. CASE TaskOf(id) # t
      <4>1. \A o \in Ours(t) : ledger'[o] = ledger[o]
        BY <1>4, <3>2 DEF Ours
      <4> QED BY <1>2, <2>2, <4>1 DEF JournalInv
    <3> QED BY <3>1, <3>2
  <2>4. SendersInv(t)'
    BY <1>2, <2>2 DEF SendersInv
  <2>5. PcInv(t)'
    BY <1>2, <2>2 DEF PcInv, Following, This
  <2>6. Joined(ledger', usage[t], t)
    <3>1. CASE usage[t].attempts > 0
      <4>1. \A o \in Ours(t) : AttemptOf(o) <= usage[t].attempts => o # id
        BY <1>4, <2>2, <3>1 DEF Joined
      <4>2. \A o \in Ours(t) : AttemptOf(o) <= usage[t].attempts => ledger[o] = ledger'[o]
        BY <1>4, <4>1 DEF Ours
      <4> QED BY <2>2, <4>2, JoinedSame
    <3>2. CASE ~(usage[t].attempts > 0)
      BY <3>2 DEF Joined
    <3> QED BY <3>1, <3>2
  <2> QED BY <1>2, <2>3, <2>4, <2>5, <2>6 DEF TaskInv
<1>9. SentIsCharged'
  BY <1>1, <1>2, <1>4 DEF SentIsCharged, Unrecorded
<1>10. TokensInv'
  <2>1. Spoilt => Spoilt'
    BY <1>2, <1>4, SpoiltStays
  <2> QED BY <1>1, <1>2, <2>1 DEF TokensInv
<1> QED BY <1>2, <1>5, <1>6, <1>7, <1>8, <1>9, <1>10 DEF CampaignInv

(* When nothing is uncertain, the recovery counts at least the known tokens. *)
LEMMA KnownRecovered ==
    ASSUME StateOK
    PROVE  Total(Known(usage)) <= Total(RecoveredTokens(usage))
<1>1. PICK f \in [RequestId -> Nat] : f = Known(usage)
  BY KnownTyped DEF StateOK
<1>2. PICK g \in [RequestId -> Nat] : g = RecoveredTokens(usage)
  BY RecoveredTyped DEF StateOK
<1>3. \A id \in RequestId : f[id] <= g[id]
  <2>1. SUFFICES ASSUME NEW id \in RequestId, f[id] # 0 PROVE f[id] = g[id]
    OBVIOUS
  <2>2. PICK u \in Usage : u = usage[TaskOf(id)]
    BY IdParts DEF StateOK
  <2>3. AttemptOf(id) = u.attempts /\ f[id] = u.tokens
    BY <1>1, <2>1, <2>2 DEF Known
  <2>4. u.tokens \in Nat /\ u.tokens > 0 /\ u.attempts \in Nat
    BY <2>1, <2>2, <2>3 DEF Usage
  <2>5. g[id] = CASE AttemptOf(id) > u.attempts -> 0
                  [] AttemptOf(id) = u.attempts /\ (u.creditable \/ u.tokens > 0) -> u.tokens
                  [] OTHER -> TokensOf[TaskOf(id)]
    BY <1>2, <2>2 DEF RecoveredTokens
  <2> QED BY <2>3, <2>4, <2>5
<1> QED BY <1>1, <1>2, <1>3, TotalMonotone

(* The recovery restores the counters and the process goes on.               *)
LEMMA RestoreStep ==
    ASSUME CampaignInv, RestoreBudget
    PROVE  CampaignInv'
<1>1. /\ LedgerInv /\ ManagerInv /\ RolesInv /\ StateOK /\ SentIsCharged /\ TokensInv
      /\ \A t \in Task : TaskInv(t)
  BY DEF CampaignInv, AccountsInv
<1>2. /\ mode = "recovering" /\ mode' = "live" /\ run' = run
      /\ phase' = phase /\ terminal' = terminal /\ usage' = usage
      /\ pc' = pc /\ local' = local /\ senders' = senders
  BY DEF RestoreBudget, journal
<1>3. RecoveringInv /\ \A t \in Task : JournalInv(t)
  BY <1>1, <1>2 DEF CampaignInv, TaskInv
<1>4. /\ ManagerInv' /\ LiveInv' /\ ledger' = ledger
      /\ budget'.tokenReserved = 0
      /\ budget'.tokenSpent = TokensAfterRecovery(usage, Settled)
      /\ Recorded(ledger) = Covered(usage) \cup Adopted \cup Settled
  BY <1>1, <1>3, RestoreKeeps
<1>5. AccountsInv'
  BY <1>1, <1>4 DEF AccountsInv, LedgerInv, RolesInv
<1>6. StateOK'
  BY <1>1, <1>2 DEF StateOK
<1>7. \A t \in Task : pc[t] \in {"idle", "done"}
  BY <1>3 DEF RecoveringInv
<1>8. \A t \in Task : TaskInv(t)'
  <2>1. SUFFICES ASSUME NEW t \in Task PROVE TaskInv(t)'
    OBVIOUS
  <2>2. JournalInv(t) /\ SendersInv(t) /\ PcInv(t) /\ Joined(ledger, usage[t], t)
    BY <1>1, <1>2 DEF TaskInv
  <2>3. JournalInv(t)'
    BY <1>2, <1>4, <2>2 DEF JournalInv
  <2>4. SendersInv(t)'
    BY <1>2, <2>2 DEF SendersInv
  <2>5. PcInv(t)'
    BY <1>2, <1>7, <2>2 DEF PcInv, Reserving, Waiting
  <2>6. RecordInv(t)'
    BY <1>2, <1>7 DEF RecordInv, Reserving, Waiting
  <2> QED BY <1>2, <1>4, <2>2, <2>3, <2>4, <2>5, <2>6 DEF TaskInv
<1>9. SentIsCharged'
  BY <1>1, <1>2, <1>4 DEF SentIsCharged
<1>10. ~Spoilt
  <2>1. SUFFICES ASSUME NEW id \in RequestId, Lost(id) PROVE FALSE
    BY <1>3 DEF RecoveringInv, Spoilt
  <2>2. PICK t \in Task : t = TaskOf(id)
    BY IdParts
  <2>3. ledger[id].status = "reconciled" /\ usage[t] = NoUsage
    BY <2>1, <2>2 DEF Lost
  <2>4. id \in Recorded(ledger)
    BY <2>3 DEF Recorded, Unrecorded
  <2>5. id \notin Adopted /\ id \notin Settled
    BY <2>3 DEF Adopted, Settled
  <2>6. id \in Covered(usage)
    BY <1>4, <2>4, <2>5
  <2>7. AttemptOf(id) <= 0
    BY <2>2, <2>3, <2>6 DEF Covered, NoUsage
  <2> QED BY <2>7, IdParts
<1>11. Total(Known(usage)) <= TokenBudget
  BY <1>1, <1>10 DEF TokensInv
<1>12. TokensAfterRecovery(usage, Settled) <= TokenBudget
  BY DEF RestoreBudget, Restore, Restorable
<1>13. Total(Known(usage)) <= budget'.tokenSpent
  <2>1. CASE Settled = {}
    BY <1>1, <1>4, <2>1, KnownRecovered DEF TokensAfterRecovery
  <2>2. CASE Settled # {}
    BY <1>4, <1>11, <2>2 DEF TokensAfterRecovery
  <2> QED BY <2>1, <2>2
<1>14. Total(Known(Best')) <= budget'.tokenSpent
  <2>1. PICK g \in [Task -> Usage] : g = Best'
    BY <1>6 DEF Best, StateOK
  <2>2. \A t \in Task : g[t] = usage[t]
    BY <1>2, <1>3, <2>1 DEF Best, RecoveringInv
  <2>3. Total(Known(g)) = Total(Known(usage))
    BY <1>1, <2>2, KnownSame DEF StateOK
  <2> QED BY <1>13, <2>1, <2>3
<1>15. budget'.tokenSpent + budget'.tokenReserved <= TokenBudget
  <2>1. budget'.tokenSpent \in Nat
    BY <1>4 DEF ManagerInv, Manager
  <2> QED BY <1>4, <1>12, <2>1
<1>16. ~HasOverrun(ledger')
  BY <1>3, <1>4 DEF RecoveringInv
<1>17. TokensInv'
  BY <1>2, <1>4, <1>6, <1>14, <1>15, <1>16, LiveTokens
<1> QED BY <1>2, <1>5, <1>6, <1>8, <1>9, <1>17 DEF CampaignInv

-----------------------------------------------------------------------------
(* The invariant.                                                            *)

(* An empty ledger holds nothing.                                            *)
LEMMA NothingHeld ==
    ASSUME NEW pend, NEW r
    PROVE  /\ NoEntries \in [RequestId -> Entry]
           /\ Total(AccountedOf(NoEntries)) = 0
           /\ Total(Free(NoEntries, pend)) = 0
           /\ Total(FreeOf(NoEntries, pend, r)) = 0
           /\ Total(HeldOf(NoEntries, r)) = 0
<1>1. NoEntries \in [RequestId -> Entry]
  BY DEF NoEntries, NoEntry, Entry, Unknown, Unrecorded, NoReason
<1>2. \A id \in RequestId : NoEntries[id].accounted = 0 /\ Hold(NoEntries[id]) = 0
  BY DEF NoEntries, NoEntry, Hold, Unrecorded
<1>3. /\ AccountedOf(NoEntries) \in [RequestId -> Nat]
      /\ Free(NoEntries, pend) \in [RequestId -> Nat]
      /\ FreeOf(NoEntries, pend, r) \in [RequestId -> Nat]
      /\ HeldOf(NoEntries, r) \in [RequestId -> Nat]
  BY <1>1, TermsTyped
<1>4. /\ \A id \in RequestId : AccountedOf(NoEntries)[id] = 0
      /\ \A id \in RequestId : Free(NoEntries, pend)[id] = 0
      /\ \A id \in RequestId : FreeOf(NoEntries, pend, r)[id] = 0
      /\ \A id \in RequestId : HeldOf(NoEntries, r)[id] = 0
  BY <1>2 DEF AccountedOf, Free, FreeOf, HeldOf
<1> QED BY <1>1, <1>3, <1>4, TotalZero

(* The first process satisfies the invariant.                                *)
LEMMA CampaignInit ==
    ASSUME Init
    PROVE  CampaignInv
<1>1. /\ ledger = NoEntries /\ budget = NewManager(NoEntries) /\ mode = "live" /\ run = 1
      /\ \A id \in RequestId : ledger[id] = NoEntry /\ senders[id] = {}
      /\ \A t \in Task : /\ phase[t] = "PLANNED" /\ usage[t] = NoUsage
                         /\ pc[t] = "idle" /\ local[t] = NoUsage
  BY DEF Init, NoEntries
<1>2. NoUsage \in Usage /\ NoUsage.attempts = 0 /\ NoUsage.tokens = 0
  BY AttemptAssumption DEF NoUsage, Usage, Unknown
<1>3. StateOK
  <2>1. phase \in [Task -> Phase] /\ terminal \in [Task -> Terminals \cup {"none"}]
    BY DEF Init, Phase
  <2>2. usage \in [Task -> Usage] /\ local \in [Task -> Usage]
    BY <1>2 DEF Init
  <2>3. pc \in [Task -> Location] /\ senders \in [RequestId -> SUBSET (1 .. MaxRuns)]
    BY DEF Init, Location
  <2>4. run \in 1 .. MaxRuns
    BY <1>1, RunsAssumption
  <2> QED BY <1>1, <2>1, <2>2, <2>3, <2>4 DEF StateOK
<1>4. ledger \in [RequestId -> Entry]
  BY <1>1, NothingHeld
<1>5. LedgerInv
  BY <1>1, <1>4 DEF LedgerInv, EntryOK, NoEntry, Unrecorded
<1>6. /\ ManagerInv
      /\ InFlight(budget) = {} /\ budget.pending = {}
      /\ budget.spent = Total(AccountedOf(NoEntries))
      /\ budget.tokenReserved = 0 /\ budget.tokenSpent = 0
      /\ \A r \in Role : budget.roleSpent[r] = 0 /\ budget.roleReserved[r] = 0
  BY <1>1, <1>4, NewManagerSound DEF ManagerInv
<1>7. ~HasOverrun(ledger)
  BY <1>1 DEF HasOverrun, NoEntry, Unrecorded
<1>8. RolesInv
  BY <1>1, NothingHeld, CapAssumption DEF RolesInv
<1>9. LiveInv
  <2>1. \A id \in RequestId : ledger[id].status # "reserved"
    BY <1>1 DEF NoEntry, Unrecorded
  <2>2. Total(budget.reserved) = 0
    BY <1>6, TotalZero DEF ManagerInv, Manager
  <2> QED BY <1>1, <1>6, <2>1, <2>2, NothingHeld DEF LiveInv
<1>10. AccountsInv
  BY <1>5, <1>6, <1>8, <1>9 DEF AccountsInv
<1>11. \A t \in Task : TaskInv(t)
  <2>1. SUFFICES ASSUME NEW t \in Task PROVE TaskInv(t)
    OBVIOUS
  <2>2. JournalInv(t)
    BY <1>1 DEF JournalInv, NoEntry, Ours, Unrecorded
  <2>3. SendersInv(t)
    BY <1>1, RunsAssumption DEF SendersInv, Ours
  <2>4. PcInv(t)
    BY <1>1 DEF PcInv, Fresh, Reserving, Waiting
  <2>5. RecordInv(t)
    BY <1>1 DEF RecordInv, Reserving, Waiting
  <2>6. Joined(ledger, usage[t], t)
    BY <1>1, <1>2 DEF Joined
  <2> QED BY <2>2, <2>3, <2>4, <2>5, <2>6 DEF TaskInv
<1>12. SentIsCharged
  BY <1>1 DEF SentIsCharged
<1>13. TokensInv
  <2>1. PICK f \in [Task -> Usage] : f = Best
    BY <1>3, BestTyped
  <2>2. usage \in [Task -> Usage] /\ \A t \in Task : f[t] = NoUsage /\ usage[t] = NoUsage
    BY <1>1, <1>3, <2>1 DEF Best, StateOK
  <2>3. \A id \in RequestId : Known(f)[id] = 0 /\ Known(usage)[id] = 0
    BY <1>2, <2>2, IdParts DEF Known
  <2>4. Total(Known(f)) = 0 /\ Total(Known(usage)) = 0
    BY <2>2, <2>3, KnownTyped, TotalZero
  <2> QED BY <1>6, <1>7, <2>1, <2>4, CapAssumption DEF TokensInv
<1> QED BY <1>1, <1>3, <1>10, <1>11, <1>12, <1>13 DEF CampaignInv

(* The step of an attempt that failed or was answered.                       *)
LEMMA OutcomeStep ==
    ASSUME NEW t \in Task, mode = "live", CampaignInv,
           \/ RetryableFailure(t)
           \/ Rejected(t)
           \/ \E actual \in ActualCost, tokens \in 0 .. TokensOf[t] + 1, valid \in BOOLEAN :
                Respond(t, actual, tokens, valid)
    PROVE  CampaignInv'
<1>1. AccountsInv /\ StateOK /\ TaskInv(t)
  BY DEF CampaignInv
<1>2. CASE RetryableFailure(t) \/ Rejected(t)
  <2>1. /\ Answered(t, Unknown, TokensOf[t])
        /\ pc'[t] # "errored" /\ local'[t].tokens = 0
        /\ pc' = [pc EXCEPT ![t] = pc'[t]] /\ local' = [local EXCEPT ![t] = local'[t]]
        /\ terminal' = terminal
    BY <1>1, <1>2, FailureAnswered
  <2>2. PICK a \in Nat \cup {Unknown}, n \in Nat : a = Unknown /\ n = TokensOf[t]
    BY Plans
  <2>3. Answered(t, a, n) /\ local'[t].tokens <= n /\ n <= TokensOf[t]
    BY <2>1, <2>2
  <2> QED BY <2>1, <2>2, <2>3, AnsweredStep
<1>3. CASE \E actual \in ActualCost, tokens \in 0 .. TokensOf[t] + 1, valid \in BOOLEAN :
            Respond(t, actual, tokens, valid)
  <2>1. PICK actual \in ActualCost, tokens \in 0 .. TokensOf[t] + 1, valid \in BOOLEAN :
            Respond(t, actual, tokens, valid)
    BY <1>3
  <2>2. /\ actual \in Nat /\ tokens \in Nat
        /\ Answered(t, actual, tokens)
        /\ pc'[t] # "errored" => actual <= CostOf[t] /\ tokens <= TokensOf[t]
        /\ local'[t].tokens = tokens
        /\ pc' = [pc EXCEPT ![t] = pc'[t]] /\ local' = [local EXCEPT ![t] = local'[t]]
        /\ terminal' = terminal
    BY <1>1, <2>1, RespondAnswered
  <2>3. PICK a \in Nat \cup {Unknown}, n \in Nat : a = actual /\ n = tokens
    BY <2>2
  <2>4. Answered(t, a, n) /\ local'[t].tokens <= n /\ a # Unknown
    BY <2>2, <2>3 DEF Unknown
  <2> QED BY <2>2, <2>3, <2>4, AnsweredStep
<1> QED BY <1>2, <1>3

(* The recovery of the costs raises, and the passes begin all the same.      *)
LEMMA ContinueStep ==
    ASSUME CampaignInv, ContinueUnrestored
    PROVE  CampaignInv'
<1>1. /\ mode = "recovering" /\ mode' = "unrestored" /\ ~CostsRecoverable
      /\ ledger' = ledger /\ budget' = budget /\ phase' = phase /\ terminal' = terminal
      /\ usage' = usage /\ pc' = pc /\ local' = local /\ senders' = senders /\ run' = run
  BY DEF ContinueUnrestored, journal
<1>2. RecoveringInv /\ StateOK
  BY <1>1 DEF CampaignInv
<1>3. AccountsInv'
  BY <1>1 DEF CampaignInv, AccountsInv, LedgerInv, ManagerInv, RolesInv
<1>4. StateOK'
  BY <1>1, <1>2 DEF StateOK
<1>5. \A t \in Task : TaskInv(t)'
  <2>1. SUFFICES ASSUME NEW t \in Task PROVE TaskInv(t)'
    OBVIOUS
  <2>2. JournalInv(t) /\ SendersInv(t) /\ Joined(ledger, usage[t], t)
    BY DEF CampaignInv, TaskInv
  <2>3. JournalInv(t)'
    BY <1>1, <2>2 DEF JournalInv
  <2>4. SendersInv(t)'
    BY <1>1, <2>2 DEF SendersInv
  <2> QED BY <1>1, <2>2, <2>3, <2>4 DEF TaskInv
<1>6. SentIsCharged'
  BY <1>1 DEF CampaignInv, SentIsCharged
<1>7. UnrestoredInv'
  <2>1. PICK t \in Task : OpenIds(t) # {}
    BY <1>1 DEF CostsRecoverable, OpenTasks
  <2>2. PICK id \in RequestId : ledger[id].status \in {"reserved", "uncertain_accounted"}
    BY <2>1 DEF OpenIds
  <2>3. id \in Recorded(ledger)
    BY <2>2 DEF Recorded, Unrecorded
  <2>4. budget.recovery /\ budget.issued = {}
    BY <1>2, <2>3 DEF RecoveringInv
  <2>5. \A u \in Task : /\ pc[u] \in {"idle", "done"} /\ local[u] = NoUsage
                        /\ pc[u] # "done" => phase[u] \in Fresh
    BY <1>2 DEF RecoveringInv
  <2> QED BY <1>1, <2>4, <2>5 DEF UnrestoredInv
<1>8. TokensInv'
  <2>1. Spoilt \/ Total(Known(usage)) <= TokenBudget
    BY DEF CampaignInv, TokensInv
  <2>2. Spoilt => Spoilt'
    BY <1>1, SpoiltStays
  <2> QED BY <1>1, <2>1, <2>2 DEF TokensInv
<1> QED BY <1>1, <1>3, <1>4, <1>5, <1>6, <1>7, <1>8 DEF CampaignInv

(* The steps of a task while the passes run.                                 *)
Outcome(t) ==
    \/ RetryableFailure(t)
    \/ Rejected(t)
    \/ \E actual \in ActualCost, tokens \in 0 .. TokensOf[t] + 1, valid \in BOOLEAN :
         Respond(t, actual, tokens, valid)

TaskStep(t) ==
    \/ QuietStep(t) \/ ReserveAttempt(t)
    \/ PreTransportFails(t) \/ DispatchFails(t) \/ Outcome(t)

(* They are taken by a process in its passes only.                           *)
LEMMA WorkingStep ==
    ASSUME NEW t \in Task, TaskStep(t)
    PROVE  mode \in {"live", "unrestored"} /\ mode' = mode /\ run' = run
BY DEF TaskStep, QuietStep, Outcome, request_ready, PlanningFails, ReserveAttempt,
       ReserveRefused, PreTransportFails, EnterTransport, DispatchFails, Send,
       RetryableFailure, Rejected, Respond, RetainUsage, RecordTerminal, At

(* What a task can still do in a process that was not restored: nothing that *)
(* reserves, sends or journals a request.                                    *)
LEMMA UnrestoredQuiet ==
    ASSUME NEW t \in Task, CampaignInv, mode = "unrestored", TaskStep(t)
    PROVE  /\ request_ready(t) \/ PlanningFails(t) \/ ReserveRefused(t) \/ RecordTerminal(t)
           /\ pc[t] \in {"idle", "reserving", "failed"}
<1>1. /\ budget.recovery /\ local[t] = NoUsage
      /\ pc[t] \in {"idle", "reserving", "failed", "errored", "done"}
  BY DEF CampaignInv, UnrestoredInv
<1>2. ~(local[t].attempts > 0)
  BY <1>1 DEF NoUsage
<1>3. ~ReserveAttempt(t)
  BY <1>1 DEF ReserveAttempt, Reserve, WrongState
<1>4. ~PreTransportFails(t) /\ ~DispatchFails(t) /\ ~EnterTransport(t) /\ ~Send(t)
  BY <1>1 DEF PreTransportFails, DispatchFails, EnterTransport, Send, At
<1>5. ~Outcome(t)
  BY <1>1 DEF Outcome, RetryableFailure, Rejected, Respond, At
<1>6. ~RetainUsage(t)
  BY <1>2 DEF RetainUsage
<1>7. request_ready(t) \/ PlanningFails(t) \/ ReserveRefused(t) \/ RecordTerminal(t)
  BY <1>3, <1>4, <1>5, <1>6 DEF TaskStep, QuietStep
<1> QED BY <1>1, <1>7 DEF request_ready, PlanningFails, ReserveRefused, RecordTerminal, At

(* Such a step keeps the invariant.                                          *)
LEMMA UnrestoredStep ==
    ASSUME NEW t \in Task, CampaignInv, mode = "unrestored", TaskStep(t)
    PROVE  CampaignInv'
<1>1. AccountsInv /\ StateOK /\ TaskInv(t) /\ SentIsCharged /\ TokensInv /\ UnrestoredInv
  BY DEF CampaignInv
<1>2. /\ request_ready(t) \/ PlanningFails(t) \/ ReserveRefused(t) \/ RecordTerminal(t)
      /\ pc[t] \in {"idle", "reserving", "failed"}
  BY UnrestoredQuiet
<1>3. /\ mode' = "unrestored" /\ run' = run /\ ledger' = ledger /\ budget' = budget
      /\ usage' = usage /\ local' = local /\ senders' = senders
  BY <1>2 DEF request_ready, PlanningFails, ReserveRefused, RecordTerminal, journal
<1>4. PICK place \in {"reserving", "failed", "errored", "done"} :
        /\ pc' = [pc EXCEPT ![t] = place]
        /\ \/ place # "done" /\ phase' = phase /\ terminal' = terminal
           \/ /\ place = "done" /\ phase' = [phase EXCEPT ![t] = "TERMINAL"]
              /\ terminal' \in [Task -> Terminals \cup {"none"}]
  <2>1. CASE RecordTerminal(t)
    <3>1. PICK w \in Terminals : terminal' = [terminal EXCEPT ![t] = w]
      BY <2>1 DEF RecordTerminal, Terminals
    <3>2. terminal' \in [Task -> Terminals \cup {"none"}]
      BY <1>1, <3>1 DEF StateOK
    <3> QED BY <2>1, <3>2 DEF RecordTerminal, Goto
  <2>2. CASE request_ready(t)
    BY <2>2 DEF request_ready, Goto
  <2>3. CASE PlanningFails(t) \/ ReserveRefused(t)
    BY <2>3 DEF PlanningFails, ReserveRefused, Goto, journal
  <2> QED BY <1>2, <2>1, <2>2, <2>3
<1>5. /\ pc'[t] = place /\ \A u \in Task : u # t => pc'[u] = pc[u] /\ phase'[u] = phase[u]
      /\ phase'[t] = IF place = "done" THEN "TERMINAL" ELSE phase[t]
  BY <1>1, <1>4 DEF StateOK
<1>6. StateOK'
  <2>1. pc' \in [Task -> Location] /\ phase' \in [Task -> Phase]
    BY <1>1, <1>4 DEF StateOK, Location, Phase
  <2>2. terminal' \in [Task -> Terminals \cup {"none"}]
    BY <1>1, <1>4 DEF StateOK
  <2> QED BY <1>1, <1>3, <2>1, <2>2 DEF StateOK
<1>7. AccountsInv'
  BY <1>1, <1>3 DEF AccountsInv, LedgerInv, ManagerInv, RolesInv
<1>8. phase[t] \in Fresh /\ local[t] = NoUsage
  BY <1>1, <1>2 DEF UnrestoredInv
<1>9. \A u \in Task : TaskInv(u)'
  <2>1. TaskInv(t)'
    <3>1. JournalInv(t) /\ SendersInv(t) /\ Joined(ledger, usage[t], t)
      BY <1>1 DEF TaskInv
    <3>2. JournalInv(t)'
      BY <1>3, <1>5, <3>1 DEF JournalInv, Fresh
    <3>3. \A id \in Ours(t) : senders[id] = {}
      BY <1>8, <3>1 DEF JournalInv
    <3>4. SendersInv(t)'
      BY <1>3, <3>1, <3>3 DEF SendersInv
    <3> QED BY <1>3, <3>1, <3>2, <3>4 DEF TaskInv
  <2>2. ASSUME NEW u \in Task, u # t PROVE TaskInv(u)'
    <3>1. Untouched(u)
      BY <1>3, <1>5, <2>2 DEF Untouched
    <3>2. TaskInv(u) /\ mode' = mode
      BY <1>3 DEF CampaignInv
    <3> QED BY <1>1, <1>3, <3>1, <3>2, OtherTask
  <2> QED BY <2>1, <2>2
<1>10. SentIsCharged'
  BY <1>1, <1>3 DEF SentIsCharged
<1>11. UnrestoredInv'
  <2>1. \A u \in Task : /\ pc[u] \in {"idle", "reserving", "failed", "errored", "done"}
                        /\ pc[u] # "done" => phase[u] \in Fresh
                        /\ local[u] = NoUsage
    BY <1>1 DEF UnrestoredInv
  <2>2. \A u \in Task : /\ pc'[u] \in {"idle", "reserving", "failed", "errored", "done"}
                        /\ pc'[u] # "done" => phase'[u] \in Fresh
    BY <1>4, <1>5, <1>8, <2>1
  <2> QED BY <1>1, <1>3, <2>1, <2>2 DEF UnrestoredInv
<1>12. TokensInv'
  <2>1. \A u \in Task : usage[u] = NoUsage /\ pc[u] \in {"errored", "done"} =>
                          usage'[u] = NoUsage /\ pc'[u] \in {"errored", "done"}
    BY <1>2, <1>3, <1>5
  <2>2. Spoilt => Spoilt'
    BY <1>3, <2>1, SpoiltStays
  <2> QED BY <1>1, <1>3, <2>2 DEF TokensInv
<1> QED BY <1>3, <1>6, <1>7, <1>9, <1>10, <1>11, <1>12 DEF CampaignInv

(* Every step keeps the invariant.                                           *)
LEMMA CampaignNext ==
    ASSUME CampaignInv, [Next]_vars
    PROVE  CampaignInv'
<1>1. ASSUME NEW t \in Task, mode = "live", QuietStep(t) PROVE CampaignInv'
  BY <1>1, QuietKeeps
<1>2. ASSUME NEW t \in Task, mode = "live", ReserveAttempt(t) PROVE CampaignInv'
  BY <1>2, ReserveStep
<1>3. ASSUME NEW t \in Task, mode = "live", PreTransportFails(t) \/ DispatchFails(t)
      PROVE  CampaignInv'
  BY <1>3, ReleaseStep
<1>4. ASSUME NEW t \in Task, mode = "live", Outcome(t)
      PROVE  CampaignInv'
  BY <1>4, OutcomeStep DEF Outcome
<1>5. ASSUME NEW t \in Task, TaskStep(t) PROVE CampaignInv'
  <2>1. mode \in {"live", "unrestored"}
    BY <1>5, WorkingStep
  <2>2. CASE mode = "live"
    BY <1>1, <1>2, <1>3, <1>4, <1>5, <2>2 DEF TaskStep
  <2>3. CASE mode = "unrestored"
    BY <1>5, <2>3, UnrestoredStep
  <2> QED BY <2>1, <2>2, <2>3
<1>6. ASSUME (\E t \in Task : RaiseError(t)) \/ Crash \/ RefuseResume PROVE CampaignInv'
  BY <1>6, DownStep DEF RaiseError, Crash, RefuseResume
<1>7. CASE Resume
  BY <1>7, ResumeStep
<1>8. ASSUME NEW id \in RequestId, SettleUncertain(id) PROVE CampaignInv'
  BY <1>8, SettleStep
<1>9. CASE RestoreBudget
  BY <1>9, RestoreStep
<1>10. CASE ContinueUnrestored
  BY <1>10, ContinueStep
<1>11. CASE UNCHANGED vars
  <2>1. /\ ledger' = ledger /\ budget' = budget /\ phase' = phase /\ terminal' = terminal
        /\ usage' = usage /\ mode' = mode /\ pc' = pc /\ local' = local
        /\ senders' = senders /\ run' = run
    BY <1>11 DEF vars, journal
  <2>2. AccountsInv' /\ StateOK' /\ SentIsCharged' /\ (mode' = "recovering" => RecoveringInv')
    BY <2>1 DEF CampaignInv, AccountsInv, LedgerInv, ManagerInv, RolesInv, LiveInv, StateOK,
                SentIsCharged, RecoveringInv
  <2>3. mode' = "unrestored" => UnrestoredInv'
    BY <2>1 DEF CampaignInv, UnrestoredInv
  <2>4. \A t \in Task : TaskInv(t)'
    BY <2>1 DEF CampaignInv, TaskInv, JournalInv, SendersInv, PcInv, RecordInv, This, Following
  <2>5. TokensInv'
    BY <2>1 DEF CampaignInv, TokensInv, Spoilt, Lost, Best
  <2> QED BY <2>2, <2>3, <2>4, <2>5 DEF CampaignInv
<1>12. Next => \/ \E t \in Task : TaskStep(t) \/ RaiseError(t)
               \/ Crash \/ Resume \/ (\E id \in RequestId : SettleUncertain(id))
               \/ RestoreBudget \/ ContinueUnrestored \/ RefuseResume
  BY DEF Next, TaskStep, QuietStep, Outcome
<1> QED BY <1>5, <1>6, <1>7, <1>8, <1>9, <1>10, <1>11, <1>12

(* Over any number of processes, interrupted anywhere, the memory of the     *)
(* live one, the ledger and the journal agree as CampaignInv says.           *)
THEOREM CampaignInvariant == Spec => []CampaignInv
<1>1. Init => CampaignInv
  BY CampaignInit
<1>2. CampaignInv /\ [Next]_vars => CampaignInv'
  BY CampaignNext
<1> QED BY <1>1, <1>2, PTL DEF Spec

(* Every variable keeps its type: no counter of the budget manager goes      *)
(* below zero and no agent makes more requests than it is allowed.           *)
THEOREM CampaignTypeCorrect == Spec => []TypeOK
<1>1. CampaignInv => TypeOK
  <2>1. SUFFICES ASSUME CampaignInv PROVE TypeOK
    OBVIOUS
  <2>2. LedgerInv /\ ManagerInv /\ StateOK
    BY <2>1 DEF CampaignInv, AccountsInv
  <2>3. budget \in Manager
    BY <2>2 DEF ManagerInv
  <2>4. \A r \in Role : budget.roleReserved[r] \in Nat
    BY <2>2, <2>3, FlightTyped DEF ManagerInv
  <2>5. budget.roleReserved \in [Role -> Nat]
    BY <2>3, <2>4 DEF Manager
  <2>6. budget.tokenReserved \in Nat
    BY <2>2, <2>3, FlightTyped DEF ManagerInv
  <2>7. budget.requests \in [Task -> 0 .. MaxRequests]
    BY <2>2, AttemptAssumption DEF ManagerInv, Manager
  <2>8. /\ budget.reserved \in [RequestId -> Nat]
        /\ budget.issued \subseteq RequestId /\ budget.pending \subseteq RequestId
        /\ budget.spent \in Nat /\ budget.tokenSpent \in Nat
        /\ budget.roleSpent \in [Role -> Nat] /\ budget.recovery \in BOOLEAN
        /\ budget.reconciled \cup budget.released \subseteq budget.issued
    BY <2>2, <2>3 DEF Manager, ManagerInv
  <2> QED BY <2>2, <2>5, <2>6, <2>7, <2>8 DEF TypeOK, LedgerInv, StateOK
<1> QED BY <1>1, CampaignInvariant, PTL

(* request_dispatched before the transport: all requests for a task are made *)
(* by one process, whatever is interrupted and resumed.                      *)
THEOREM CampaignOneSender == Spec => []OneSender
<1>1. CampaignInv => OneSender
  <2>1. SUFFICES ASSUME CampaignInv, NEW t \in Task
                 PROVE  Cardinality(UNION {senders[<<t, a>>] : a \in 1 .. MaxAttempts}) <= 1
    BY DEF OneSender
  <2>2. PICK r \in 1 .. MaxRuns : \A id \in Ours(t) : senders[id] \subseteq {r}
    BY <2>1 DEF CampaignInv, TaskInv, SendersInv
  <2>3. \A a \in 1 .. MaxAttempts : <<t, a>> \in Ours(t)
    BY IdMade DEF Ours
  <2>4. PICK S : S = UNION {senders[<<t, a>>] : a \in 1 .. MaxAttempts}
    OBVIOUS
  <2>5. S \subseteq {r}
    BY <2>2, <2>3, <2>4
  <2>6. IsFiniteSet({r}) /\ Cardinality({r}) = 1
    BY FS_Singleton
  <2>7. Cardinality(S) <= 1
    BY <2>5, <2>6, FS_Subset
  <2> QED BY <2>4, <2>7
<1> QED BY <1>1, CampaignInvariant, PTL

(* reserve before send, release only before send: a request that reached the *)
(* provider holds its money in the ledger or has spent it, for ever.         *)
THEOREM CampaignSentIsCharged == Spec => []SentIsCharged
<1>1. CampaignInv => SentIsCharged
  BY DEF CampaignInv
<1> QED BY <1>1, CampaignInvariant, PTL

(* Requests bear the numbers of processes so far, and the number of a        *)
(* process that is being recovered, or was not, is on none.                  *)
NoneSent ==
    /\ \A id \in RequestId : senders[id] \subseteq 1 .. run
    /\ mode \in {"recovering", "unrestored"} => \A id \in RequestId : run \notin senders[id]

(* Every step of a campaign keeps that.                                      *)
LEMMA NoneSentNext ==
    ASSUME CampaignInv, NoneSent, [Next]_vars
    PROVE  NoneSent'
<1>1. senders \in [RequestId -> SUBSET (1 .. MaxRuns)] /\ run \in Nat \ {0}
  BY RunsAssumption DEF CampaignInv, StateOK
<1>2. CASE Resume
  <2>1. senders' = senders /\ run' = run + 1
    BY <1>2 DEF Resume
  <2>2. \A id \in RequestId : run + 1 \notin senders[id] /\ senders[id] \subseteq 1 .. run + 1
    BY <1>1 DEF NoneSent
  <2> QED BY <2>1, <2>2 DEF NoneSent
<1>3. ASSUME NEW t \in Task, Send(t) PROVE NoneSent'
  <2>1. mode = "live"
    <3>1. mode # "unrestored"
      BY <1>3 DEF Send, At, CampaignInv, UnrestoredInv
    <3> QED BY <1>3, <3>1 DEF Send, At
  <2>2. /\ mode' = mode /\ run' = run
        /\ senders' = [senders EXCEPT ![This(t)] = senders[This(t)] \cup {run}]
    BY <1>3 DEF Send
  <2>3. \A id \in RequestId : senders'[id] = senders[id] \/ senders'[id] = senders[id] \cup {run}
    BY <1>1, <2>2
  <2>4. run \in 1 .. run
    BY <1>1
  <2> QED BY <2>1, <2>2, <2>3, <2>4 DEF NoneSent
<1>4. CASE ~Resume /\ \A t \in Task : ~Send(t)
  <2>1. senders' = senders /\ run' = run
    BY <1>4 DEF Next, vars, request_ready, PlanningFails, ReserveAttempt, ReserveRefused,
        PreTransportFails, EnterTransport, DispatchFails, RetryableFailure, Rejected, Respond,
        RetainUsage, RecordTerminal, RaiseError, Crash, SettleUncertain, RestoreBudget,
        ContinueUnrestored, RefuseResume
  <2>2. mode' \in {"recovering", "unrestored"} => mode \in {"recovering", "unrestored"}
    BY <1>4 DEF Next, vars, request_ready, PlanningFails, ReserveAttempt, ReserveRefused,
        PreTransportFails, EnterTransport, DispatchFails, RetryableFailure, Rejected, Respond,
        RetainUsage, RecordTerminal, RaiseError, Crash, SettleUncertain, RestoreBudget,
        ContinueUnrestored, RefuseResume
  <2> QED BY <2>1, <2>2 DEF NoneSent
<1> QED BY <1>2, <1>3, <1>4

(* reserve, reconcile, release and restore_recovered_usage: the counters in  *)
(* memory are the money the ledger has committed, over all roles, in every   *)
(* process that needed no recovery or completed it; a process that goes on   *)
(* after a failed one neither reserves nor sends anything.                   *)
THEOREM CampaignCounters == Spec => []CountersAgree
<1>1. CampaignInv /\ NoneSent => CountersAgree
  <2>1. SUFFICES ASSUME CampaignInv, mode = "live" PROVE LedgerInMemory
    BY DEF CountersAgree, NoneSent, CampaignInv, UnrestoredInv
  <2>2. LiveInv
    BY <2>1 DEF CampaignInv, AccountsInv
  <2>3. TotalWhere(Held(ledger), LAMBDA id : id \notin budget.pending) =
            Total(Free(ledger, budget.pending))
    BY TotalSame DEF TotalWhere, Held, Free
  <2>4. ASSUME NEW r \in Role
        PROVE  TotalWhere(Held(ledger),
                          LAMBDA id : RoleOfId(id) = r /\ id \notin budget.pending) =
                 Total(FreeOf(ledger, budget.pending, r))
    BY TotalSame DEF TotalWhere, Held, FreeOf
  <2>5. budget.spent + Total(budget.reserved) = Total(Free(ledger, budget.pending))
    BY <2>2 DEF LiveInv
  <2>6. \A r \in Role : budget.roleSpent[r] + budget.roleReserved[r] =
                            Total(FreeOf(ledger, budget.pending, r))
    BY <2>2 DEF LiveInv
  <2>7. \A r \in Role : budget.roleSpent[r] + budget.roleReserved[r] =
            TotalWhere(Held(ledger), LAMBDA id : RoleOfId(id) = r /\ id \notin budget.pending)
    BY <2>4, <2>6
  <2> QED BY <2>3, <2>5, <2>7 DEF LedgerInMemory
<1>2. Init => NoneSent
  BY DEF Init, NoneSent
<1>3. CampaignInv /\ NoneSent /\ [Next]_vars => NoneSent'
  BY NoneSentNext
<1> QED BY <1>1, <1>2, <1>3, CampaignInvariant, PTL DEF Spec

(* _require_scoped_capacity: neither a role nor the token budget is          *)
(* overdrawn before an error that nobody handles.                            *)
THEOREM CampaignScopes == Spec => []ScopesRespected
<1>1. CampaignInv => ScopesRespected
  <2>1. SUFFICES ASSUME CampaignInv, mode = "live", \A t \in Task : pc[t] # "errored"
                 PROVE  /\ \A r \in Role :
                            budget.roleSpent[r] + budget.roleReserved[r] <= RoleCap[r]
                        /\ budget.tokenSpent + budget.tokenReserved <= TokenBudget
    BY DEF ScopesRespected
  <2>2. ~HasOverrun(ledger) /\ budget.tokenSpent + budget.tokenReserved <= TokenBudget
    BY <2>1 DEF CampaignInv, TokensInv
  <2>3. LedgerInv /\ LiveInv /\ RolesInv
    BY <2>1 DEF CampaignInv, AccountsInv
  <2>4. ASSUME NEW r \in Role
        PROVE  budget.roleSpent[r] + budget.roleReserved[r] <= RoleCap[r]
    <3>1. PICK f \in [RequestId -> Nat] : f = FreeOf(ledger, budget.pending, r)
      BY <2>3, TermsTyped DEF LedgerInv
    <3>2. PICK g \in [RequestId -> Nat] : g = HeldOf(ledger, r)
      BY <2>3, TermsTyped DEF LedgerInv
    <3>3. \A id \in RequestId : f[id] = g[id] \/ f[id] = 0
      BY <3>1, <3>2 DEF FreeOf, HeldOf
    <3>4. Total(f) <= Total(g)
      BY <3>3, TotalMonotone
    <3>5. Total(f) \in Nat /\ Total(g) \in Nat /\ RoleCap[r] \in Nat
      BY CoinsFinite, CapAssumption
    <3>6. Total(g) <= RoleCap[r]
      BY <2>2, <2>3, <3>2 DEF RolesInv
    <3>7. budget.roleSpent[r] + budget.roleReserved[r] = Total(f)
      BY <2>3, <3>1 DEF LiveInv
    <3> QED BY <3>4, <3>5, <3>6, <3>7
  <2> QED BY <2>2, <2>4
<1> QED BY <1>1, CampaignInvariant, PTL

(* What the loader of a usage record asks of the ledger is what the request  *)
(* loop wrote.                                                               *)
LEMMA JoinedJoins ==
    ASSUME NEW t \in Task, NEW u \in Usage, Joined(ledger, u, t)
    PROVE  JoinsLedger(u, t)
<1>1. SUFFICES ASSUME u.attempts > 0 PROVE JoinsLedger(u, t)
  BY DEF JoinsLedger
<1>2. u.attempts \in 1 .. MaxAttempts /\ u.attempts \in Nat
  BY <1>1, AttemptAssumption DEF Usage
<1>3. /\ \A id \in Ours(t) : AttemptOf(id) <= u.attempts =>
            ledger[id].status \in {"reconciled", "uncertain_accounted"}
      /\ u.creditable => ledger[<<t, u.attempts>>].status = "reconciled"
      /\ u.reported = ledger[<<t, u.attempts>>].actual
      /\ u.accounted = Total(Upto(ledger, t, u.attempts))
  BY <1>1 DEF Joined
<1>4. \A id \in {t} \X (1 .. u.attempts) :
            ledger[id].status \in {"reconciled", "uncertain_accounted"}
  <2>1. SUFFICES ASSUME NEW a \in 1 .. u.attempts
                 PROVE  ledger[<<t, a>>].status \in {"reconciled", "uncertain_accounted"}
    OBVIOUS
  <2>2. a \in 1 .. MaxAttempts /\ a <= u.attempts
    BY <1>2, AttemptAssumption
  <2>3. <<t, a>> \in Ours(t) /\ AttemptOf(<<t, a>>) = a
    BY <2>2, IdMade DEF Ours
  <2> QED BY <1>3, <2>2, <2>3
<1>5. TotalWhere(AccountedOf(ledger),
                 LAMBDA id : TaskOf(id) = t /\ AttemptOf(id) <= u.attempts) =
        Total(Upto(ledger, t, u.attempts))
  BY TotalSame DEF TotalWhere, AccountedOf, Upto
<1> QED BY <1>3, <1>4, <1>5 DEF JoinsLedger

(* persist_output and persist_provider_attempt: a retained usage record      *)
(* names exactly the charges the ledger holds, in every later state.         *)
THEOREM CampaignRetained == Spec => []RetainedUsageExact
<1>1. CampaignInv => RetainedUsageExact
  <2>1. SUFFICES ASSUME CampaignInv, NEW t \in Task PROVE JoinsLedger(usage[t], t)
    BY DEF RetainedUsageExact
  <2>2. usage[t] \in Usage /\ Joined(ledger, usage[t], t)
    BY <2>1 DEF CampaignInv, StateOK, TaskInv
  <2> QED BY <2>2, JoinedJoins
<1> QED BY <1>1, CampaignInvariant, PTL

(* None of the situations that make a recovery refuse.                       *)
Unspoilt ==
    /\ ~NothingReserved /\ ~RetriedRequest /\ ~GivenBack
    /\ ~UnretainedCharge /\ ~UnknownChargeConcluded

(* Then every entry is the first attempt of its task, and its status says    *)
(* how far the task came.                                                    *)
LEMMA FirstAttempts ==
    ASSUME CampaignInv, mode = "recovering", Unspoilt, NEW id \in RequestId,
           NEW t \in Task, t = TaskOf(id)
    PROVE  /\ ledger[id].status # Unrecorded => AttemptOf(id) = 1 /\ id = <<t, 1>>
           /\ ledger[id].status \in {Unrecorded, "reserved", "reconciled", "uncertain_accounted"}
           /\ ledger[id].status = "reserved" =>
                /\ phase[t] \in {"ACTIVATED", "TERMINAL"}
                /\ usage[t] = NoUsage
           /\ ledger[id].status = "uncertain_accounted" =>
                phase[t] = "TERMINAL" /\ usage[t] = NoUsage
           /\ ledger[id].status = "reconciled" => usage[t].attempts > 0
           /\ ledger[id].status \in {"reserved", "uncertain_accounted"} /\ phase[t] = "TERMINAL" =>
                terminal[t] = "UNCERTAIN"
<1>1. /\ LedgerInv /\ StateOK /\ JournalInv(t) /\ RecoveringInv /\ usage[t] \in Usage
      /\ phase[t] \in Phase /\ id \in Ours(t)
  BY DEF CampaignInv, AccountsInv, TaskInv, StateOK, Ours
<1>2. PICK s : s = ledger[id].status
  OBVIOUS
<1>3. s \in {Unrecorded, "reserved", "reconciled", "uncertain_accounted"}
  <2>1. s \in EntryStatus \cup {Unrecorded}
    BY <1>1, <1>2 DEF LedgerInv, Entry
  <2>2. s # "released"
    BY <1>2 DEF Unspoilt, GivenBack
  <2>3. s # "reservation_overrun"
    BY <1>1, <1>2 DEF RecoveringInv, HasOverrun
  <2> QED BY <2>1, <2>2, <2>3 DEF EntryStatus, Terminal
<1>4. s # Unrecorded => AttemptOf(id) = 1 /\ id = <<t, 1>>
  <2>1. AttemptOf(id) \in Nat /\ AttemptOf(id) >= 1 /\ id = <<t, AttemptOf(id)>>
    BY IdParts
  <2>2. s # Unrecorded => ~(AttemptOf(id) > 1)
    BY <1>2 DEF Unspoilt, RetriedRequest, Recorded
  <2> QED BY <2>1, <2>2
<1>5. s \in {"reserved", "uncertain_accounted"} /\ phase[t] = "TERMINAL" =>
        terminal[t] = "UNCERTAIN" /\ usage[t] = NoUsage
  BY <1>2 DEF Unspoilt, UnknownChargeConcluded
<1>6. s = "reserved" => phase[t] \in {"ACTIVATED", "TERMINAL"} /\ usage[t] = NoUsage
  <2>1. phase[t] # "DISPATCHED"
    BY <1>1 DEF RecoveringInv
  <2>2. s = "reserved" => phase[t] # "PLANNED"
    BY <1>1, <1>2 DEF JournalInv, Unrecorded
  <2>3. phase[t] = "ACTIVATED" => usage[t] = NoUsage
    BY <1>1 DEF JournalInv, Fresh
  <2> QED BY <1>1, <1>5, <2>1, <2>2, <2>3 DEF Phase
<1>7. s = "uncertain_accounted" => phase[t] = "TERMINAL" /\ usage[t] = NoUsage
  <2>1. phase[t] # "DISPATCHED"
    BY <1>1 DEF RecoveringInv
  <2>2. s = "uncertain_accounted" => phase[t] \notin Fresh
    BY <1>1, <1>2 DEF JournalInv, Unrecorded
  <2> QED BY <1>1, <1>5, <2>1, <2>2 DEF Phase, Fresh
<1>8. s = "reconciled" => usage[t].attempts > 0
  <2>1. s = "reconciled" => usage[t] # NoUsage
    BY <1>2 DEF Unspoilt, UnretainedCharge
  <2> QED BY <1>1, <2>1 DEF JournalInv
<1> QED BY <1>2, <1>3, <1>4, <1>5, <1>6, <1>7, <1>8

(* So the reservations can be concluded.                                     *)
LEMMA CostsRecovered ==
    ASSUME CampaignInv, mode = "recovering", Unspoilt
    PROVE  CostsRecoverable
<1>1. SUFFICES ASSUME NEW t \in Task, OpenIds(t) # {}
               PROVE  LET n == Cardinality(OpenIds(t))
                      IN  /\ phase[t] # "PLANNED"
                          /\ OpenIds(t) = {t} \X (1 .. n)
                          /\ phase[t] = "ACTIVATED" =>
                                n = 1 /\ ledger[<<t, 1>>].status = "reserved"
                          /\ phase[t] # "ACTIVATED" =>
                              /\ terminal[t] = "UNCERTAIN"
                              /\ \A a \in 1 .. n - 1 :
                                    ledger[<<t, a>>].status = "uncertain_accounted"
  BY DEF CostsRecoverable, OpenTasks
<1>2. PICK id \in RequestId : /\ TaskOf(id) = t
                              /\ ledger[id].status \in {"reserved", "uncertain_accounted"}
  BY <1>1 DEF OpenIds
<1>3. /\ id = <<t, 1>>
      /\ ledger[id].status = "reserved" => phase[t] \in {"ACTIVATED", "TERMINAL"}
      /\ ledger[id].status = "uncertain_accounted" => phase[t] = "TERMINAL"
      /\ phase[t] = "TERMINAL" => terminal[t] = "UNCERTAIN"
  BY <1>2, FirstAttempts DEF Unrecorded
<1>4. \A o \in OpenIds(t) : o = <<t, 1>>
  BY FirstAttempts DEF OpenIds, Unrecorded
<1>5. OpenIds(t) = {<<t, 1>>}
  BY <1>2, <1>3, <1>4 DEF OpenIds
<1>6. PICK n \in Nat : n = 1 /\ n = Cardinality(OpenIds(t))
  BY <1>5, FS_Singleton
<1>7. {t} \X (1 .. 1) = {<<t, 1>>}
  <2>1. 1 .. 1 = {1}
    OBVIOUS
  <2> QED BY <2>1
<1>8. OpenIds(t) = {t} \X (1 .. n)
  BY <1>5, <1>6, <1>7
<1>9. phase[t] = "ACTIVATED" => ledger[<<t, 1>>].status = "reserved"
  BY <1>2, <1>3
<1>10. phase[t] # "PLANNED" /\ (phase[t] # "ACTIVATED" => terminal[t] = "UNCERTAIN")
  BY <1>2, <1>3
<1>11. \A a \in 1 .. n - 1 : ledger[<<t, a>>].status = "uncertain_accounted"
  BY <1>6
<1> QED BY <1>6, <1>8, <1>9, <1>10, <1>11

(* The tokens the recovery counts are the known ones, unless a response that *)
(* was refused reported none.                                                *)
LEMMA RecountKnown ==
    ASSUME CampaignInv, mode = "recovering", Unspoilt, ~RecountedTokens
    PROVE  Total(RecoveredTokens(usage)) <= TokenBudget
<1>1. SUFFICES ASSUME ~(Total(RecoveredTokens(usage)) <= TokenBudget) PROVE FALSE
  OBVIOUS
<1>2. LedgerInv /\ StateOK /\ RecoveringInv /\ TokensInv
  BY DEF CampaignInv, AccountsInv
<1>3. Total(RecoveredTokens(usage)) \in Nat /\ TokenBudget \in Nat
  BY <1>2, RecoveredTyped, CapAssumption DEF StateOK
<1>4. \A t \in Task : ~(/\ usage[t].reported # Unknown
                        /\ ~usage[t].creditable
                        /\ usage[t].tokens = 0)
  BY <1>1, <1>3 DEF RecountedTokens
<1>5. ~Spoilt
  <2>1. SUFFICES ASSUME NEW id \in RequestId, Lost(id) PROVE FALSE
    BY <1>2 DEF RecoveringInv, Spoilt
  <2>2. ledger[id].status = "reconciled" /\ usage[TaskOf(id)] = NoUsage
    BY <2>1 DEF Lost
  <2> QED BY <2>2 DEF Unspoilt, UnretainedCharge
<1>6. Total(Known(usage)) <= TokenBudget
  BY <1>2, <1>5 DEF TokensInv
<1>7. \A id \in RequestId : RecoveredTokens(usage)[id] = Known(usage)[id]
  <2>1. SUFFICES ASSUME NEW id \in RequestId
                 PROVE  RecoveredTokens(usage)[id] = Known(usage)[id]
    OBVIOUS
  <2>2. PICK t \in Task : t = TaskOf(id)
    BY IdParts
  <2>3. PICK u \in Usage : u = usage[t]
    BY <1>2 DEF StateOK
  <2>4. u.attempts \in Nat /\ u.tokens \in Nat /\ u.attempts <= MaxAttempts
    BY <2>3, AttemptAssumption DEF Usage
  <2>5. AttemptOf(id) \in Nat /\ AttemptOf(id) >= 1 /\ MaxAttempts \in Nat
    BY IdParts, AttemptAssumption
  <2>6. JournalInv(t) /\ Joined(ledger, u, t)
    BY <2>3 DEF CampaignInv, TaskInv
  <2>7. RecoveredTokens(usage)[id] =
            CASE AttemptOf(id) > u.attempts -> 0
              [] AttemptOf(id) = u.attempts /\ (u.creditable \/ u.tokens > 0) -> u.tokens
              [] OTHER -> TokensOf[t]
    BY <2>2, <2>3 DEF RecoveredTokens
  <2>8. Known(usage)[id] = IF AttemptOf(id) = u.attempts THEN u.tokens ELSE 0
    BY <2>2, <2>3 DEF Known
  <2>9. CASE AttemptOf(id) > u.attempts
    BY <2>4, <2>5, <2>7, <2>8, <2>9
  <2>10. CASE AttemptOf(id) <= u.attempts
    <3>1. u.attempts > 0
      BY <2>4, <2>5, <2>10
    <3>2. PICK o \in RequestId : /\ o = <<t, u.attempts>> /\ TaskOf(o) = t
                                 /\ AttemptOf(o) = u.attempts /\ o \in Ours(t)
      <4>1. PICK a \in 1 .. MaxAttempts : a = u.attempts
        BY <2>4, <2>5, <3>1
      <4>2. <<t, a>> \in RequestId /\ TaskOf(<<t, a>>) = t /\ AttemptOf(<<t, a>>) = a
        BY IdMade
      <4> QED BY <4>1, <4>2 DEF Ours
    <3>3. /\ ledger[o].status \in {"reconciled", "uncertain_accounted"}
          /\ u.reported = ledger[o].actual
      BY <2>6, <3>1, <3>2, <2>4 DEF Joined
    <3>4. u # NoUsage
      BY <3>1 DEF NoUsage
    <3>5. AttemptOf(o) = 1 /\ ledger[o].status = "reconciled"
      BY <2>3, <3>2, <3>3, <3>4, FirstAttempts DEF Unrecorded
    <3>6. AttemptOf(id) = u.attempts
      BY <2>4, <2>5, <2>10, <3>2, <3>5
    <3>7. ledger[o].actual \in Nat
      BY <1>2, <3>5 DEF LedgerInv, EntryOK
    <3>8. u.creditable \/ u.tokens > 0
      BY <1>4, <2>3, <2>4, <3>3, <3>7 DEF Unknown
    <3> QED BY <2>4, <2>5, <2>7, <2>8, <3>6, <3>8
  <2> QED BY <2>4, <2>5, <2>9, <2>10
<1>8. Total(RecoveredTokens(usage)) = Total(Known(usage))
  BY <1>7, TotalSame
<1> QED BY <1>1, <1>6, <1>8

(* And the counters can be restored.                                         *)
LEMMA UsageRestorable ==
    ASSUME CampaignInv, mode = "recovering", Unspoilt, ~RecountedTokens, Unsettled = {}
    PROVE  Restorable(usage, Adopted, Settled)
<1>1. StateOK /\ RecoveringInv
  BY DEF CampaignInv
<1>2. budget.recovery
  BY <1>1 DEF RecoveringInv, Unspoilt, NothingReserved
<1>3. \A t \in Task : JoinsLedger(usage[t], t)
  <2>1. \A t \in Task : usage[t] \in Usage /\ Joined(ledger, usage[t], t)
    BY DEF CampaignInv, StateOK, TaskInv
  <2> QED BY <2>1, JoinedJoins
<1>4. \A id \in RequestId : id \in Adopted \cup Settled => usage[TaskOf(id)] = NoUsage
  BY IdParts, FirstAttempts DEF Adopted, Settled
<1>5. \A id \in RequestId : id \in Covered(usage) =>
        /\ usage[TaskOf(id)] # NoUsage
        /\ ledger[id].status \in {"reconciled", "uncertain_accounted"}
  <2>1. SUFFICES ASSUME NEW id \in RequestId, id \in Covered(usage)
                 PROVE  /\ usage[TaskOf(id)] # NoUsage
                        /\ ledger[id].status \in {"reconciled", "uncertain_accounted"}
    OBVIOUS
  <2>2. PICK t \in Task : t = TaskOf(id) /\ id \in Ours(t)
    BY IdParts DEF Ours
  <2>3. AttemptOf(id) <= usage[t].attempts /\ AttemptOf(id) \in Nat /\ AttemptOf(id) >= 1
    BY <2>1, <2>2, IdParts DEF Covered
  <2>4. usage[t] \in Usage /\ Joined(ledger, usage[t], t)
    BY DEF CampaignInv, StateOK, TaskInv
  <2>5. usage[t].attempts > 0
    BY <2>3, <2>4, AttemptAssumption DEF Usage
  <2> QED BY <2>2, <2>3, <2>4, <2>5 DEF Joined, NoUsage
<1>6. (Adopted \cup Settled) \cap Covered(usage) = {}
  <2>1. Adopted \cup Settled \subseteq RequestId
    BY DEF Adopted, Settled
  <2> QED BY <1>4, <1>5, <2>1
<1>7. Recorded(ledger) = Covered(usage) \cup Adopted \cup Settled
  <2>1. ASSUME NEW id \in RequestId, ledger[id].status # Unrecorded
        PROVE  id \in Covered(usage) \cup Adopted \cup Settled
    <3>1. PICK t \in Task : t = TaskOf(id)
      BY IdParts
    <3>2. CASE ledger[id].status = "reserved"
      <4>1. phase[t] = "ACTIVATED"
        BY <3>1, <3>2 DEF Unsettled
      <4> QED BY <3>1, <3>2, <4>1 DEF Adopted
    <3>3. CASE ledger[id].status = "uncertain_accounted"
      <4>1. phase[t] = "TERMINAL"
        BY <3>1, <3>3, FirstAttempts
      <4> QED BY <3>1, <3>3, <4>1 DEF Settled
    <3>4. CASE ledger[id].status = "reconciled"
      <4>1. AttemptOf(id) = 1 /\ usage[t].attempts > 0
        BY <2>1, <3>1, <3>4, FirstAttempts
      <4>2. usage[t].attempts \in Nat
        BY <1>1, AttemptAssumption DEF StateOK, Usage
      <4> QED BY <3>1, <4>1, <4>2 DEF Covered
    <3> QED BY <2>1, <3>1, <3>2, <3>3, <3>4, FirstAttempts
  <2>2. ASSUME NEW id \in RequestId, id \in Covered(usage) \cup Adopted \cup Settled
        PROVE  ledger[id].status # Unrecorded
    BY <1>5, <2>2 DEF Adopted, Settled, Unrecorded
  <2>3. Covered(usage) \cup Adopted \cup Settled \subseteq RequestId
    BY DEF Covered, Adopted, Settled
  <2> QED BY <2>1, <2>2, <2>3 DEF Recorded
<1>8. TokensAfterRecovery(usage, Settled) <= TokenBudget
  BY RecountKnown, CapAssumption DEF TokensAfterRecovery
<1>9. /\ \A id \in Settled : usage[TaskOf(id)] = NoUsage
      /\ \A id \in Adopted : ledger[id].status = "reserved"
      /\ \A id \in Settled : ledger[id].status = "uncertain_accounted"
  BY <1>4 DEF Adopted, Settled
<1> QED BY <1>2, <1>3, <1>6, <1>7, <1>8, <1>9 DEF Restorable

(* recover_active_cost_reservations and restore_recovered_usage: a resumed   *)
(* campaign is refused in the six situations of RefusalExplained only.       *)
THEOREM CampaignRefusals == Spec => []RefusalExplained
<1>1. CampaignInv => RefusalExplained
  <2>1. SUFFICES ASSUME CampaignInv, mode = "recovering", Unspoilt, ~RecountedTokens
                 PROVE  ~Refused
    BY DEF RefusalExplained, Unspoilt
  <2> QED BY <2>1, CostsRecovered, UsageRestorable DEF Refused
<1> QED BY <1>1, CampaignInvariant, PTL
=============================================================================
