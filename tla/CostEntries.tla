---------------------------- MODULE CostEntries ----------------------------
(* The data of the persistent model-cost ledger: what one entry records,     *)
(* which entries the loader accepts, and the totals derived from them.       *)
(* Amounts are whole units of the exact decimal the code keeps.              *)
EXTENDS Integers, FiniteSets

CONSTANTS
    RequestId,      \* identifiers of provider requests
    Amount,         \* maximum costs a caller may ask to reserve
    ActualCost      \* costs a provider may report

(* _validate_money: a reservation is positive, a reported cost may be zero.  *)
ASSUME RequestIdAssumption == IsFiniteSet(RequestId)
ASSUME AmountAssumption == Amount \subseteq Nat \ {0}
ASSUME ActualAssumption == ActualCost \subseteq Nat

(* None of the code: an unknown provider cost, and "no entry recorded".      *)
Unknown == -1
Unrecorded == "unrecorded"
NoReason == "no_reason"

Terminal == {"reconciled", "released", "uncertain_accounted",
             "reservation_overrun"}
EntryStatus == {"reserved"} \cup Terminal
ReleaseReason == {"cancelled_before_send", "failed_before_send"}

(* `ordered' abstracts the two timestamps to the one fact the loader tests:  *)
(* updated_at >= created_at.                                                 *)
Entry == [status: EntryStatus \cup {Unrecorded}, reserved: Nat,
          actual: Nat \cup {Unknown}, accounted: Nat,
          reason: ReleaseReason \cup {NoReason}, ordered: BOOLEAN]

NoEntry == [status |-> Unrecorded, reserved |-> 0, actual |-> Unknown,
            accounted |-> 0, reason |-> NoReason, ordered |-> TRUE]

NoEntries == [id \in RequestId |-> NoEntry]

(* The entry reserve() records.                                              *)
ReservedEntry(amount) ==
    [NoEntry EXCEPT !.status = "reserved", !.reserved = amount]

(* Fault: a charge above the reservation is recorded as an ordinary one.     *)
StatusWithoutOverrun(reserved, actual) ==
    IF actual = Unknown THEN "uncertain_accounted" ELSE "reconciled"

(* The status reconcile() gives for a reported cost.                         *)
ReconciledStatus(reserved, actual) ==
    CASE actual = Unknown -> "uncertain_accounted"
      [] actual # Unknown /\ actual > reserved -> "reservation_overrun"
      [] OTHER -> "reconciled"

(* Fault: an unknown cost is copied instead of charged at the reservation.   *)
AccountedAsReported(reserved, actual) == actual

AccountedCost(reserved, actual) ==
    IF actual = Unknown THEN reserved ELSE actual

(* The entry reconcile() replaces an active reservation with.                *)
ReconciledEntry(e, actual, ordered) ==
    [e EXCEPT !.status = ReconciledStatus(e.reserved, actual),
              !.actual = actual,
              !.accounted = AccountedCost(e.reserved, actual),
              !.ordered = ordered]

(* Fault: the release reason is not persisted.                               *)
ReleasedWithoutReason(e, reason, ordered) ==
    [e EXCEPT !.status = "released", !.ordered = ordered]

(* The entry release() replaces an active reservation with.                  *)
ReleasedEntry(e, reason, ordered) ==
    [e EXCEPT !.status = "released", !.reason = reason, !.ordered = ordered]

(* _validate_lifecycle: the fields agree with the status.                    *)
LifecycleOK(e) ==
    CASE e.status = "reserved" ->
            e.actual = Unknown /\ e.accounted = 0 /\ e.reason = NoReason
      [] e.status = "released" ->
            e.actual = Unknown /\ e.accounted = 0 /\ e.reason # NoReason
      [] e.status = "uncertain_accounted" ->
            /\ e.actual = Unknown
            /\ e.accounted = e.reserved
            /\ e.reason = NoReason
      [] e.status = "reconciled" ->
            /\ e.actual \in 0 .. e.reserved
            /\ e.accounted = e.actual
            /\ e.reason = NoReason
      [] e.status = "reservation_overrun" ->
            /\ e.actual > e.reserved
            /\ e.accounted = e.actual
            /\ e.reason = NoReason
      [] OTHER -> TRUE

Recorded(entries) == {id \in RequestId : entries[id].status # Unrecorded}

(* _parse_entry and _validate_lifecycle, over the whole file.                *)
ValidEntries(entries) ==
    \A id \in Recorded(entries) :
        /\ entries[id].reserved > 0
        /\ entries[id].ordered
        /\ LifecycleOK(entries[id])

(***************************************************************************)
(* Totals.  A sum over the ids is the number of unit coins laid out beside *)
(* them, which is a finite set whose size the prover can reason about.     *)
(***************************************************************************)
Coins(f) == UNION {{id} \X (1 .. f[id]) : id \in RequestId}

Total(f) == Cardinality(Coins(f))

(* What one entry takes from the cap: its accounted cost, and its            *)
(* reservation while it is active.                                           *)
Hold(e) == e.accounted + (IF e.status = "reserved" THEN e.reserved ELSE 0)

Held(entries) == [id \in RequestId |-> Hold(entries[id])]

(* spent_usd + active_reserved_usd                                           *)
Committed(entries) == Total(Held(entries))

HasOverrun(entries) ==
    \E id \in RequestId : entries[id].status = "reservation_overrun"

(* remaining_usd                                                             *)
Remaining(cap, entries) ==
    IF Committed(entries) > cap THEN 0 ELSE cap - Committed(entries)
=============================================================================
