----------------------------- MODULE CostLedger -----------------------------
(* AtomicCostLedger: several processes share one ledger file.  Every call    *)
(* takes an exclusive lock on a separate lock file, reads and validates the  *)
(* whole ledger, and replaces the file atomically.  A process may die, and a *)
(* write may fail, at every point in between.                                *)
EXTENDS CostEntries

CONSTANTS
    Client,            \* processes that use the ledger
    NoClient,          \* "nobody holds the lock"
    CapOf,             \* the cap each process is configured with
    ClockMayStepBack   \* whether the wall clock may be set back between calls

ASSUME ClientAssumption == NoClient \notin Client
ASSUME CapAssumption == CapOf \in [Client -> Nat \ {0}]
ASSUME ClockAssumption == ClockMayStepBack \in BOOLEAN

VARIABLES
    lockFile,   \* the lock file exists
    holder,     \* the client whose descriptor holds the exclusive lock
    ledger,     \* the ledger file
    pc,         \* where each client is in its current call
    call,       \* the call it is making
    view,       \* the ledger as it read it under the lock
    handles     \* the CostReservation handles it holds

vars == <<lockFile, holder, ledger, pc, call, view, handles>>

Ledger == [present: BOOLEAN, cap: Nat, entries: [RequestId -> Entry]]

NoLedger == [present |-> FALSE, cap |-> 0, entries |-> NoEntries]

(* _new_state                                                                *)
NewLedger(limit) == [present |-> TRUE, cap |-> limit, entries |-> NoEntries]

Handle == [id: RequestId, reserved: Nat]

Calls ==
    [kind: {"initialize", "open", "none"}]
    \cup [kind: {"reserve"}, id: RequestId, amount: Amount]
    \cup [kind: {"reconcile"}, handle: Handle, actual: ActualCost \cup {Unknown}]
    \cup [kind: {"release"}, handle: Handle, reason: ReleaseReason]
    \cup [kind: {"active"}, id: RequestId]

NoCall == [kind |-> "none"]

(* A client is "closed" until a constructor returns, then "ready"; during a  *)
(* call it passes "creating" (initialize only), "waiting", "locked" and      *)
(* "replaced" (the new file is in place, the lock is still held).            *)
Constructing == {"initialize", "open"}
Place == {"closed", "ready", "creating", "waiting", "locked", "replaced"}

Rest(c) == IF call[c].kind \in Constructing THEN "closed" ELSE "ready"

Init ==
    /\ lockFile = FALSE
    /\ holder = NoClient
    /\ ledger = NoLedger
    /\ pc = [c \in Client |-> "closed"]
    /\ call = [c \in Client |-> NoCall]
    /\ view = [c \in Client |-> NoLedger]
    /\ handles = [c \in Client |-> {}]

-----------------------------------------------------------------------------
(* Calls begin.                                                              *)

(* initialize(): both paths must be free before the lock is created.         *)
BeginInitialize(c) ==
    /\ pc[c] = "closed"
    /\ ~lockFile
    /\ ~ledger.present
    /\ pc' = [pc EXCEPT ![c] = "creating"]
    /\ call' = [call EXCEPT ![c] = [kind |-> "initialize"]]
    /\ UNCHANGED <<lockFile, holder, ledger, view, handles>>

(* O_CREAT | O_EXCL: of two racing initializers one is refused.              *)
CreateLock(c) ==
    /\ pc[c] = "creating"
    /\ IF lockFile
       THEN /\ pc' = [pc EXCEPT ![c] = "closed"]
            /\ call' = [call EXCEPT ![c] = NoCall]
            /\ UNCHANGED lockFile
       ELSE /\ pc' = [pc EXCEPT ![c] = "waiting"]
            /\ lockFile' = TRUE
            /\ UNCHANGED call
    /\ UNCHANGED <<holder, ledger, view, handles>>

(* open_existing(): never creates the lock file.                             *)
BeginOpen(c) ==
    /\ pc[c] = "closed"
    /\ lockFile
    /\ pc' = [pc EXCEPT ![c] = "waiting"]
    /\ call' = [call EXCEPT ![c] = [kind |-> "open"]]
    /\ UNCHANGED <<lockFile, holder, ledger, view, handles>>

(* reserve(), reconcile(), release(), active_reservation().                  *)
Begin(c) ==
    /\ pc[c] = "ready"
    /\ lockFile
    /\ \/ \E id \in RequestId, amount \in Amount :
            call' = [call EXCEPT ![c] =
                [kind |-> "reserve", id |-> id, amount |-> amount]]
       \/ \E h \in handles[c], actual \in ActualCost \cup {Unknown} :
            call' = [call EXCEPT ![c] =
                [kind |-> "reconcile", handle |-> h, actual |-> actual]]
       \/ \E h \in handles[c], reason \in ReleaseReason :
            call' = [call EXCEPT ![c] =
                [kind |-> "release", handle |-> h, reason |-> reason]]
       \/ \E id \in RequestId :
            call' = [call EXCEPT ![c] = [kind |-> "active", id |-> id]]
    /\ pc' = [pc EXCEPT ![c] = "waiting"]
    /\ UNCHANGED <<lockFile, holder, ledger, view, handles>>

(* Fault: the lock is taken shared, so two calls read the same ledger.       *)
AcquireShared(c) ==
    /\ pc[c] = "waiting"
    /\ holder' = c
    /\ view' = [view EXCEPT ![c] = ledger]
    /\ pc' = [pc EXCEPT ![c] = "locked"]
    /\ UNCHANGED <<lockFile, ledger, call, handles>>

(* _locked: flock(LOCK_EX), then _read_state under the lock.                 *)
Acquire(c) ==
    /\ pc[c] = "waiting"
    /\ holder = NoClient
    /\ holder' = c
    /\ view' = [view EXCEPT ![c] = ledger]
    /\ pc' = [pc EXCEPT ![c] = "locked"]
    /\ UNCHANGED <<lockFile, ledger, call, handles>>

-----------------------------------------------------------------------------
(* What a locked call decides from the ledger it read.                       *)

(* _required_state and _validate_state                                       *)
Readable(c) ==
    /\ view[c].present
    /\ view[c].cap = CapOf[c]
    /\ ValidEntries(view[c].entries)

(* _matching_entry                                                           *)
Matching(c, h) ==
    /\ view[c].entries[h.id].status # Unrecorded
    /\ view[c].entries[h.id].reserved = h.reserved

(* Fault: a reservation is compared with the cap, not with what is left.     *)
MayReserveByCap(c, id, amount) ==
    /\ view[c].entries[id].status = Unrecorded
    /\ ~HasOverrun(view[c].entries)
    /\ amount <= view[c].cap

(* reserve() reaches its write.                                              *)
MayReserve(c, id, amount) ==
    /\ view[c].entries[id].status = Unrecorded
    /\ ~HasOverrun(view[c].entries)
    /\ amount <= Remaining(view[c].cap, view[c].entries)

(* Fault: a concluded reservation is concluded again by a second holder.     *)
MayConcludeAgain(c, h) == Matching(c, h)

(* reconcile() and release() reach their write.                              *)
MayConclude(c, h) ==
    /\ Matching(c, h)
    /\ view[c].entries[h.id].status = "reserved"

(* _timestamp(): whether now is not before the entry's created_at.           *)
ClockOrder == IF ClockMayStepBack THEN BOOLEAN ELSE {TRUE}

(* The ledgers the call of c may write: none when it returns or raises       *)
(* without writing.                                                          *)
Writes(c) ==
    LET old == view[c]
        k == call[c]
        put(id, e) == [old EXCEPT !.cap = CapOf[c], !.entries[id] = e]
    IN  CASE k.kind = "initialize" ->
               IF old.present THEN {} ELSE {NewLedger(CapOf[c])}
          [] k.kind = "reserve" ->
               IF Readable(c) /\ MayReserve(c, k.id, k.amount)
               THEN {put(k.id, ReservedEntry(k.amount))} ELSE {}
          [] k.kind = "reconcile" ->
               IF Readable(c) /\ MayConclude(c, k.handle)
               THEN {put(k.handle.id,
                         ReconciledEntry(old.entries[k.handle.id], k.actual, o)) :
                        o \in ClockOrder} ELSE {}
          [] k.kind = "release" ->
               IF Readable(c) /\ MayConclude(c, k.handle)
               THEN {put(k.handle.id,
                         ReleasedEntry(old.entries[k.handle.id], k.reason, o)) :
                        o \in ClockOrder} ELSE {}
          [] OTHER -> {}

(* The handle active_reservation() returns.                                  *)
Recovered(c) ==
    LET id == call[c].id
        e == view[c].entries[id]
    IN  IF call[c].kind = "active" /\ Readable(c) /\ e.status = "reserved"
        THEN {[id |-> id, reserved |-> e.reserved]} ELSE {}

-----------------------------------------------------------------------------
(* Calls end.                                                                *)

(* _locked: the lock is released and the call is over.                       *)
Finish(c, place) ==
    /\ holder' = NoClient
    /\ pc' = [pc EXCEPT ![c] = place]
    /\ call' = [call EXCEPT ![c] = NoCall]
    /\ view' = [view EXCEPT ![c] = NoLedger]

(* _write_state: a temporary file is written, synced and renamed over the    *)
(* ledger.                                                                   *)
Replace(c) ==
    /\ pc[c] = "locked"
    /\ ledger' \in Writes(c)
    /\ pc' = [pc EXCEPT ![c] = "replaced"]
    /\ UNCHANGED <<lockFile, holder, call, view, handles>>

(* Fault: the failed call leaves without unlocking.                          *)
WriteFailsLocked(c) ==
    /\ pc[c] = "locked"
    /\ Writes(c) # {}
    /\ pc' = [pc EXCEPT ![c] = Rest(c)]
    /\ call' = [call EXCEPT ![c] = NoCall]
    /\ view' = [view EXCEPT ![c] = NoLedger]
    /\ UNCHANGED <<lockFile, holder, ledger, handles>>

(* The temporary file cannot be written: the call raises, nothing changed.   *)
WriteFails(c) ==
    /\ pc[c] = "locked"
    /\ Writes(c) # {}
    /\ Finish(c, Rest(c))
    /\ UNCHANGED <<lockFile, ledger, handles>>

(* The call that wrote returns; reserve() hands out its reservation.         *)
Return(c) ==
    /\ pc[c] = "replaced"
    /\ handles' = IF call[c].kind = "reserve"
                  THEN [handles EXCEPT ![c] = @ \cup
                           {[id |-> call[c].id, reserved |-> call[c].amount]}]
                  ELSE handles
    /\ Finish(c, "ready")
    /\ UNCHANGED <<lockFile, ledger>>

(* The directory cannot be synced after the rename: the call raises although *)
(* the ledger has changed.                                                   *)
SyncFails(c) ==
    /\ pc[c] = "replaced"
    /\ Finish(c, Rest(c))
    /\ UNCHANGED <<lockFile, ledger, handles>>

(* A call without a write returns or raises: open_existing() becomes usable  *)
(* on a valid ledger with its cap, active_reservation() hands out a          *)
(* reservation another process may hold too, everything else is refused.     *)
ReturnUnchanged(c) ==
    /\ pc[c] = "locked"
    /\ Writes(c) = {}
    /\ handles' = [handles EXCEPT ![c] = @ \cup Recovered(c)]
    /\ Finish(c, IF call[c].kind = "open" /\ Readable(c) THEN "ready" ELSE Rest(c))
    /\ UNCHANGED <<lockFile, ledger>>

(* A process dies: the kernel drops its lock, its handles are gone, what it  *)
(* renamed stays.                                                            *)
Crash(c) ==
    /\ pc[c] # "closed"
    /\ holder' = IF holder = c THEN NoClient ELSE holder
    /\ pc' = [pc EXCEPT ![c] = "closed"]
    /\ call' = [call EXCEPT ![c] = NoCall]
    /\ view' = [view EXCEPT ![c] = NoLedger]
    /\ handles' = [handles EXCEPT ![c] = {}]
    /\ UNCHANGED <<lockFile, ledger>>

Step(c) ==
    \/ CreateLock(c) \/ Acquire(c) \/ Replace(c) \/ Return(c)
    \/ ReturnUnchanged(c)

Next ==
    \E c \in Client :
        \/ BeginInitialize(c) \/ BeginOpen(c) \/ Begin(c)
        \/ Step(c)
        \/ WriteFails(c) \/ SyncFails(c)
        \/ Crash(c)

Spec == Init /\ [][Next]_vars

(* A process that is not killed executes its call to the end, and the kernel *)
(* grants a contended lock to every waiter in its turn.                      *)
Fairness ==
    \A c \in Client : WF_vars(Step(c)) /\ SF_vars(Acquire(c))

FairSpec == Spec /\ Fairness

-----------------------------------------------------------------------------
(* Properties.                                                               *)

(* Every variable has its type.                                              *)
TypeOK ==
    /\ lockFile \in BOOLEAN
    /\ holder \in Client \cup {NoClient}
    /\ ledger \in Ledger
    /\ pc \in [Client -> Place]
    /\ call \in [Client -> Calls]
    /\ view \in [Client -> Ledger]
    /\ handles \in [Client -> SUBSET Handle]

(* What a request may have cost so far, never counting more than it          *)
(* reserved.                                                                 *)
Exposure(e) == IF Hold(e) > e.reserved THEN e.reserved ELSE Hold(e)

(* reserve(): however the calls of the processes interleave, and even after  *)
(* providers charged more than was reserved, the reservations that are       *)
(* active or were charged never add up to more than the cap.                 *)
ExposureWithinCap ==
    Total([id \in RequestId |-> Exposure(ledger.entries[id])]) <= ledger.cap

(* _snapshot: the ledger is over its cap only when some provider charged     *)
(* more than its reservation.                                                *)
OverCapOnlyByOverrun ==
    Committed(ledger.entries) > ledger.cap => HasOverrun(ledger.entries)

(* _write_state under _locked: no process's rename loses a reservation that  *)
(* was handed out to another, so a handle always finds its entry.            *)
HandlesDurable ==
    \A c \in Client : \A h \in handles[c] :
        /\ ledger.entries[h.id].status # Unrecorded
        /\ ledger.entries[h.id].reserved = h.reserved

(* active_reservation(): whatever a process did or failed to do, the file it *)
(* leaves behind passes the validation every later call starts with, so an   *)
(* active reservation can be recovered.                                      *)
ReservationsRecoverable ==
    (\E id \in RequestId : ledger.entries[id].status = "reserved")
        => ValidEntries(ledger.entries)

(* The ledger as its callers see it is one atomic account.                   *)
Account == INSTANCE CostAccount
    WITH opened <- ledger.present, limit <- ledger.cap, book <- ledger.entries

(* AtomicCostLedger implements the account: every rename is one legal atomic *)
(* operation on what the ledger then holds, and nothing else changes it.     *)
ImplementsAccount == Account!Spec

(* _locked: every call ends, whoever fails or dies while holding the lock.   *)
CallsEnd ==
    \A c \in Client : pc[c] = "waiting" ~> pc[c] \in {"closed", "ready"}
=============================================================================
