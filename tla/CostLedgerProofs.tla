-------------------------- MODULE CostLedgerProofs --------------------------
(* Proofs about the cost ledger, for every number of processes, requests,    *)
(* amounts and caps.                                                         *)
EXTENDS CostLedger, CostEntriesProofs, TLAPS

-----------------------------------------------------------------------------
(* The inductive invariant.                                                  *)

(* The lock is held exactly by the client inside its critical section.       *)
LockInv ==
    \A c \in Client : pc[c] \in {"locked", "replaced"} <=> holder = c

(* What a client read under the lock is still what the file holds.           *)
ViewInv ==
    \A c \in Client : pc[c] = "locked" => view[c] = ledger

(* An entry reserve(), reconcile() or release() can have written.            *)
LegalEntry(e) ==
    /\ e.status = Unrecorded => e = NoEntry
    /\ e.status # Unrecorded => e.reserved > 0
    /\ LifecycleOK(e)

(* Every entry is legal, and an absent ledger is empty.                        *)
EntriesInv ==
    /\ ~ledger.present => ledger = NoLedger
    /\ \A id \in RequestId : LegalEntry(ledger.entries[id])

(* A reserve() whose rename is done has its entry in the file.               *)
PromiseInv ==
    \A c \in Client :
        pc[c] = "replaced" /\ call[c].kind = "reserve" =>
            /\ ledger.entries[call[c].id].status # Unrecorded
            /\ ledger.entries[call[c].id].reserved = call[c].amount

LedgerInv ==
    /\ TypeOK
    /\ LockInv
    /\ ViewInv
    /\ EntriesInv
    /\ PromiseInv
    /\ HandlesDurable
    /\ ExposureWithinCap

(* The three ways a rename may change the file, on the file itself.          *)
Created(c, new) == ~ledger.present /\ new = NewLedger(CapOf[c])

Booked(id, amount, new) ==
    /\ ledger.present
    /\ ledger.entries[id] = NoEntry
    /\ ~HasOverrun(ledger.entries)
    /\ amount <= ledger.cap - Committed(ledger.entries)
    /\ new = [ledger EXCEPT !.entries[id] = ReservedEntry(amount)]

Concluded(id, new) ==
    /\ ledger.present
    /\ ledger.entries[id].status = "reserved"
    /\ \E o \in ClockOrder :
        \/ \E actual \in ActualCost \cup {Unknown} :
            new = [ledger EXCEPT !.entries[id] = ReconciledEntry(@, actual, o)]
        \/ \E reason \in ReleaseReason :
            new = [ledger EXCEPT !.entries[id] = ReleasedEntry(@, reason, o)]

(* Committed is a natural number: the held amounts are.                      *)
LEMMA CommittedType ==
    ASSUME NEW entries \in [RequestId -> Entry]
    PROVE  Held(entries) \in [RequestId -> Nat] /\ Committed(entries) \in Nat
<1>1. ASSUME NEW id \in RequestId PROVE Hold(entries[id]) \in Nat
  BY DEF Hold, Entry
<1>2. Held(entries) \in [RequestId -> Nat]
  BY <1>1 DEF Held
<1> QED BY <1>2, CoinsFinite DEF Committed

(* A write that can be issued under the lock is one of the three.            *)
LEMMA WriteCases ==
    ASSUME LedgerInv, NEW c \in Client, pc[c] = "locked", NEW new \in Writes(c)
    PROVE  \/ call[c].kind = "initialize" /\ Created(c, new)
           \/ /\ call[c].kind = "reserve"
              /\ call[c].id \in RequestId
              /\ call[c].amount \in Amount
              /\ Booked(call[c].id, call[c].amount, new)
           \/ /\ call[c].kind \notin {"reserve", "initialize"}
              /\ \E id \in RequestId : Concluded(id, new)
<1>1. view[c] = ledger /\ call[c] \in Calls /\ ledger \in Ledger
  BY DEF LedgerInv, ViewInv, TypeOK
<1>2. CASE call[c].kind = "initialize"
  BY <1>1, <1>2 DEF Writes, Created
<1>3. CASE call[c].kind = "reserve"
  <2>1. call[c].id \in RequestId /\ call[c].amount \in Amount
    BY <1>1, <1>3 DEF Calls
  <2>2. Readable(c) /\ MayReserve(c, call[c].id, call[c].amount)
    BY <1>3 DEF Writes
  <2>3. new = [ledger EXCEPT !.cap = CapOf[c],
                             !.entries[call[c].id] = ReservedEntry(call[c].amount)]
    BY <1>1, <1>3, <2>2 DEF Writes
  <2>4. ledger.cap = CapOf[c] /\ ledger.present
    BY <1>1, <2>2 DEF Readable
  <2>5. new = [ledger EXCEPT !.entries[call[c].id] = ReservedEntry(call[c].amount)]
    BY <1>1, <2>3, <2>4 DEF Ledger
  <2>6. ledger.entries[call[c].id] = NoEntry
    BY <1>1, <2>1, <2>2 DEF MayReserve, LedgerInv, EntriesInv, LegalEntry
  <2>7. call[c].amount <= ledger.cap - Committed(ledger.entries)
    <3>1. ledger.cap \in Nat /\ Committed(ledger.entries) \in Nat
      BY <1>1, CommittedType DEF Ledger
    <3>2. call[c].amount \in Nat /\ call[c].amount # 0
      BY <2>1, AmountAssumption
    <3>3. call[c].amount <= Remaining(ledger.cap, ledger.entries)
      BY <1>1, <2>2 DEF MayReserve
    <3> QED BY <3>1, <3>2, <3>3 DEF Remaining
  <2> QED BY <1>1, <1>3, <2>1, <2>2, <2>4, <2>5, <2>6, <2>7 DEF Booked, MayReserve
<1>4. CASE call[c].kind = "reconcile"
  <2>1. call[c].handle.id \in RequestId /\ call[c].actual \in ActualCost \cup {Unknown}
    BY <1>1, <1>4 DEF Calls, Handle
  <2>2. Readable(c) /\ MayConclude(c, call[c].handle)
    BY <1>4 DEF Writes
  <2>3. PICK o \in ClockOrder :
          new = [ledger EXCEPT !.cap = CapOf[c], !.entries[call[c].handle.id] =
                  ReconciledEntry(ledger.entries[call[c].handle.id], call[c].actual, o)]
    BY <1>1, <1>4, <2>2 DEF Writes
  <2>4. ledger.cap = CapOf[c] /\ ledger.present
    BY <1>1, <2>2 DEF Readable
  <2>5. new = [ledger EXCEPT !.entries[call[c].handle.id] =
                 ReconciledEntry(@, call[c].actual, o)]
    BY <1>1, <2>3, <2>4 DEF Ledger
  <2>6. ledger.entries[call[c].handle.id].status = "reserved"
    BY <1>1, <2>2 DEF MayConclude
  <2> QED BY <1>4, <2>1, <2>4, <2>5, <2>6 DEF Concluded
<1>5. CASE call[c].kind = "release"
  <2>1. call[c].handle.id \in RequestId /\ call[c].reason \in ReleaseReason
    BY <1>1, <1>5 DEF Calls, Handle
  <2>2. Readable(c) /\ MayConclude(c, call[c].handle)
    BY <1>5 DEF Writes
  <2>3. PICK o \in ClockOrder :
          new = [ledger EXCEPT !.cap = CapOf[c], !.entries[call[c].handle.id] =
                  ReleasedEntry(ledger.entries[call[c].handle.id], call[c].reason, o)]
    BY <1>1, <1>5, <2>2 DEF Writes
  <2>4. ledger.cap = CapOf[c] /\ ledger.present
    BY <1>1, <2>2 DEF Readable
  <2>5. new = [ledger EXCEPT !.entries[call[c].handle.id] =
                 ReleasedEntry(@, call[c].reason, o)]
    BY <1>1, <2>3, <2>4 DEF Ledger
  <2>6. ledger.entries[call[c].handle.id].status = "reserved"
    BY <1>1, <2>2 DEF MayConclude
  <2> QED BY <1>5, <2>1, <2>4, <2>5, <2>6 DEF Concluded
<1>6. CASE call[c].kind \notin {"initialize", "reserve", "reconcile", "release"}
  BY <1>6 DEF Writes
<1> QED BY <1>2, <1>3, <1>4, <1>5, <1>6

(* Concluding an active reservation gives a legal entry for the same         *)
(* reserved amount, whose exposure is not larger.                            *)
LEMMA ConcludedEntry ==
    ASSUME NEW e \in Entry, LegalEntry(e), e.status = "reserved",
           NEW n, NEW o \in BOOLEAN,
           \/ \E actual \in ActualCost \cup {Unknown} : n = ReconciledEntry(e, actual, o)
           \/ \E reason \in ReleaseReason : n = ReleasedEntry(e, reason, o)
    PROVE  /\ n \in Entry
           /\ LegalEntry(n)
           /\ n.status # Unrecorded
           /\ n.status # "reserved"
           /\ n.reserved = e.reserved
           /\ Exposure(n) <= Exposure(e)
<1>1. CASE \E actual \in ActualCost \cup {Unknown} : n = ReconciledEntry(e, actual, o)
  <2>1. PICK actual \in ActualCost \cup {Unknown} : n = ReconciledEntry(e, actual, o)
    BY <1>1
  <2>2. actual = Unknown \/ actual \in Nat
    BY ActualAssumption
  <2>3. /\ n.status = ReconciledStatus(e.reserved, actual)
        /\ n.actual = actual
        /\ n.accounted = AccountedCost(e.reserved, actual)
        /\ n.reserved = e.reserved
        /\ n.reason = e.reason
        /\ n.reason = NoReason
    BY <2>1 DEF ReconciledEntry, Entry, LegalEntry, LifecycleOK
  <2>4. n.status \in Terminal /\ n.accounted \in Nat
    BY <2>2, <2>3 DEF ReconciledStatus, AccountedCost, Terminal, Entry
  <2>5. n \in Entry
    BY <2>1, <2>2, <2>3, <2>4 DEF ReconciledEntry, Entry, EntryStatus
  <2>6. LifecycleOK(n)
    BY <2>2, <2>3 DEF LifecycleOK, ReconciledStatus, AccountedCost, Unknown, Entry
  <2>7. Exposure(n) <= Exposure(e)
    <3>1. Exposure(e) = e.reserved /\ e.reserved \in Nat
      BY DEF Exposure, Hold, LegalEntry, LifecycleOK, Entry
    <3>2. Exposure(n) <= n.reserved
      BY <2>5 DEF Exposure, Hold, Entry
    <3> QED BY <3>1, <3>2, <2>3
  <2> QED BY <2>3, <2>4, <2>5, <2>6, <2>7 DEF LegalEntry, Terminal, Unrecorded
<1>2. CASE \E reason \in ReleaseReason : n = ReleasedEntry(e, reason, o)
  <2>1. PICK reason \in ReleaseReason : n = ReleasedEntry(e, reason, o)
    BY <1>2
  <2>2. /\ n.status = "released"
        /\ n.actual = Unknown
        /\ n.accounted = 0
        /\ n.reserved = e.reserved
        /\ n.reason = reason
    BY <2>1 DEF ReleasedEntry, Entry, LegalEntry, LifecycleOK
  <2>3. n \in Entry
    BY <2>1, <2>2 DEF ReleasedEntry, Entry, EntryStatus, Terminal
  <2>4. LifecycleOK(n)
    BY <2>2 DEF LifecycleOK, ReleaseReason, NoReason
  <2>5. Exposure(n) <= Exposure(e)
    BY <2>2, <2>3 DEF Exposure, Hold, Entry, LegalEntry, LifecycleOK
  <2> QED BY <2>2, <2>3, <2>4, <2>5 DEF LegalEntry, Unrecorded
<1> QED BY <1>1, <1>2

(* What every rename leaves behind: a well-typed file of legal entries that  *)
(* forgets no request and never changes what a request reserved.             *)
Keeps(new) ==
    /\ new \in Ledger
    /\ new.present
    /\ \A id \in RequestId :
        /\ LegalEntry(new.entries[id])
        /\ ledger.entries[id].status # Unrecorded =>
            /\ new.entries[id].status # Unrecorded
            /\ new.entries[id].reserved = ledger.entries[id].reserved

(* A newly created ledger keeps everything: there was nothing.               *)
LEMMA CreatedKeeps ==
    ASSUME LedgerInv, NEW c \in Client, NEW new, Created(c, new)
    PROVE  Keeps(new)
<1>1. ledger = NoLedger
  BY DEF LedgerInv, EntriesInv, Created
<1>2. CapOf[c] \in Nat
  BY CapAssumption
<1>3. NoEntry \in Entry /\ LegalEntry(NoEntry)
  BY DEF NoEntry, Entry, EntryStatus, Terminal, Unrecorded, Unknown, NoReason,
         LegalEntry, LifecycleOK
<1> QED BY <1>1, <1>2, <1>3
     DEF Created, Keeps, NewLedger, NoLedger, Ledger, NoEntries, NoEntry

(* A reservation keeps everything, and is recorded itself.                   *)
LEMMA BookedKeeps ==
    ASSUME LedgerInv, NEW r \in RequestId, NEW amount \in Amount, NEW new,
           Booked(r, amount, new)
    PROVE  /\ Keeps(new)
           /\ new.entries[r].status # Unrecorded
           /\ new.entries[r].reserved = amount
<1>1. ledger \in Ledger /\ EntriesInv
  BY DEF LedgerInv, TypeOK
<1>2. amount \in Nat /\ amount # 0
  BY AmountAssumption
<1>3. /\ ReservedEntry(amount) \in Entry
      /\ LifecycleOK(ReservedEntry(amount))
      /\ ReservedEntry(amount).status = "reserved"
      /\ ReservedEntry(amount).reserved = amount
  BY <1>2 DEF ReservedEntry, NoEntry, Entry, LifecycleOK, EntryStatus,
              Terminal, Unrecorded, Unknown, NoReason
<1>4. LegalEntry(ReservedEntry(amount))
  BY <1>2, <1>3 DEF LegalEntry, Unrecorded
<1>5. ledger.entries[r].status = Unrecorded
  BY DEF Booked, NoEntry
<1> QED BY <1>1, <1>3, <1>4, <1>5 DEF Booked, Keeps, Ledger, EntriesInv, Unrecorded

(* So does a conclusion.                                                     *)
LEMMA ConcludedKeeps ==
    ASSUME LedgerInv, NEW r \in RequestId, NEW new, Concluded(r, new)
    PROVE  Keeps(new) /\ Exposure(new.entries[r]) <= Exposure(ledger.entries[r])
<1>1. ledger \in Ledger /\ EntriesInv
  BY DEF LedgerInv, TypeOK
<1>2. ledger.entries[r] \in Entry /\ LegalEntry(ledger.entries[r])
  BY <1>1 DEF Ledger, EntriesInv
<1>3. PICK n : \E o \in BOOLEAN :
        /\ \/ \E actual \in ActualCost \cup {Unknown} :
                 n = ReconciledEntry(ledger.entries[r], actual, o)
           \/ \E reason \in ReleaseReason : n = ReleasedEntry(ledger.entries[r], reason, o)
        /\ new = [ledger EXCEPT !.entries[r] = n]
  BY <1>1, ClockAssumption DEF Concluded, ClockOrder, Ledger
<1>4. /\ n \in Entry /\ LegalEntry(n) /\ n.status # Unrecorded
      /\ n.reserved = ledger.entries[r].reserved
      /\ Exposure(n) <= Exposure(ledger.entries[r])
  BY <1>2, <1>3, ConcludedEntry DEF Concluded
<1> QED BY <1>1, <1>3, <1>4 DEF Concluded, Keeps, Ledger, EntriesInv

(* The exposure of a ledger, as one function over the requests.              *)
Exposures(entries) == [id \in RequestId |-> Exposure(entries[id])]

(* Every exposure, and so the total, is a natural number.                    *)
LEMMA ExposuresType ==
    ASSUME NEW entries \in [RequestId -> Entry]
    PROVE  Exposures(entries) \in [RequestId -> Nat]
<1>1. ASSUME NEW id \in RequestId PROVE Exposure(entries[id]) \in Nat
  BY DEF Exposure, Hold, Entry
<1> QED BY <1>1 DEF Exposures

(* Without an overrun every entry holds at most what it reserved, so the     *)
(* exposure is all that is committed.                                        *)
LEMMA ExposureIsCommitted ==
    ASSUME NEW entries \in [RequestId -> Entry],
           \A id \in RequestId : LegalEntry(entries[id]),
           ~HasOverrun(entries)
    PROVE  Committed(entries) = Total(Exposures(entries))
<1>1. ASSUME NEW id \in RequestId
      PROVE  Exposure(entries[id]) = Hold(entries[id])
  <2>1. LegalEntry(entries[id]) /\ entries[id].status # "reservation_overrun"
    BY DEF HasOverrun
  <2>2. entries[id] \in Entry
    OBVIOUS
  <2> QED BY <2>1, <2>2
       DEF Exposure, Hold, LegalEntry, LifecycleOK, Entry, EntryStatus, Terminal,
           NoEntry, Unrecorded
<1>2. Exposures(entries) = Held(entries)
  BY <1>1 DEF Exposures, Held
<1> QED BY <1>2 DEF Committed

(* No rename takes the exposure above the cap.                               *)
LEMMA WriteKeepsExposure ==
    ASSUME LedgerInv, NEW c \in Client, pc[c] = "locked", NEW new \in Writes(c)
    PROVE  /\ Keeps(new)
           /\ Total(Exposures(new.entries)) <= new.cap
           /\ call[c].kind = "reserve" =>
                /\ new.entries[call[c].id].status # Unrecorded
                /\ new.entries[call[c].id].reserved = call[c].amount
<1>1. /\ ledger \in Ledger
      /\ ledger.cap \in Nat
      /\ ledger.entries \in [RequestId -> Entry]
      /\ \A id \in RequestId : LegalEntry(ledger.entries[id])
      /\ Total(Exposures(ledger.entries)) <= ledger.cap
  BY DEF LedgerInv, TypeOK, Ledger, EntriesInv, ExposureWithinCap, Exposures
<1>2. CASE call[c].kind = "initialize" /\ Created(c, new)
  <2>1. Keeps(new)
    BY <1>2, CreatedKeeps
  <2>2. \A id \in RequestId : Exposures(new.entries)[id] = 0
    BY <1>2 DEF Created, NewLedger, NoEntries, NoEntry, Exposures, Exposure, Hold, Unrecorded
  <2>3. Exposures(new.entries) \in [RequestId -> Nat]
    BY <2>1, ExposuresType DEF Keeps, Ledger
  <2>4. Total(Exposures(new.entries)) = 0
    BY <2>2, <2>3, TotalZero
  <2>5. new.cap \in Nat
    BY <2>1 DEF Keeps, Ledger
  <2> QED BY <1>2, <2>1, <2>4, <2>5
<1>3. CASE /\ call[c].kind = "reserve"
           /\ call[c].id \in RequestId
           /\ call[c].amount \in Amount
           /\ Booked(call[c].id, call[c].amount, new)
  <2> DEFINE r == call[c].id
             amount == call[c].amount
  <2>1. /\ Keeps(new)
        /\ new.entries[r].status # Unrecorded
        /\ new.entries[r].reserved = amount
    BY <1>3, BookedKeeps
  <2>2. /\ new.cap = ledger.cap
        /\ new.entries \in [RequestId -> Entry]
        /\ new.entries[r] = ReservedEntry(amount)
        /\ \A id \in RequestId \ {r} : new.entries[id] = ledger.entries[id]
    BY <1>1, <1>3, <2>1 DEF Booked, Ledger, Keeps
  <2>3. amount \in Nat
    BY <1>3, AmountAssumption
  <2>4. Exposure(new.entries[r]) = amount /\ Exposure(ledger.entries[r]) = 0
    BY <1>3, <2>2, <2>3 DEF Booked, ReservedEntry, NoEntry, Exposure, Hold, Unrecorded
  <2>5. Total(Exposures(new.entries)) = Total(Exposures(ledger.entries)) + amount
    <3>1. /\ Exposures(ledger.entries) \in [RequestId -> Nat]
          /\ Exposures(new.entries) \in [RequestId -> Nat]
      BY <1>1, <2>2, ExposuresType
    <3>2. /\ Exposures(ledger.entries)[r] = 0
          /\ Exposures(new.entries)[r] = amount
          /\ \A id \in RequestId \ {r} :
                Exposures(new.entries)[id] = Exposures(ledger.entries)[id]
      BY <1>3, <2>2, <2>4 DEF Exposures
    <3>3. r \in RequestId
      BY <1>3
    <3> HIDE DEF r, amount
    <3> QED BY <3>1, <3>2, <3>3, TotalRaise
  <2>6. Committed(ledger.entries) = Total(Exposures(ledger.entries))
    BY <1>1, <1>3, ExposureIsCommitted DEF Booked
  <2>7. amount <= ledger.cap - Committed(ledger.entries)
    BY <1>3 DEF Booked
  <2>8. Committed(ledger.entries) \in Nat
    BY <1>1, CommittedType
  <2> QED BY <1>1, <1>3, <2>1, <2>2, <2>3, <2>5, <2>6, <2>7, <2>8
<1>4. CASE /\ call[c].kind \notin {"reserve", "initialize"}
           /\ \E id \in RequestId : Concluded(id, new)
  <2>1. PICK r \in RequestId : Concluded(r, new)
    BY <1>4
  <2>2. Keeps(new) /\ Exposure(new.entries[r]) <= Exposure(ledger.entries[r])
    BY <2>1, ConcludedKeeps
  <2>3. /\ new.cap = ledger.cap
        /\ new.entries \in [RequestId -> Entry]
        /\ \A id \in RequestId \ {r} : new.entries[id] = ledger.entries[id]
    BY <1>1, <2>1, <2>2 DEF Concluded, Ledger, Keeps
  <2>4. /\ Exposures(ledger.entries) \in [RequestId -> Nat]
        /\ Exposures(new.entries) \in [RequestId -> Nat]
    BY <1>1, <2>3, ExposuresType
  <2>5. \A id \in RequestId :
          Exposures(new.entries)[id] <= Exposures(ledger.entries)[id]
    <3>1. SUFFICES ASSUME NEW id \in RequestId
                   PROVE  Exposures(new.entries)[id] <= Exposures(ledger.entries)[id]
      OBVIOUS
    <3>2. CASE id = r
      BY <2>2, <3>2 DEF Exposures
    <3>3. CASE id # r
      <4>1. Exposures(new.entries)[id] = Exposures(ledger.entries)[id]
        BY <2>3, <3>3 DEF Exposures
      <4>2. Exposures(ledger.entries)[id] \in Nat
        BY <2>4
      <4> QED BY <4>1, <4>2
    <3> QED BY <3>2, <3>3
  <2>6. Total(Exposures(new.entries)) <= Total(Exposures(ledger.entries))
    BY <2>4, <2>5, TotalMonotone
  <2>7. /\ Total(Exposures(new.entries)) \in Nat
        /\ Total(Exposures(ledger.entries)) \in Nat
    BY <2>4, CoinsFinite
  <2> QED BY <1>1, <1>4, <2>2, <2>3, <2>6, <2>7
<1> QED BY <1>2, <1>3, <1>4, WriteCases

-----------------------------------------------------------------------------
(* The invariant is inductive.                                               *)

(* The initial state: no files, no process has opened the ledger.            *)
LEMMA InitLedgerInv == Init => LedgerInv
<1> SUFFICES ASSUME Init PROVE LedgerInv
  OBVIOUS
<1>1. NoEntry \in Entry /\ LegalEntry(NoEntry)
  BY DEF NoEntry, Entry, EntryStatus, Terminal, Unrecorded, Unknown, NoReason,
         LegalEntry, LifecycleOK
<1>2. NoLedger \in Ledger /\ NoCall \in Calls
  BY <1>1 DEF NoLedger, Ledger, NoEntries, NoCall, Calls
<1>3. TypeOK
  BY <1>2 DEF Init, TypeOK, Place
<1>4. LockInv /\ ViewInv /\ PromiseInv /\ HandlesDurable
  BY ClientAssumption DEF Init, LockInv, ViewInv, PromiseInv, HandlesDurable
<1>5. EntriesInv
  BY <1>1 DEF Init, EntriesInv, NoLedger, NoEntries
<1>6. ExposureWithinCap
  <2>1. \A id \in RequestId : Exposures(ledger.entries)[id] = 0
    BY DEF Init, NoLedger, NoEntries, NoEntry, Exposures, Exposure, Hold, Unrecorded
  <2>2. Exposures(ledger.entries) \in [RequestId -> Nat]
    BY <2>1 DEF Exposures
  <2>3. Total(Exposures(ledger.entries)) = 0 /\ ledger.cap = 0
    BY <2>1, <2>2, TotalZero DEF Init, NoLedger
  <2> QED BY <2>3 DEF ExposureWithinCap, Exposures
<1> QED BY <1>3, <1>4, <1>5, <1>6 DEF LedgerInv

(* Facts about the file are kept by every step that leaves the file alone.   *)
LEMMA SameFile ==
    ASSUME LedgerInv, UNCHANGED ledger
    PROVE  EntriesInv' /\ ExposureWithinCap'
  BY DEF LedgerInv, EntriesInv, ExposureWithinCap, Exposure

(* Before a call has the lock it only moves its own client.                  *)
LEMMA BeginKeepsInv ==
    ASSUME LedgerInv, NEW c \in Client,
           BeginInitialize(c) \/ CreateLock(c) \/ BeginOpen(c) \/ Begin(c)
    PROVE  LedgerInv'
<1> USE DEF LedgerInv
<1>1. UNCHANGED <<holder, ledger, view, handles>>
  BY DEF BeginInitialize, CreateLock, BeginOpen, Begin
<1>2. /\ pc[c] \in {"closed", "creating", "ready"}
      /\ \E place \in {"closed", "creating", "waiting"} : pc' = [pc EXCEPT ![c] = place]
  BY DEF BeginInitialize, CreateLock, BeginOpen, Begin
<1>3. \E k \in Calls : call' = [call EXCEPT ![c] = k]
  <2>1. CASE BeginInitialize(c)
    BY <2>1 DEF BeginInitialize, Calls
  <2>2. CASE CreateLock(c)
    <3>1. call[c] \in Calls /\ NoCall \in Calls /\ call = [call EXCEPT ![c] = call[c]]
      BY DEF TypeOK, NoCall, Calls
    <3> QED BY <2>2, <3>1 DEF CreateLock
  <2>3. CASE BeginOpen(c)
    BY <2>3 DEF BeginOpen, Calls
  <2>4. CASE Begin(c)
    <3>1. handles[c] \subseteq Handle
      BY DEF TypeOK
    <3> QED BY <2>4, <3>1 DEF Begin, Calls
  <2> QED BY <2>1, <2>2, <2>3, <2>4
<1>4. lockFile' \in BOOLEAN
  BY DEF BeginInitialize, CreateLock, BeginOpen, Begin, TypeOK
<1>5. TypeOK'
  BY <1>1, <1>2, <1>3, <1>4 DEF TypeOK, Place
<1>6. LockInv' /\ ViewInv' /\ HandlesDurable'
  BY <1>1, <1>2 DEF TypeOK, LockInv, ViewInv, HandlesDurable
<1>7. PromiseInv'
  BY <1>1, <1>2, <1>3 DEF TypeOK, PromiseInv
<1> QED BY <1>1, <1>5, <1>6, <1>7, SameFile

(* Taking the lock gives a fresh view.                                       *)
LEMMA AcquireKeepsInv ==
    ASSUME LedgerInv, NEW c \in Client, Acquire(c)
    PROVE  LedgerInv'
<1> USE DEF LedgerInv, Acquire
<1>1. TypeOK'
  BY DEF TypeOK, Place
<1>2. LockInv'
  BY ClientAssumption DEF TypeOK, LockInv
<1>3. ViewInv' /\ HandlesDurable'
  BY DEF TypeOK, ViewInv, HandlesDurable
<1>4. PromiseInv'
  BY DEF TypeOK, PromiseInv
<1> QED BY <1>1, <1>2, <1>3, <1>4, SameFile

(* The rename: no other client is in its critical section, so no view        *)
(* becomes stale, and every handle still finds its entry.                    *)
LEMMA ReplaceKeepsInv ==
    ASSUME LedgerInv, NEW c \in Client, Replace(c)
    PROVE  LedgerInv'
<1> USE DEF Replace
<1>1. /\ Keeps(ledger')
      /\ Total(Exposures(ledger'.entries)) <= ledger'.cap
      /\ call[c].kind = "reserve" =>
            /\ ledger'.entries[call[c].id].status # Unrecorded
            /\ ledger'.entries[call[c].id].reserved = call[c].amount
  BY WriteKeepsExposure
<1>2. TypeOK'
  BY <1>1 DEF LedgerInv, TypeOK, Place, Keeps
<1>3. holder = c /\ \A d \in Client \ {c} : pc'[d] \notin {"locked", "replaced"}
  BY DEF LedgerInv, TypeOK, LockInv
<1>4. LockInv'
  BY DEF LedgerInv, TypeOK, LockInv
<1>5. ViewInv'
  BY <1>3 DEF LedgerInv, TypeOK, ViewInv
<1>6. EntriesInv'
  BY <1>1 DEF EntriesInv, Keeps
<1>7. PromiseInv'
  BY <1>1, <1>3 DEF LedgerInv, TypeOK, PromiseInv
<1>8. HandlesDurable'
  <2>1. SUFFICES ASSUME NEW d \in Client, NEW h \in handles[d]
                 PROVE  /\ ledger'.entries[h.id].status # Unrecorded
                        /\ ledger'.entries[h.id].reserved = h.reserved
    BY DEF HandlesDurable
  <2>2. h.id \in RequestId
    BY DEF LedgerInv, TypeOK, Handle
  <2> QED BY <1>1, <2>2 DEF LedgerInv, HandlesDurable, Keeps
<1>9. ExposureWithinCap'
  BY <1>1 DEF ExposureWithinCap, Exposures, Exposure
<1> QED BY <1>2, <1>4, <1>5, <1>6, <1>7, <1>8, <1>9 DEF LedgerInv

(* Leaving the critical section hands out only handles of recorded entries.  *)
LEMMA FinishKeepsInv ==
    ASSUME LedgerInv, NEW c \in Client, NEW place \in {"closed", "ready"},
           pc[c] \in {"locked", "replaced"}, Finish(c, place),
           UNCHANGED <<lockFile, ledger>>,
           NEW H \in SUBSET Handle, handles' = [handles EXCEPT ![c] = @ \cup H],
           \A h \in H : /\ ledger.entries[h.id].status # Unrecorded
                        /\ ledger.entries[h.id].reserved = h.reserved
    PROVE  LedgerInv'
<1> USE DEF LedgerInv, Finish
<1>1. NoLedger \in Ledger /\ NoCall \in Calls
  <2>1. NoEntry \in Entry
    BY DEF NoEntry, Entry, EntryStatus, Terminal, Unrecorded, Unknown, NoReason
  <2> QED BY <2>1 DEF NoLedger, Ledger, NoEntries, NoCall, Calls
<1>2. TypeOK'
  BY <1>1 DEF TypeOK, Place
<1>3. LockInv'
  BY ClientAssumption DEF TypeOK, LockInv
<1>4. ViewInv'
  BY DEF TypeOK, ViewInv
<1>5. PromiseInv'
  BY DEF TypeOK, PromiseInv
<1>6. HandlesDurable'
  BY DEF TypeOK, HandlesDurable
<1> QED BY <1>2, <1>3, <1>4, <1>5, <1>6, SameFile

(* The calls that end with or without a rename, and the failing ones.        *)
LEMMA EndKeepsInv ==
    ASSUME LedgerInv, NEW c \in Client,
           WriteFails(c) \/ Return(c) \/ SyncFails(c) \/ ReturnUnchanged(c)
    PROVE  LedgerInv'
<1>1. Rest(c) \in {"closed", "ready"}
  BY DEF Rest
<1>2. handles = [handles EXCEPT ![c] = @ \cup {}] /\ handles \in [Client -> SUBSET Handle]
  BY DEF LedgerInv, TypeOK
<1>3. CASE WriteFails(c) \/ SyncFails(c)
  <2>1. /\ pc[c] \in {"locked", "replaced"}
        /\ Finish(c, Rest(c))
        /\ UNCHANGED <<lockFile, ledger>>
        /\ handles' = [handles EXCEPT ![c] = @ \cup {}]
    BY <1>2, <1>3 DEF WriteFails, SyncFails
  <2>2. /\ {} \in SUBSET Handle
        /\ \A h \in {} : /\ ledger.entries[h.id].status # Unrecorded
                         /\ ledger.entries[h.id].reserved = h.reserved
    OBVIOUS
  <2> QED BY <1>1, <2>1, <2>2, FinishKeepsInv
<1>4. CASE Return(c)
  <2>1. CASE call[c].kind = "reserve"
    <3> DEFINE h == [id |-> call[c].id, reserved |-> call[c].amount]
    <3>1. h \in Handle
      <4>1. call[c].id \in RequestId /\ call[c].amount \in Amount
        BY <2>1 DEF LedgerInv, TypeOK, Calls
      <4> QED BY <4>1, AmountAssumption DEF Handle
    <3>2. /\ ledger.entries[h.id].status # Unrecorded
          /\ ledger.entries[h.id].reserved = h.reserved
      BY <1>4, <2>1 DEF Return, LedgerInv, PromiseInv
    <3>3. /\ {h} \in SUBSET Handle
          /\ handles' = [handles EXCEPT ![c] = @ \cup {h}]
      BY <1>4, <2>1, <3>1 DEF Return
    <3>4. /\ pc[c] \in {"locked", "replaced"}
          /\ Finish(c, "ready")
          /\ UNCHANGED <<lockFile, ledger>>
      BY <1>4 DEF Return
    <3>5. \A x \in {h} : /\ ledger.entries[x.id].status # Unrecorded
                         /\ ledger.entries[x.id].reserved = x.reserved
      BY <3>2
    <3> HIDE DEF h
    <3> QED BY <3>3, <3>4, <3>5, FinishKeepsInv
  <2>2. CASE call[c].kind # "reserve"
    <3>1. /\ pc[c] \in {"locked", "replaced"}
          /\ Finish(c, "ready")
          /\ UNCHANGED <<lockFile, ledger>>
          /\ handles' = [handles EXCEPT ![c] = @ \cup {}]
      BY <1>2, <1>4, <2>2 DEF Return
    <3>2. /\ {} \in SUBSET Handle
          /\ \A h \in {} : /\ ledger.entries[h.id].status # Unrecorded
                           /\ ledger.entries[h.id].reserved = h.reserved
      OBVIOUS
    <3> QED BY <3>1, <3>2, FinishKeepsInv
  <2> QED BY <2>1, <2>2
<1>5. CASE ReturnUnchanged(c)
  <2>1. \A h \in Recovered(c) :
          /\ h \in Handle
          /\ ledger.entries[h.id].status # Unrecorded
          /\ ledger.entries[h.id].reserved = h.reserved
    <3>1. SUFFICES ASSUME NEW h \in Recovered(c)
                   PROVE  /\ h \in Handle
                          /\ ledger.entries[h.id].status # Unrecorded
                          /\ ledger.entries[h.id].reserved = h.reserved
      OBVIOUS
    <3>2. /\ call[c].kind = "active"
          /\ view[c].entries[call[c].id].status = "reserved"
          /\ h = [id |-> call[c].id, reserved |-> view[c].entries[call[c].id].reserved]
      BY DEF Recovered
    <3>3. call[c].id \in RequestId
      BY <3>2 DEF LedgerInv, TypeOK, Calls
    <3>4. view[c] = ledger /\ ledger \in Ledger
      BY <1>5 DEF ReturnUnchanged, LedgerInv, ViewInv, TypeOK
    <3>5. ledger.entries[call[c].id] \in Entry
      BY <3>3, <3>4 DEF Ledger
    <3> QED BY <3>2, <3>3, <3>4, <3>5 DEF Handle, Entry, Unrecorded
  <2>2. Recovered(c) \in SUBSET Handle
    BY <2>1
  <2> QED BY <1>1, <1>5, <2>1, <2>2, FinishKeepsInv DEF ReturnUnchanged
<1> QED BY <1>3, <1>4, <1>5

(* A dying process gives up its lock and its handles, and nothing else.      *)
LEMMA CrashKeepsInv ==
    ASSUME LedgerInv, NEW c \in Client, Crash(c)
    PROVE  LedgerInv'
<1> USE DEF LedgerInv, Crash
<1>1. NoLedger \in Ledger /\ NoCall \in Calls
  <2>1. NoEntry \in Entry
    BY DEF NoEntry, Entry, EntryStatus, Terminal, Unrecorded, Unknown, NoReason
  <2> QED BY <2>1 DEF NoLedger, Ledger, NoEntries, NoCall, Calls
<1>2. TypeOK'
  BY <1>1 DEF TypeOK, Place
<1>3. LockInv'
  BY ClientAssumption DEF TypeOK, LockInv
<1>4. ViewInv'
  BY DEF TypeOK, ViewInv
<1>5. PromiseInv'
  BY DEF TypeOK, PromiseInv
<1>6. HandlesDurable'
  BY DEF TypeOK, HandlesDurable
<1> QED BY <1>2, <1>3, <1>4, <1>5, <1>6, SameFile

(* The invariant holds in every reachable state of the ledger.               *)
THEOREM LedgerInvariant == Spec => []LedgerInv
<1>1. Init => LedgerInv
  BY InitLedgerInv
<1>2. LedgerInv /\ [Next]_vars => LedgerInv'
  <2>1. SUFFICES ASSUME LedgerInv, [Next]_vars PROVE LedgerInv'
    OBVIOUS
  <2>2. CASE UNCHANGED vars
    BY <2>1, <2>2 DEF vars, LedgerInv, TypeOK, LockInv, ViewInv, EntriesInv, PromiseInv,
                 HandlesDurable, ExposureWithinCap, Exposure
  <2>3. ASSUME NEW c \in Client,
               BeginInitialize(c) \/ CreateLock(c) \/ BeginOpen(c) \/ Begin(c)
        PROVE  LedgerInv'
    BY <2>1, <2>3, BeginKeepsInv
  <2>4. ASSUME NEW c \in Client, Acquire(c) PROVE LedgerInv'
    BY <2>1, <2>4, AcquireKeepsInv
  <2>5. ASSUME NEW c \in Client, Replace(c) PROVE LedgerInv'
    BY <2>1, <2>5, ReplaceKeepsInv
  <2>6. ASSUME NEW c \in Client,
               WriteFails(c) \/ Return(c) \/ SyncFails(c) \/ ReturnUnchanged(c)
        PROVE  LedgerInv'
    BY <2>1, <2>6, EndKeepsInv
  <2>7. ASSUME NEW c \in Client, Crash(c) PROVE LedgerInv'
    BY <2>1, <2>7, CrashKeepsInv
  <2> QED BY <2>1, <2>2, <2>3, <2>4, <2>5, <2>6, <2>7 DEF Next, Step
<1> QED BY <1>1, <1>2, PTL DEF Spec

-----------------------------------------------------------------------------
(* What the runs check on small instances, for every instance.               *)

(* Every variable of the ledger has its type.                                *)
THEOREM TypeCorrect == Spec => []TypeOK
  BY LedgerInvariant, PTL DEF LedgerInv

(* reserve(): the reservations that are active or were charged never add up  *)
(* to more than the cap, for any number of processes and any crashes.        *)
THEOREM CapIsRespected == Spec => []ExposureWithinCap
  BY LedgerInvariant, PTL DEF LedgerInv

(* No rename loses a reservation that was handed out.                        *)
THEOREM HandlesAreDurable == Spec => []HandlesDurable
  BY LedgerInvariant, PTL DEF LedgerInv

(* _snapshot reports over_cap only after a provider charged more than its    *)
(* reservation.                                                              *)
THEOREM OverCapNeedsOverrun == Spec => []OverCapOnlyByOverrun
<1>1. LedgerInv => OverCapOnlyByOverrun
  <2>1. SUFFICES ASSUME LedgerInv, ~HasOverrun(ledger.entries)
                 PROVE  ~(Committed(ledger.entries) > ledger.cap)
    BY DEF OverCapOnlyByOverrun
  <2>2. /\ ledger.cap \in Nat
        /\ ledger.entries \in [RequestId -> Entry]
        /\ \A id \in RequestId : LegalEntry(ledger.entries[id])
        /\ Total(Exposures(ledger.entries)) <= ledger.cap
    BY <2>1 DEF LedgerInv, TypeOK, Ledger, EntriesInv, ExposureWithinCap, Exposures
  <2>3. Committed(ledger.entries) = Total(Exposures(ledger.entries))
    BY <2>1, <2>2, ExposureIsCommitted
  <2>4. Committed(ledger.entries) \in Nat
    BY <2>2, CommittedType
  <2> QED BY <2>2, <2>3, <2>4
<1> QED BY <1>1, LedgerInvariant, PTL

(* Every entry was last written no earlier than it was created.              *)
OrderInv == \A id \in RequestId : ledger.entries[id].ordered = TRUE

(* A clock that is never set back keeps every entry in order.                *)
LEMMA OrderKept ==
    ASSUME LedgerInv, OrderInv, ~ClockMayStepBack, [Next]_vars
    PROVE  OrderInv'
<1>1. CASE ledger' = ledger
  BY <1>1 DEF OrderInv
<1>2. ASSUME NEW c \in Client, Replace(c) PROVE OrderInv'
  <2>1. pc[c] = "locked" /\ ledger' \in Writes(c)
    BY <1>2 DEF Replace
  <2>2. PICK new \in Writes(c) : new = ledger'
    BY <2>1
  <2>3. ledger \in Ledger /\ \A id \in RequestId : ledger.entries[id] \in Entry
    BY DEF LedgerInv, TypeOK, Ledger
  <2>4. CASE Created(c, new)
    BY <2>2, <2>4 DEF Created, NewLedger, NoEntries, NoEntry, OrderInv
  <2>5. ASSUME NEW r \in RequestId, NEW amount \in Amount, Booked(r, amount, new)
        PROVE  OrderInv'
    <3>1. new = [ledger EXCEPT !.entries[r] = ReservedEntry(amount)]
          /\ ReservedEntry(amount).ordered = TRUE
      BY <2>5 DEF Booked, ReservedEntry, NoEntry
    <3> HIDE DEF ReservedEntry
    <3> QED BY <2>2, <2>3, <3>1 DEF OrderInv, Ledger
  <2>6. ASSUME NEW r \in RequestId, Concluded(r, new) PROVE OrderInv'
    <3>1. PICK n :
            /\ \/ \E actual \in ActualCost \cup {Unknown} :
                     n = ReconciledEntry(ledger.entries[r], actual, TRUE)
               \/ \E reason \in ReleaseReason :
                     n = ReleasedEntry(ledger.entries[r], reason, TRUE)
            /\ new = [ledger EXCEPT !.entries[r] = n]
      BY <2>3, <2>6 DEF Concluded, ClockOrder, Ledger
    <3>2. n.ordered = TRUE
      BY <2>3, <3>1 DEF ReconciledEntry, ReleasedEntry, Entry
    <3> QED BY <2>2, <2>3, <3>1, <3>2 DEF OrderInv, Ledger
  <2> QED BY <2>1, <2>4, <2>5, <2>6, WriteCases
<1>3. ASSUME NEW c \in Client,
             \/ BeginInitialize(c) \/ BeginOpen(c) \/ Begin(c) \/ CreateLock(c) \/ Acquire(c)
             \/ Return(c) \/ ReturnUnchanged(c) \/ WriteFails(c) \/ SyncFails(c) \/ Crash(c)
      PROVE  ledger' = ledger
  BY <1>3 DEF BeginInitialize, BeginOpen, Begin, CreateLock, Acquire, Return,
     ReturnUnchanged, WriteFails, SyncFails, Crash
<1> QED BY <1>1, <1>2, <1>3 DEF Next, Step, vars

(* active_reservation(): as long as the wall clock is never set back between *)
(* two calls, every file any process leaves behind passes the validation     *)
(* that every later call starts with.                                        *)
THEOREM ReservationsAreRecoverable ==
    ~ClockMayStepBack => (Spec => []ReservationsRecoverable)
<1> SUFFICES ASSUME ~ClockMayStepBack PROVE Spec => []ReservationsRecoverable
  OBVIOUS
<1>1. Init => OrderInv
  BY DEF Init, OrderInv, NoLedger, NoEntries, NoEntry
<1>2. LedgerInv /\ OrderInv /\ [Next]_vars => OrderInv'
  BY OrderKept
<1>3. LedgerInv /\ OrderInv => ReservationsRecoverable
  BY DEF LedgerInv, EntriesInv, LegalEntry, OrderInv, ReservationsRecoverable, ValidEntries,
     Recorded
<1> QED BY <1>1, <1>2, <1>3, LedgerInvariant, PTL DEF Spec

(* The account uses the ledger's own vocabulary.                             *)
LEMMA SameVocabulary ==
    /\ Account!NoEntries = NoEntries
    /\ Account!NoEntry = NoEntry
    /\ Account!Unknown = Unknown
    /\ Account!ReleaseReason = ReleaseReason
    /\ \A amount : Account!ReservedEntry(amount) = ReservedEntry(amount)
    /\ \A e, actual, o : Account!ReconciledEntry(e, actual, o) = ReconciledEntry(e, actual, o)
    /\ \A e, reason, o : Account!ReleasedEntry(e, reason, o) = ReleasedEntry(e, reason, o)
    /\ \A entries : Account!HasOverrun(entries) = HasOverrun(entries)
    /\ \A entries : Account!Committed(entries) = Committed(entries)
<1>1. Account!NoEntry = NoEntry /\ Account!Unknown = Unknown
      /\ Account!ReleaseReason = ReleaseReason
  BY DEF Account!NoEntry, NoEntry, Account!Unknown, Unknown, Account!Unrecorded, Unrecorded,
         Account!NoReason, NoReason, Account!ReleaseReason, ReleaseReason
<1>2. Account!NoEntries = NoEntries
  BY <1>1 DEF Account!NoEntries, NoEntries
<1>3. \A amount : Account!ReservedEntry(amount) = ReservedEntry(amount)
  BY <1>1 DEF Account!ReservedEntry, ReservedEntry
<1>4. \A e, actual, o : Account!ReconciledEntry(e, actual, o) = ReconciledEntry(e, actual, o)
  BY <1>1 DEF Account!ReconciledEntry, ReconciledEntry, Account!ReconciledStatus,
              ReconciledStatus, Account!AccountedCost, AccountedCost
<1>5. \A e, reason, o : Account!ReleasedEntry(e, reason, o) = ReleasedEntry(e, reason, o)
  BY DEF Account!ReleasedEntry, ReleasedEntry
<1>6. \A entries : Account!HasOverrun(entries) = HasOverrun(entries)
  BY DEF Account!HasOverrun, HasOverrun
<1>7. \A entries : Account!Committed(entries) = Committed(entries)
  <2>1. \A entries : Account!Held(entries) = Held(entries)
    BY DEF Account!Held, Held, Account!Hold, Hold
  <2>2. \A f : Account!Coins(f) = Coins(f)
    BY DEF Account!Coins, Coins
  <2>3. \A S : Account!Cardinality(S) = Cardinality(S)
    BY DEF Account!Cardinality, Cardinality
  <2> QED BY <2>1, <2>2, <2>3 DEF Account!Committed, Committed, Account!Total, Total
<1> QED BY <1>1, <1>2, <1>3, <1>4, <1>5, <1>6, <1>7

(* AtomicCostLedger implements the atomic account: every step of every       *)
(* process is an operation of the account or leaves it alone.                *)
THEOREM LedgerRefinesAccount == Spec => ImplementsAccount
<1>1. Init => Account!Init
  BY SameVocabulary DEF Init, Account!Init, NoLedger
<1>2. LedgerInv /\ [Next]_vars => [Account!Next]_(Account!vars)
  <2>1. SUFFICES ASSUME LedgerInv, [Next]_vars
                 PROVE  Account!Next \/ UNCHANGED Account!vars
    OBVIOUS
  <2>2. CASE UNCHANGED ledger
    BY <2>2 DEF Account!vars
  <2>3. ASSUME NEW c \in Client, Replace(c)
        PROVE  Account!Next
    <3>1. /\ ledger \in Ledger
          /\ pc[c] = "locked"
          /\ ledger' \in Writes(c)
      BY <2>1, <2>3 DEF Replace, LedgerInv, TypeOK
    <3>2. CASE Created(c, ledger')
      <4>1. ledger = NoLedger
        BY <2>1, <3>2 DEF LedgerInv, EntriesInv, Created
      <4>2. CapOf[c] \in Nat \ {0}
        BY CapAssumption
      <4>3. Account!OpenAccount
        BY <3>2, <4>1, <4>2 DEF Created, Account!OpenAccount, NewLedger, NoLedger
      <4> QED BY <4>3 DEF Account!Next
    <3>3. ASSUME NEW id \in RequestId, NEW amount \in Amount,
                 Booked(id, amount, ledger')
          PROVE  Account!Next
      <4>1. Account!Reserve(id, amount)
        BY <3>1, <3>3, SameVocabulary DEF Booked, Account!Reserve, Ledger
      <4> QED BY <4>1 DEF Account!Next
    <3>4. ASSUME NEW id \in RequestId, Concluded(id, ledger')
          PROVE  Account!Next
      <4>1. ClockOrder \subseteq BOOLEAN
        BY ClockAssumption DEF ClockOrder
      <4>2. /\ ledger.present /\ ledger'.present /\ ledger'.cap = ledger.cap
            /\ ledger.entries[id].status = "reserved"
            /\ \E o \in BOOLEAN :
                 \/ \E actual \in ActualCost \cup {Unknown} :
                      ledger'.entries = [ledger.entries EXCEPT ![id] =
                                           ReconciledEntry(@, actual, o)]
                 \/ \E reason \in ReleaseReason :
                      ledger'.entries = [ledger.entries EXCEPT ![id] =
                                           ReleasedEntry(@, reason, o)]
        BY <3>1, <3>4, <4>1 DEF Concluded, Ledger
      <4>3. Account!Conclude(id)
        BY <4>2, SameVocabulary, Zenon DEF Account!Conclude
      <4> QED BY <4>3 DEF Account!Next
    <3> QED BY <2>1, <3>1, <3>2, <3>3, <3>4, WriteCases
  <2>4. UNCHANGED ledger \/ \E c \in Client : Replace(c)
    BY <2>1 DEF Next, Step, vars, BeginInitialize, BeginOpen, Begin, CreateLock, Acquire,
                Return, ReturnUnchanged, WriteFails, SyncFails, Crash
  <2> QED BY <2>2, <2>3, <2>4
<1> QED BY <1>1, <1>2, LedgerInvariant, PTL DEF Spec, ImplementsAccount, Account!Spec
=============================================================================
