---------------------------- MODULE CostAccount ----------------------------
(* What the cost ledger promises its callers: one account, opened once, on   *)
(* which every operation is atomic.  There are no processes, files or locks  *)
(* here; CostLedger is shown to implement this specification.                *)
EXTENDS CostEntries

VARIABLES opened,   \* the account exists
          limit,    \* its cap, fixed when it is opened
          book      \* the entry of every request id

vars == <<opened, limit, book>>

Init == opened = FALSE /\ limit = 0 /\ book = NoEntries

OpenAccount ==
    /\ ~opened
    /\ opened' = TRUE
    /\ limit' \in Nat \ {0}
    /\ UNCHANGED book

(* A request id is used once, nothing is reserved after an overrun, and a    *)
(* reservation never exceeds what is left under the cap.                     *)
Reserve(id, amount) ==
    /\ opened
    /\ book[id] = NoEntry
    /\ ~HasOverrun(book)
    /\ amount <= limit - Committed(book)
    /\ book' = [book EXCEPT ![id] = ReservedEntry(amount)]
    /\ UNCHANGED <<opened, limit>>

(* An active reservation is concluded once, with one of its possible ends.   *)
Conclude(id) ==
    /\ opened
    /\ book[id].status = "reserved"
    /\ \E ordered \in BOOLEAN :
        \/ \E actual \in ActualCost \cup {Unknown} :
            book' = [book EXCEPT ![id] = ReconciledEntry(@, actual, ordered)]
        \/ \E reason \in ReleaseReason :
            book' = [book EXCEPT ![id] = ReleasedEntry(@, reason, ordered)]
    /\ UNCHANGED <<opened, limit>>

Next ==
    \/ OpenAccount
    \/ \E id \in RequestId : Conclude(id) \/ \E amount \in Amount : Reserve(id, amount)

Spec == Init /\ [][Next]_vars
=============================================================================
