------------------------- MODULE MCSchedulerJournal -------------------------
(* Campaigns of two passes.                                                  *)
EXTENDS SchedulerJournal

(* Two tasks that may be in flight together, then two that depend on them.   *)
TwoThenTwo == <<1, 1, 2, 2>>

(* One task per pass.                                                        *)
OneThenOne == <<1, 2>>
=============================================================================
