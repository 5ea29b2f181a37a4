----------------------- MODULE SchedulerJournalProofs -----------------------
(* Proofs about the scheduler journal, for every number of tasks and passes, *)
(* every plan, and any number of deaths and failing writes.                  *)
EXTENDS SchedulerJournal, FiniteSetTheorems, SequenceTheorems,
        WellFoundedInduction, TLAPS

-----------------------------------------------------------------------------
(* The lifecycle of a task.                                                  *)

Planned1 == <<"PLANNED">>
Activated2 == <<"PLANNED", "ACTIVATED">>
Local2 == <<"PLANNED", "PREFLIGHT_TERMINAL">>
Early3 == <<"PLANNED", "ACTIVATED", "ACTIVATED_PREFLIGHT_TERMINAL">>
Terminal4 == <<"PLANNED", "ACTIVATED", "DISPATCHED", "TERMINAL">>

(* The stages are different, and are the legal lifecycles.                   *)
LEMMA Stages ==
    /\ <<>> \notin {Planned1, Activated2, Dispatched, Local2, Early3, Terminal4}
    /\ Planned1 \notin {Activated2, Dispatched, Local2, Early3, Terminal4}
    /\ Activated2 \notin {Dispatched, Local2, Early3, Terminal4}
    /\ Dispatched \notin {Local2, Early3, Terminal4}
    /\ Local2 \notin {Early3, Terminal4} /\ Early3 # Terminal4
    /\ Concluded = {Local2, Early3, Terminal4}
    /\ Lifecycle = {Planned1, Activated2, Dispatched, Local2, Early3, Terminal4}
<1> USE DEF Planned1, Activated2, Dispatched, Local2, Early3, Terminal4
<1>1. /\ <<>> \notin {Planned1, Activated2, Dispatched, Local2, Early3, Terminal4}
      /\ Planned1 \notin {Activated2, Dispatched, Local2, Early3, Terminal4}
  OBVIOUS
<1>2. /\ Activated2 \notin {Dispatched, Local2, Early3, Terminal4}
      /\ Dispatched \notin {Local2, Early3, Terminal4}
      /\ Local2 \notin {Early3, Terminal4} /\ Early3 # Terminal4
  OBVIOUS
<1>3. Concluded = {Local2, Early3, Terminal4}
  BY DEF Concluded
<1>4. Lifecycle = {Planned1, Activated2, Dispatched, Local2, Early3, Terminal4}
  BY DEF Lifecycle, Concluded
<1> QED BY <1>1, <1>2, <1>3, <1>4

(* A short sequence is the tuple of its elements.                            *)
LEMMA ShortSequence ==
    ASSUME NEW S, NEW u \in Seq(S)
    PROVE  /\ Len(u) = 2 => u = <<u[1], u[2]>>
           /\ Len(u) = 3 => u = <<u[1], u[2], u[3]>>
           /\ Len(u) = 4 => u = <<u[1], u[2], u[3], u[4]>>
  OBVIOUS

(* Appending to a short tuple.                                               *)
LEMMA AppendOne ==
    ASSUME NEW a, NEW x
    PROVE  Append(<<a>>, x) = <<a, x>>
<1> DEFINE u == Append(<<a>>, x)
<1>1. u \in Seq({a, x}) /\ Len(u) = 2 /\ u[1] = a /\ u[2] = x
  OBVIOUS
<1> HIDE DEF u
<1> QED BY <1>1, ShortSequence DEF u

(* The same for a pair.                                                      *)
LEMMA AppendTwo ==
    ASSUME NEW a, NEW b, NEW x
    PROVE  Append(<<a, b>>, x) = <<a, b, x>>
<1> DEFINE u == Append(<<a, b>>, x)
<1>1. u \in Seq({a, b, x}) /\ Len(u) = 3 /\ u[1] = a /\ u[2] = b /\ u[3] = x
  OBVIOUS
<1> HIDE DEF u
<1>2. u = <<a, b, x>>
  BY <1>1, ShortSequence
<1> QED BY <1>2 DEF u

(* The same for a triple.                                                    *)
LEMMA AppendThree ==
    ASSUME NEW a, NEW b, NEW c, NEW x
    PROVE  Append(<<a, b, c>>, x) = <<a, b, c, x>>
<1> DEFINE u == Append(<<a, b, c>>, x)
<1>1. u \in Seq({a, b, c, x}) /\ Len(u) = 4 /\ u[1] = a /\ u[2] = b /\ u[3] = c /\ u[4] = x
  OBVIOUS
<1> HIDE DEF u
<1>2. u = <<a, b, c, x>>
  BY <1>1, ShortSequence
<1> QED BY <1>2 DEF u

(* An event takes a task from one stage to the next.                         *)
LEMMA NextStage ==
    /\ Append(<<>>, "PLANNED") = Planned1
    /\ Append(Planned1, "ACTIVATED") = Activated2
    /\ Append(Activated2, "DISPATCHED") = Dispatched
    /\ Append(Planned1, "PREFLIGHT_TERMINAL") = Local2
    /\ Append(Activated2, "ACTIVATED_PREFLIGHT_TERMINAL") = Early3
    /\ Append(Dispatched, "TERMINAL") = Terminal4
<1>1. Append(<<>>, "PLANNED") = Planned1
  BY DEF Planned1
<1>2. Append(Planned1, "ACTIVATED") = Activated2
  BY AppendOne, Zenon DEF Planned1, Activated2
<1>3. Append(Planned1, "PREFLIGHT_TERMINAL") = Local2
  BY AppendOne, Zenon DEF Planned1, Local2
<1>4. Append(Activated2, "DISPATCHED") = Dispatched
  BY AppendTwo, Zenon DEF Activated2, Dispatched
<1>5. Append(Activated2, "ACTIVATED_PREFLIGHT_TERMINAL") = Early3
  BY AppendTwo, Zenon DEF Activated2, Early3
<1>6. Append(Dispatched, "TERMINAL") = Terminal4
  BY AppendThree, Zenon DEF Dispatched, Terminal4
<1> QED BY <1>1, <1>2, <1>3, <1>4, <1>5, <1>6

-----------------------------------------------------------------------------
(* The plan.                                                                 *)

(* PLANNED events of n consecutive tasks.                                    *)
PlanRest(k, n) == [i \in 1 .. n |-> Event(k + i - 1, "PLANNED", {})]

(* A set of natural numbers that is not empty has a least element.           *)
LEMMA LeastElement ==
    ASSUME NEW S \in SUBSET Nat, S # {}
    PROVE  \E m \in S : \A n \in S : m <= n
<1>1. PICK m \in S : \A n \in S : ~ (<<n, m>> \in OpToRel(<, Nat))
  BY NatLessThanWellFounded, WFMin
<1>2. ASSUME NEW n \in S PROVE m <= n
  <2>1. <<n, m>> \in Nat \X Nat
    OBVIOUS
  <2>2. ~ (n < m)
    BY <1>1, <2>1 DEF OpToRel
  <2> QED BY <2>2
<1> QED BY <1>2

(* The tasks of a pass are an interval, because the plan is ordered.         *)
LEMMA PassInterval ==
    ASSUME NEW p \in Pass
    PROVE  \E k \in Task, n \in Nat \ {0} :
              /\ TasksOf(p) = k .. (k + n - 1)
              /\ PlannedEvents(p) = PlanRest(k, n)
<1> DEFINE S == TasksOf(p)
           U == {n \in Nat : \A t \in S : t <= n}
<1>1. S # {} /\ S \subseteq Task /\ Task \subseteq Nat
  BY PassAssumption DEF TasksOf, Task
<1>2. PICK k \in S : \A t \in S : k <= t
  BY <1>1, LeastElement
<1>3. NTasks \in U
  BY <1>1, SizeAssumption DEF Task
<1>4. PICK m \in U : \A n \in U : m <= n
  BY <1>3, LeastElement
<1>5. m \in S
  <2>1. SUFFICES ASSUME m \notin S PROVE FALSE
    OBVIOUS
  <2>2. m - 1 \in U
    <3>1. \A t \in S : t <= m /\ t # m
      BY <1>4, <2>1
    <3>2. k <= m /\ k # m /\ k \in Nat
      BY <3>1, <1>1
    <3> QED BY <1>1, <1>4, <3>1, <3>2
  <2> QED BY <1>4, <2>2
<1>6. S = k .. m
  <2>1. ASSUME NEW t \in k .. m PROVE t \in S
    <3>1. t \in Task
      BY <1>1, <1>5, SizeAssumption DEF Task
    <3>2. PassOf[k] = p /\ PassOf[m] = p
      BY <1>5 DEF TasksOf
    <3>3. PassOf[k] <= PassOf[t] /\ PassOf[t] <= PassOf[m]
      BY <1>1, <1>5, <3>1, <3>2, PassAssumption, SizeAssumption DEF Pass, Task
    <3>4. PassOf[t] = p
      BY <3>1, <3>2, <3>3, PassAssumption, SizeAssumption DEF Pass
    <3> QED BY <3>1, <3>4 DEF TasksOf
  <2>2. ASSUME NEW t \in S PROVE t \in k .. m
    <3>1. k <= t /\ t <= m
      BY <1>2, <1>4
    <3>2. t \in Nat /\ k \in Nat /\ m \in Nat
      BY <1>1, <1>4
    <3> QED BY <3>1, <3>2
  <2> HIDE DEF S
  <2> QED BY <2>1, <2>2
<1>7. k <= m /\ k \in Task /\ m \in Nat
  BY <1>1, <1>2, <1>5
<1>8. First(S) = k
  BY <1>1, <1>2 DEF First
<1>9. Cardinality(S) = m - k + 1
  BY <1>1, <1>6, <1>7, FS_Interval
<1>10. PlannedEvents(p) = PlanRest(k, m - k + 1)
  BY <1>8, <1>9 DEF PlannedEvents, PlanRest
<1>11. m - k + 1 \in Nat \ {0} /\ k + (m - k + 1) - 1 = m
  BY <1>1, <1>7
<1> QED BY <1>6, <1>7, <1>10, <1>11

(* The first of the events, and those after it.                              *)
LEMMA PlanRestTail ==
    ASSUME NEW k \in Nat, NEW n \in Nat \ {0}
    PROVE  /\ PlanRest(k, n) # <<>> /\ PlanRest(k, n) \in Seq({Event(i, "PLANNED", {}) : i \in Nat})
           /\ Head(PlanRest(k, n)) = Event(k, "PLANNED", {})
           /\ Tail(PlanRest(k, n)) = PlanRest(k + 1, n - 1)
           /\ n = 1 => PlanRest(k + 1, n - 1) = <<>>
<1> DEFINE E == {Event(i, "PLANNED", {}) : i \in Nat}
           s == PlanRest(k, n)
<1>1. s \in [1 .. n -> E]
  BY DEF PlanRest
<1>2. s \in Seq(E) /\ Len(s) = n
  BY <1>1
<1>3. s[1] = Event(k, "PLANNED", {})
  BY DEF PlanRest
<1>4. \A i \in 1 .. n - 1 : s[i + 1] = Event((k + 1) + i - 1, "PLANNED", {})
  <2> TAKE i \in 1 .. n - 1
  <2>1. i + 1 \in 1 .. n /\ k + (i + 1) - 1 = (k + 1) + i - 1
    OBVIOUS
  <2> QED BY <2>1 DEF PlanRest
<1>5. PlanRest(k + 1, n - 1) \in [1 .. n - 1 -> E]
  BY DEF PlanRest
<1>6. PlanRest(k + 1, n - 1) \in Seq(E) /\ Len(PlanRest(k + 1, n - 1)) = n - 1
  BY <1>5
<1>7. \A i \in 1 .. n - 1 : PlanRest(k + 1, n - 1)[i] = Event((k + 1) + i - 1, "PLANNED", {})
  BY DEF PlanRest
<1> HIDE DEF s, E
<1>8. s # <<>> /\ Head(s) = s[1] /\ Tail(s) \in Seq(E) /\ Len(Tail(s)) = n - 1
      /\ \A i \in 1 .. n - 1 : Tail(s)[i] = s[i + 1]
  BY <1>2, HeadTailProperties
<1>9. Tail(s) = PlanRest(k + 1, n - 1)
  BY <1>4, <1>6, <1>7, <1>8, SeqEqual
<1>10. n = 1 => PlanRest(k + 1, n - 1) = <<>>
  BY <1>6, EmptySeq
<1> QED BY <1>2, <1>3, <1>8, <1>9, <1>10 DEF s, E

-----------------------------------------------------------------------------
(* The inductive invariant.                                                  *)

(* The results an operation may record for a task: before its activation,    *)
(* before its dispatch, and after the transport returned.                    *)
LocalResult == {Preflight(s) : s \in {"FAILED", "INCONCLUSIVE"}}
EarlyResult == {Activated(s) : s \in {"FAILED", "TRUNCATED", "INCONCLUSIVE"}}
FinalResult(t) ==
    IF t \in outputs THEN {Activated("SUCCEEDED")}
    ELSE EarlyResult \cup (IF t \in EmptyTask THEN {Activated("EXPLICIT_EMPTY")} ELSE {})

(* TypeOK, with every history a legal lifecycle.                             *)
ShapeInv ==
    /\ plans \in 0 .. NPasses /\ passes \in Seq(PassStatus)
    /\ history \in [Task -> Lifecycle \cup {<<>>}]
    /\ activated \subseteq Task /\ outputs \subseteq Task /\ attempts \subseteq Task
    /\ observed \in [Task -> SUBSET Result] /\ credited \in [Task -> SUBSET Result]
    /\ mode \in {"down", "recovering", "live"}
    /\ transport \in [Task -> {"none", "ready", "retrying", "returned", "abandoned"}]
    /\ sends \in [Task -> Seq(1 .. MaxAttempts)]

(* The files of a task fit its last event.                                   *)
TaskInv(t) ==
    /\ t \in outputs \cup attempts => t \notin EmptyTask /\ Len(sends[t]) = 1
    /\ t \notin outputs \cap attempts
    /\ history[t] = <<>> =>
        /\ t \notin activated \cup outputs \cup attempts
        /\ observed[t] = {} /\ credited[t] = {} /\ sends[t] = <<>>
    /\ history[t] = Planned1 =>
        /\ t \notin outputs \cup attempts
        /\ \/ observed[t] = {}
           \/ t \notin activated /\ \E r \in LocalResult : observed[t] = {r}
        /\ credited[t] = {} /\ sends[t] = <<>>
    /\ history[t] = Activated2 =>
        /\ t \in activated /\ t \notin outputs \cup attempts
        /\ observed[t] = {} \/ \E r \in EarlyResult : observed[t] = {r}
        /\ credited[t] = {} /\ sends[t] = <<>>
    /\ history[t] = Dispatched =>
        /\ t \in activated
        /\ \E r \in FinalResult(t) : observed[t] \subseteq {r, Uncertain}
        /\ credited[t] = {} /\ Len(sends[t]) \in {0, 1}
    /\ history[t] = Local2 =>
        /\ t \notin activated \cup outputs \cup attempts
        /\ observed[t] = credited[t] /\ \E r \in LocalResult : credited[t] = {r}
        /\ sends[t] = <<>>
    /\ history[t] = Early3 =>
        /\ t \in activated /\ t \notin outputs \cup attempts
        /\ observed[t] = credited[t] /\ \E r \in EarlyResult : credited[t] = {r}
        /\ sends[t] = <<>>
    /\ history[t] = Terminal4 =>
        /\ t \in activated /\ Len(sends[t]) \in {0, 1}
        /\ \E r \in FinalResult(t) :
            \/ observed[t] = {r} /\ credited[t] = {r}
            \/ /\ observed[t] \subseteq {r, Uncertain} /\ Uncertain \in observed[t]
               /\ credited[t] = {Uncertain}

(* What this process did with a task fits the task's files.                  *)
TransportInv(t) ==
    /\ mode # "live" => transport[t] = "none"
    /\ transport[t] = "ready" =>
        history[t] = Dispatched /\ sends[t] = <<>> /\ observed[t] = {} /\ t \notin EmptyTask
    /\ transport[t] = "retrying" =>
        /\ history[t] = Dispatched /\ observed[t] = {} /\ t \notin EmptyTask
        /\ sends[t][1] < MaxAttempts
    /\ transport[t] \in {"retrying", "returned"} /\ t \notin EmptyTask => Len(sends[t]) = 1
    /\ history[t] \in {<<>>, Planned1, Activated2} => transport[t] \in {"none", "abandoned"}
    /\ mode = "live" /\ history[t] = Dispatched =>
        transport[t] # "none" /\ Uncertain \notin observed[t]

(* The events that end a task.                                              *)
EndKind == {"TERMINAL", "PREFLIGHT_TERMINAL", "ACTIVATED_PREFLIGHT_TERMINAL"}

(* How a task may end, from where it is.                                     *)
Ends(t, kind, r) ==
    \/ /\ kind = "TERMINAL" /\ history[t] = Dispatched
       /\ r \in FinalResult(t) /\ transport[t] = "returned"
    \/ /\ kind = "PREFLIGHT_TERMINAL" /\ history[t] = Planned1
       /\ r \in LocalResult /\ t \notin activated
    \/ /\ kind = "ACTIVATED_PREFLIGHT_TERMINAL" /\ history[t] = Activated2
       /\ r \in EarlyResult

(* What is left to write of the operation that is running, and the files it  *)
(* relies on.                                                                *)
Planning ==
    \/ /\ plans < NPasses /\ Len(passes) = plans
       /\ \A p \in 1 .. Len(passes) : passes[p] = "COMPLETE"
       /\ todo = <<PlanFile>> \o PlannedEvents(plans + 1)
    \/ \E k \in Task, n \in Nat \ {0} :
          /\ todo = PlanRest(k, n)
          /\ \A t \in Task :
                t \in k .. (k + n - 1) <=> PassOf[t] = plans /\ history[t] = <<>>
          /\ k + n - 1 <= NTasks

Activating(t) ==
    \/ /\ todo = <<TaskFile("activation", t), Event(t, "ACTIVATED", {})>>
       /\ history[t] = Planned1 /\ observed[t] = {}
    \/ /\ todo = <<Event(t, "ACTIVATED", {})>>
       /\ history[t] = Planned1 /\ t \in activated

Dispatching(t) ==
    /\ todo = <<Event(t, "DISPATCHED", {})>>
    /\ history[t] = Activated2 /\ observed[t] = {}

Retaining(t) ==
    /\ todo \in {<<TaskFile("output", t)>>, <<TaskFile("attempt", t)>>}
    /\ history[t] = Dispatched /\ observed[t] = {}
    /\ t \notin outputs \cup attempts \cup EmptyTask /\ Len(sends[t]) = 1

Recording(t) ==
    \E kind \in EndKind, r \in Result :
        /\ Ends(t, kind, r) /\ observed[t] = {}
        /\ todo = <<ResultFile(t, r), Event(t, kind, {r})>>

Concluding(t) ==
    \E kind \in EndKind, r \in Result :
        /\ Ends(t, kind, r) /\ observed[t] = {r}
        /\ todo = <<Event(t, kind, {r})>>

Sealing ==
    \/ /\ Len(passes) + 1 <= plans
       /\ \A t \in TasksOf(Len(passes) + 1) : history[t] \in Concluded
       /\ todo = <<PassFile(DerivedPassStatus(Len(passes) + 1))>>
    \/ Len(passes) = plans /\ todo = <<AuthorityFile>>

TodoInv ==
    \/ todo = <<>>
    \/ /\ mode = "live" /\ ~authority
       /\ \/ Planning \/ Sealing
          \/ \E t \in Task : \/ Activating(t) \/ Dispatching(t) \/ Retaining(t)
                             \/ Recording(t) \/ Concluding(t)

(* A live journal holds a result without its event only for a task nobody    *)
(* touches again, or while the event is the next write.                      *)
PendingInv ==
    mode = "live" =>
        \A t \in Task :
            history[t] \in {Planned1, Activated2, Dispatched} /\ observed[t] # {} =>
                transport[t] = "abandoned" \/ Concluding(t)

(* The campaign: passes are planned, run and sealed one after the other.     *)
CampaignInv ==
    /\ Len(passes) \in {plans - 1, plans}
    /\ \A p \in 1 .. plans - 1 : passes[p] = "COMPLETE"
    /\ \A t \in Task : PassOf[t] > plans => history[t] = <<>>
    /\ \A t, u \in Task : t < u /\ history[u] # <<>> => history[t] # <<>>
    /\ \A p \in 1 .. Len(passes) :
          /\ \A t \in TasksOf(p) : history[t] \in Concluded
          /\ passes[p] = DerivedPassStatus(p)

(* A torn file ends the campaign, and only a finished one is sealed.         *)
SealInv ==
    /\ authority \in BOOLEAN /\ torn \in BOOLEAN
    /\ torn => mode = "down"
    /\ authority => Len(passes) = plans

JournalInv ==
    /\ ShapeInv
    /\ \A t \in Task : TaskInv(t) /\ TransportInv(t)
    /\ TodoInv /\ PendingInv /\ CampaignInv /\ SealInv

-----------------------------------------------------------------------------
(* What a step leaves alone.                                                 *)

(* The files of a task, and what the process did with it, are as before.     *)
SameFiles(t) ==
    /\ history'[t] = history[t] /\ observed'[t] = observed[t]
    /\ credited'[t] = credited[t] /\ sends'[t] = sends[t]
    /\ t \in activated' <=> t \in activated
    /\ t \in outputs' <=> t \in outputs
    /\ t \in attempts' <=> t \in attempts

Same(t) == SameFiles(t) /\ transport'[t] = transport[t]

(* A task whose files did not change still fits its last event.              *)
LEMMA FrameTask ==
    ASSUME NEW t \in Task, SameFiles(t), TaskInv(t)
    PROVE  TaskInv(t)'
<1>1. FinalResult(t)' = FinalResult(t)
  BY DEF SameFiles, FinalResult
<1> QED BY <1>1, Zenon DEF SameFiles, TaskInv

(* Nor does what the process knows of it, in the same mode.                  *)
LEMMA FrameTransport ==
    ASSUME NEW t \in Task, Same(t), mode' = mode, TransportInv(t)
    PROVE  TransportInv(t)'
  BY DEF Same, SameFiles, TransportInv

(* The status derived for a pass depends on its tasks' credited results.     *)
LEMMA FrameDerived ==
    ASSUME NEW p, \A t \in TasksOf(p) : credited'[t] = credited[t]
    PROVE  DerivedPassStatus(p)' = DerivedPassStatus(p)
<1>1. {credited'[t] : t \in TasksOf(p)} = {credited[t] : t \in TasksOf(p)}
  OBVIOUS
<1>2. {credited[t] : t \in TasksOf(p)}' = {credited[t] : t \in TasksOf(p)}
  BY <1>1 DEF TasksOf
<1> HIDE DEF TasksOf
<1> QED BY <1>2 DEF DerivedPassStatus

(* The campaign's invariant survives a change of one task that has not ended *)
(* in a sealed pass, and that is planned only in its turn.                   *)
LEMMA FrameCampaign ==
    ASSUME JournalInv, NEW t \in Task, \A u \in Task \ {t} : SameFiles(u),
           UNCHANGED <<plans, passes>>,
           history[t] \notin Concluded,
           history[t] # <<>> => history'[t] # <<>>,
           history[t] = <<>> /\ history'[t] # <<>> =>
              PassOf[t] <= plans /\ \A u \in Task : u < t => history[u] # <<>>
    PROVE  CampaignInv'
<1> USE DEF JournalInv, CampaignInv
<1>1. \A u \in Task : PassOf[u] > plans' => history'[u] = <<>>
  BY PassAssumption DEF SameFiles, ShapeInv, Pass
<1>2. \A u, v \in Task : u < v /\ history'[v] # <<>> => history'[u] # <<>>
  BY DEF SameFiles, Task
<1>3. ASSUME NEW p \in 1 .. Len(passes)
      PROVE  /\ \A u \in TasksOf(p) : history'[u] \in Concluded
             /\ passes'[p] = DerivedPassStatus(p)'
  <2>1. \A u \in TasksOf(p) : u \in Task \ {t}
    BY <1>3 DEF TasksOf
  <2>2. \A u \in TasksOf(p) : credited'[u] = credited[u] /\ history'[u] = history[u]
    BY <2>1 DEF SameFiles
  <2>3. DerivedPassStatus(p)' = DerivedPassStatus(p)
    BY <2>2, FrameDerived
  <2> QED BY <1>3, <2>2, <2>3
<1> QED BY <1>1, <1>2, <1>3 DEF TasksOf

-----------------------------------------------------------------------------
(* What a write changes.                                                     *)

(* Only the authority file sets the authority.                               *)
LEMMA ApplyAuthority ==
    ASSUME NEW w, Apply(w), SealInv
    PROVE  /\ torn' = torn /\ authority' \in BOOLEAN
           /\ w.file # "authority" => authority' = authority
           /\ w.file = "authority" => authority'
  BY Zenon DEF Apply, SealInv

(* An event extends the history of its task, and credits a result.           *)
LEMMA ApplyEvent ==
    ASSUME NEW t, NEW kind, NEW r, SealInv, Apply(Event(t, kind, r))
    PROVE  /\ history' = [history EXCEPT ![t] = Append(@, kind)]
           /\ credited' = [credited EXCEPT ![t] = @ \cup r]
           /\ kind # "DISPATCHED" => transport' = transport
           /\ kind = "DISPATCHED" =>
                transport' = [transport EXCEPT ![t] =
                                 IF t \in EmptyTask THEN "returned" ELSE "ready"]
           /\ UNCHANGED <<plans, passes, authority, torn, activated, outputs,
                          attempts, observed>>
<1> DEFINE w == Event(t, kind, r)
<1>1. w.file = "event" /\ w.task = t /\ w.kind = kind /\ w.result = r
  BY DEF Event
<1> HIDE DEF w
<1>2. Apply(w)
  BY DEF w
<1>3. UNCHANGED <<authority, torn>>
  BY <1>1, <1>2, ApplyAuthority
<1> QED BY <1>1, <1>2, <1>3 DEF Apply

(* A result file is one more observed result.                                *)
LEMMA ApplyResult ==
    ASSUME NEW t, NEW r, SealInv, Apply(ResultFile(t, r))
    PROVE  /\ observed' = [observed EXCEPT ![t] = @ \cup {r}]
           /\ UNCHANGED <<plans, passes, authority, torn, activated, outputs,
                          attempts, history, credited, transport>>
<1> DEFINE w == ResultFile(t, r)
<1>1. w.file = "result" /\ w.task = t /\ w.result = r
  BY DEF ResultFile
<1> HIDE DEF w
<1>2. Apply(w)
  BY DEF w
<1>3. UNCHANGED <<authority, torn>>
  BY <1>1, <1>2, ApplyAuthority
<1> QED BY <1>1, <1>2, <1>3 DEF Apply

(* A task's other files are added to their sets.                             *)
LEMMA ApplyTaskFile ==
    ASSUME NEW t, NEW kind \in {"activation", "output", "attempt"}, SealInv,
           Apply(TaskFile(kind, t))
    PROVE  /\ activated' = IF kind = "activation" THEN activated \cup {t} ELSE activated
           /\ outputs' = IF kind = "output" THEN outputs \cup {t} ELSE outputs
           /\ attempts' = IF kind = "attempt" THEN attempts \cup {t} ELSE attempts
           /\ UNCHANGED <<plans, passes, authority, torn, observed, history,
                          credited, transport>>
<1> DEFINE w == TaskFile(kind, t)
<1>1. w.file = kind /\ w.task = t
  BY DEF TaskFile
<1> HIDE DEF w
<1>2. Apply(w)
  BY DEF w
<1>3. UNCHANGED <<authority, torn>>
  BY <1>1, <1>2, ApplyAuthority
<1> QED BY <1>1, <1>2, <1>3 DEF Apply

(* A plan file opens the next pass.                                          *)
LEMMA ApplyPlan ==
    ASSUME SealInv, Apply(PlanFile)
    PROVE  /\ plans' = plans + 1
           /\ UNCHANGED <<passes, authority, torn, activated, outputs, attempts,
                          observed, history, credited, transport>>
<1> DEFINE w == PlanFile
<1>1. w.file = "plan"
  BY DEF PlanFile
<1> HIDE DEF w
<1>2. Apply(w)
  BY DEF w
<1>3. UNCHANGED <<authority, torn>>
  BY <1>1, <1>2, ApplyAuthority
<1> QED BY <1>1, <1>2, <1>3 DEF Apply

(* A pass result is the next of the sealed passes.                           *)
LEMMA ApplyPass ==
    ASSUME NEW status, SealInv, Apply(PassFile(status))
    PROVE  /\ passes' = Append(passes, status)
           /\ UNCHANGED <<plans, authority, torn, activated, outputs, attempts,
                          observed, history, credited, transport>>
<1> DEFINE w == PassFile(status)
<1>1. w.file = "pass" /\ w.status = status
  BY DEF PassFile
<1> HIDE DEF w
<1>2. Apply(w)
  BY DEF w
<1>3. UNCHANGED <<authority, torn>>
  BY <1>1, <1>2, ApplyAuthority
<1> QED BY <1>1, <1>2, <1>3 DEF Apply

(* The authority file changes nothing else.                                  *)
LEMMA ApplySeal ==
    ASSUME SealInv, Apply(AuthorityFile)
    PROVE  /\ authority'
           /\ UNCHANGED <<plans, passes, torn, activated, outputs, attempts,
                          observed, history, credited, transport>>
<1> DEFINE w == AuthorityFile
<1>1. w.file = "authority"
  BY DEF AuthorityFile
<1> HIDE DEF w
<1>2. Apply(w)
  BY DEF w
<1>3. authority' /\ UNCHANGED torn
  BY <1>1, <1>2, ApplyAuthority
<1> QED BY <1>1, <1>2, <1>3 DEF Apply

-----------------------------------------------------------------------------
(* The files of one task, one write at a time.  Operations and the recovery  *)
(* make the same writes.                                                     *)

(* An event changes its own task only.                                       *)
LEMMA EventEffect ==
    ASSUME JournalInv, NEW t \in Task, NEW kind, NEW r \in SUBSET Result,
           Append(history[t], kind) \in Lifecycle, Apply(Event(t, kind, r)),
           UNCHANGED <<mode, sends>>
    PROVE  /\ ShapeInv' /\ \A u \in Task \ {t} : Same(u)
           /\ history'[t] = Append(history[t], kind)
           /\ credited'[t] = credited[t] \cup r
           /\ transport'[t] = IF kind # "DISPATCHED" THEN transport[t]
                              ELSE IF t \in EmptyTask THEN "returned" ELSE "ready"
           /\ UNCHANGED <<plans, passes, authority, torn, activated, outputs,
                          attempts, observed, mode, sends>>
<1>1. /\ history' = [history EXCEPT ![t] = Append(@, kind)]
      /\ credited' = [credited EXCEPT ![t] = @ \cup r]
      /\ kind # "DISPATCHED" => transport' = transport
      /\ kind = "DISPATCHED" =>
            transport' = [transport EXCEPT ![t] =
                             IF t \in EmptyTask THEN "returned" ELSE "ready"]
      /\ UNCHANGED <<plans, passes, authority, torn, activated, outputs,
                     attempts, observed>>
  BY ApplyEvent DEF JournalInv
<1>2. ShapeInv
  BY DEF JournalInv
<1>3. history' \in [Task -> Lifecycle \cup {<<>>}] /\ history'[t] = Append(history[t], kind)
      /\ \A u \in Task \ {t} : history'[u] = history[u]
  BY <1>1, <1>2 DEF ShapeInv
<1>4. credited' \in [Task -> SUBSET Result] /\ credited'[t] = credited[t] \cup r
      /\ \A u \in Task \ {t} : credited'[u] = credited[u]
  BY <1>1, <1>2 DEF ShapeInv
<1>5. /\ transport' \in [Task -> {"none", "ready", "retrying", "returned", "abandoned"}]
      /\ \A u \in Task \ {t} : transport'[u] = transport[u]
      /\ transport'[t] = IF kind # "DISPATCHED" THEN transport[t]
                         ELSE IF t \in EmptyTask THEN "returned" ELSE "ready"
  BY <1>1, <1>2 DEF ShapeInv
<1> QED BY <1>1, <1>2, <1>3, <1>4, <1>5 DEF ShapeInv, Same, SameFiles

(* A task becomes planned.                                                   *)
LEMMA PlannedTask ==
    ASSUME JournalInv, NEW t \in Task, history[t] = <<>>,
           Apply(Event(t, "PLANNED", {})), UNCHANGED <<mode, sends>>
    PROVE  /\ ShapeInv' /\ \A u \in Task \ {t} : Same(u)
           /\ TaskInv(t)' /\ TransportInv(t)' /\ history'[t] = Planned1
           /\ observed'[t] = {}
           /\ UNCHANGED <<plans, passes, authority, torn>>
<1>1. Append(history[t], "PLANNED") = Planned1 /\ Planned1 \in Lifecycle
  BY NextStage, Stages
<1>2. {} \in SUBSET Result /\ TaskInv(t) /\ TransportInv(t)
  BY DEF JournalInv
<1>3. /\ ShapeInv' /\ \A u \in Task \ {t} : Same(u)
      /\ history'[t] = Planned1 /\ credited'[t] = credited[t] \cup {}
      /\ transport'[t] = IF "PLANNED" # "DISPATCHED" THEN transport[t]
                         ELSE IF t \in EmptyTask THEN "returned" ELSE "ready"
      /\ UNCHANGED <<plans, passes, authority, torn, activated, outputs,
                     attempts, observed, mode, sends>>
  BY <1>1, <1>2, EventEffect, Zenon
<1>4. TaskInv(t)'
  BY <1>2, <1>3, Stages DEF TaskInv
<1>5. TransportInv(t)'
  BY <1>2, <1>3, Stages DEF TransportInv
<1> QED BY <1>2, <1>3, <1>4, <1>5 DEF TaskInv

(* A planned task becomes activated.                                         *)
LEMMA ActivatedTask ==
    ASSUME JournalInv, NEW t \in Task, history[t] = Planned1, t \in activated,
           Apply(Event(t, "ACTIVATED", {})), UNCHANGED <<mode, sends>>
    PROVE  /\ ShapeInv' /\ \A u \in Task \ {t} : Same(u)
           /\ TaskInv(t)' /\ TransportInv(t)' /\ history'[t] = Activated2
           /\ observed'[t] = {}
           /\ UNCHANGED <<plans, passes, authority, torn>>
<1>1. Append(history[t], "ACTIVATED") = Activated2 /\ Activated2 \in Lifecycle
  BY NextStage, Stages
<1>2. {} \in SUBSET Result /\ TaskInv(t) /\ TransportInv(t)
  BY DEF JournalInv
<1>3. /\ ShapeInv' /\ \A u \in Task \ {t} : Same(u)
      /\ history'[t] = Activated2 /\ credited'[t] = credited[t] \cup {}
      /\ transport'[t] = IF "ACTIVATED" # "DISPATCHED" THEN transport[t]
                         ELSE IF t \in EmptyTask THEN "returned" ELSE "ready"
      /\ UNCHANGED <<plans, passes, authority, torn, activated, outputs,
                     attempts, observed, mode, sends>>
  BY <1>1, <1>2, EventEffect, Zenon
<1>4. TaskInv(t)'
  BY <1>2, <1>3, Stages DEF TaskInv
<1>5. TransportInv(t)'
  BY <1>2, <1>3, Stages DEF TransportInv
<1>6. observed[t] = {}
  BY <1>2 DEF TaskInv
<1> QED BY <1>3, <1>4, <1>5, <1>6

(* An activated task is dispatched, by a live journal.                       *)
LEMMA DispatchedTask ==
    ASSUME JournalInv, NEW t \in Task, history[t] = Activated2, observed[t] = {},
           mode = "live", Apply(Event(t, "DISPATCHED", {})), UNCHANGED <<mode, sends>>
    PROVE  /\ ShapeInv' /\ \A u \in Task \ {t} : Same(u)
           /\ TaskInv(t)' /\ TransportInv(t)' /\ history'[t] = Dispatched
           /\ observed'[t] = {}
           /\ UNCHANGED <<plans, passes, authority, torn>>
<1>1. Append(history[t], "DISPATCHED") = Dispatched /\ Dispatched \in Lifecycle
  BY NextStage, Stages
<1>2. {} \in SUBSET Result /\ TaskInv(t) /\ TransportInv(t)
  BY DEF JournalInv
<1>3. /\ ShapeInv' /\ \A u \in Task \ {t} : Same(u)
      /\ history'[t] = Dispatched /\ credited'[t] = credited[t] \cup {}
      /\ transport'[t] = IF "DISPATCHED" # "DISPATCHED" THEN transport[t]
                         ELSE IF t \in EmptyTask THEN "returned" ELSE "ready"
      /\ UNCHANGED <<plans, passes, authority, torn, activated, outputs,
                     attempts, observed, mode, sends>>
  BY <1>1, <1>2, EventEffect, Zenon
<1>4. Activated("FAILED") \in FinalResult(t)'
  BY <1>2, <1>3 DEF TaskInv, FinalResult, EarlyResult
<1>5. TaskInv(t)'
  BY <1>2, <1>3, <1>4, Stages DEF TaskInv
<1>6. TransportInv(t)'
  BY <1>2, <1>3, Stages DEF TransportInv, TaskInv
<1> QED BY <1>3, <1>5, <1>6

(* A file of a task other than its events and results.                       *)
LEMMA TaskFileEffect ==
    ASSUME JournalInv, NEW t \in Task, NEW kind \in {"activation", "output", "attempt"},
           Apply(TaskFile(kind, t)), UNCHANGED <<mode, sends>>
    PROVE  /\ ShapeInv' /\ \A u \in Task \ {t} : Same(u)
           /\ t \in activated' <=> t \in activated \/ kind = "activation"
           /\ t \in outputs' <=> t \in outputs \/ kind = "output"
           /\ t \in attempts' <=> t \in attempts \/ kind = "attempt"
           /\ UNCHANGED <<plans, passes, authority, torn, observed, history,
                          credited, transport, mode, sends>>
<1>1. /\ activated' = IF kind = "activation" THEN activated \cup {t} ELSE activated
      /\ outputs' = IF kind = "output" THEN outputs \cup {t} ELSE outputs
      /\ attempts' = IF kind = "attempt" THEN attempts \cup {t} ELSE attempts
      /\ UNCHANGED <<plans, passes, authority, torn, observed, history,
                     credited, transport>>
  BY ApplyTaskFile DEF JournalInv
<1>2. ShapeInv'
  BY <1>1 DEF JournalInv, ShapeInv
<1> QED BY <1>1, <1>2 DEF Same, SameFiles

(* The activation of a planned task is written.                              *)
LEMMA ActivationTask ==
    ASSUME JournalInv, NEW t \in Task, history[t] = Planned1, observed[t] = {},
           Apply(TaskFile("activation", t)), UNCHANGED <<mode, sends>>
    PROVE  /\ ShapeInv' /\ \A u \in Task \ {t} : Same(u)
           /\ TaskInv(t)' /\ TransportInv(t)' /\ t \in activated'
           /\ UNCHANGED <<plans, passes, authority, torn, history, observed>>
<1>1. TaskInv(t) /\ TransportInv(t)
  BY DEF JournalInv
<1>2. /\ ShapeInv' /\ t \in activated' /\ \A u \in Task \ {t} : Same(u)
      /\ t \in outputs' <=> t \in outputs
      /\ t \in attempts' <=> t \in attempts
      /\ UNCHANGED <<plans, passes, authority, torn, observed, history,
                     credited, transport, mode, sends>>
  BY TaskFileEffect
<1>3. TaskInv(t)'
  BY <1>1, <1>2, Stages DEF TaskInv
<1>4. TransportInv(t)'
  BY <1>1, <1>2 DEF TransportInv
<1> QED BY <1>2, <1>3, <1>4

(* The output or the provider attempt of a dispatched task is written.       *)
LEMMA RetainedTask ==
    ASSUME JournalInv, NEW t \in Task, NEW kind \in {"output", "attempt"},
           history[t] = Dispatched, observed[t] = {}, Len(sends[t]) = 1,
           t \notin outputs \cup attempts \cup EmptyTask,
           Apply(TaskFile(kind, t)), UNCHANGED <<mode, sends>>
    PROVE  /\ ShapeInv' /\ \A u \in Task \ {t} : Same(u)
           /\ TaskInv(t)' /\ TransportInv(t)'
           /\ UNCHANGED <<plans, passes, authority, torn, history, observed>>
<1>1. TaskInv(t) /\ TransportInv(t)
  BY DEF JournalInv
<1>2. /\ ShapeInv' /\ \A u \in Task \ {t} : Same(u)
      /\ t \in activated' <=> t \in activated
      /\ t \in outputs' <=> t \in outputs \/ kind = "output"
      /\ t \in attempts' <=> t \in attempts \/ kind = "attempt"
      /\ UNCHANGED <<plans, passes, authority, torn, observed, history,
                     credited, transport, mode, sends>>
  BY TaskFileEffect
<1>3. \E r : r \in FinalResult(t)'
  BY DEF FinalResult, EarlyResult
<1>4. TaskInv(t)'
  BY <1>1, <1>2, <1>3, Stages DEF TaskInv
<1>5. TransportInv(t)'
  BY <1>1, <1>2 DEF TransportInv
<1> QED BY <1>2, <1>4, <1>5

(* A result is recorded: the one an operation ends with, or the UNCERTAIN    *)
(* one of the recovery.                                                      *)
LEMMA ResultTask ==
    ASSUME JournalInv, NEW t \in Task, NEW r \in Result,
           \/ observed[t] = {} /\ \E kind \in EndKind : Ends(t, kind, r)
           \/ mode # "live" /\ history[t] = Dispatched /\ r = Uncertain,
           Apply(ResultFile(t, r)), UNCHANGED <<mode, sends>>
    PROVE  /\ ShapeInv' /\ \A u \in Task \ {t} : Same(u)
           /\ TaskInv(t)' /\ TransportInv(t)'
           /\ observed'[t] = observed[t] \cup {r}
           /\ UNCHANGED <<plans, passes, authority, torn, history, activated,
                          outputs, transport>>
<1>1. TaskInv(t) /\ TransportInv(t) /\ ShapeInv
  BY DEF JournalInv
<1>2. /\ observed' = [observed EXCEPT ![t] = @ \cup {r}]
      /\ UNCHANGED <<plans, passes, authority, torn, activated, outputs,
                     attempts, history, credited, transport>>
  BY ApplyResult DEF JournalInv
<1>3. observed'[t] = observed[t] \cup {r} /\ \A u \in Task \ {t} : Same(u)
  BY <1>1, <1>2 DEF ShapeInv, Same, SameFiles
<1>4. ShapeInv'
  BY <1>1, <1>2 DEF ShapeInv
<1>5. FinalResult(t)' = FinalResult(t)
  BY <1>2 DEF FinalResult
<1>6. Uncertain \notin FinalResult(t) /\ Uncertain \notin EarlyResult
      /\ Uncertain \notin LocalResult
  BY DEF FinalResult, EarlyResult, LocalResult, Uncertain, Activated, Preflight
<1>7. TaskInv(t)'
  <2>1. CASE history[t] = Dispatched
    <3>1. \E q \in FinalResult(t) : observed'[t] \subseteq {q, Uncertain}
      <4>1. CASE observed[t] = {} /\ r \in FinalResult(t)
        BY <1>3, <4>1
      <4>2. CASE r = Uncertain
        BY <1>1, <1>3, <2>1, <4>2 DEF TaskInv
      <4> QED BY <2>1, <4>1, <4>2, Stages DEF Ends
    <3> QED BY <1>1, <1>2, <1>5, <2>1, <3>1, Stages DEF TaskInv
  <2>2. CASE history[t] = Planned1
    <3>1. observed[t] = {} /\ r \in LocalResult /\ t \notin activated
      BY <2>2, Stages DEF Ends
    <3> QED BY <1>1, <1>2, <1>3, <2>2, <3>1, Stages DEF TaskInv
  <2>3. CASE history[t] = Activated2
    <3>1. observed[t] = {} /\ r \in EarlyResult
      BY <2>3, Stages DEF Ends
    <3> QED BY <1>1, <1>2, <1>3, <2>3, <3>1, Stages DEF TaskInv
  <2> QED BY <2>1, <2>2, <2>3 DEF Ends
<1>8. TransportInv(t)'
  <2>1. mode = "live" /\ history[t] = Dispatched =>
           r \in FinalResult(t) /\ transport[t] = "returned"
    BY Stages DEF Ends
  <2>2. mode = "live" /\ history[t] = Dispatched => Uncertain \notin observed'[t]
    BY <1>1, <1>3, <1>6, <2>1 DEF TransportInv
  <2>3. transport[t] \notin {"ready", "retrying"}
    <3>1. CASE mode # "live"
      BY <1>1, <3>1 DEF TransportInv
    <3>2. CASE mode = "live"
      BY <1>1, <2>1, <3>2, Stages DEF TransportInv, Ends
    <3> QED BY <3>1, <3>2
  <2> QED BY <1>1, <1>2, <2>2, <2>3 DEF TransportInv
<1> QED BY <1>2, <1>3, <1>4, <1>7, <1>8

(* The terminal event of a task may be written: its result is on record.     *)
Closes(t, kind, r) ==
    \/ /\ kind = "TERMINAL" /\ history[t] = Dispatched
       /\ \/ r \in FinalResult(t) /\ observed[t] = {r}
          \/ r = Uncertain /\ Uncertain \in observed[t]
    \/ /\ kind = "PREFLIGHT_TERMINAL" /\ history[t] = Planned1
       /\ r \in LocalResult /\ observed[t] = {r}
    \/ /\ kind = "ACTIVATED_PREFLIGHT_TERMINAL" /\ history[t] = Activated2
       /\ r \in EarlyResult /\ observed[t] = {r}

(* A task ends.                                                              *)
LEMMA EndedTask ==
    ASSUME JournalInv, NEW t \in Task, NEW kind, NEW r \in Result,
           Closes(t, kind, r), Apply(Event(t, kind, {r})), UNCHANGED <<mode, sends>>
    PROVE  /\ ShapeInv' /\ \A u \in Task \ {t} : Same(u)
           /\ TaskInv(t)' /\ TransportInv(t)' /\ history'[t] \in Concluded
           /\ UNCHANGED <<plans, passes, authority, torn>>
<1>1. TaskInv(t) /\ TransportInv(t)
  BY DEF JournalInv
<1> DEFINE rs == {r}
<1>2. rs \in SUBSET Result
  OBVIOUS
<1> HIDE DEF rs
<1>3. kind # "DISPATCHED"
  BY DEF Closes
<1>4. Append(history[t], kind) \in Lifecycle
  BY NextStage, Stages DEF Closes
<1>5. /\ Append(history[t], kind) \in Concluded
      /\ kind = "TERMINAL" => Append(history[t], kind) = Terminal4
      /\ kind = "PREFLIGHT_TERMINAL" => Append(history[t], kind) = Local2
      /\ kind = "ACTIVATED_PREFLIGHT_TERMINAL" => Append(history[t], kind) = Early3
  BY NextStage, Stages DEF Closes
<1>6. /\ ShapeInv' /\ \A u \in Task \ {t} : Same(u)
      /\ history'[t] = Append(history[t], kind) /\ credited'[t] = credited[t] \cup rs
      /\ transport'[t] = IF kind # "DISPATCHED" THEN transport[t]
                         ELSE IF t \in EmptyTask THEN "returned" ELSE "ready"
      /\ UNCHANGED <<plans, passes, authority, torn, activated, outputs,
                     attempts, observed, mode, sends>>
  <2>1. Apply(Event(t, kind, rs))
    BY DEF rs
  <2> QED BY <1>2, <1>4, <2>1, EventEffect, Zenon
<1>7. FinalResult(t)' = FinalResult(t)
  BY <1>6 DEF FinalResult
<1>8. credited[t] = {}
  BY <1>1 DEF TaskInv, Closes
<1>9. credited'[t] = {r}
  BY <1>6, <1>8 DEF rs
<1>10. TaskInv(t)'
  <2>1. CASE kind = "TERMINAL"
    <3>1. history[t] = Dispatched /\ history'[t] = Terminal4
      BY <1>5, <1>6, <2>1 DEF Closes
    <3>2. \E q \in FinalResult(t) : \/ observed[t] = {q} /\ {r} = {q}
                                    \/ /\ observed[t] \subseteq {q, Uncertain}
                                       /\ Uncertain \in observed[t] /\ {r} = {Uncertain}
      <4>1. CASE r \in FinalResult(t) /\ observed[t] = {r}
        BY <4>1
      <4>2. CASE r = Uncertain /\ Uncertain \in observed[t]
        BY <1>1, <3>1, <4>2 DEF TaskInv
      <4> QED BY <2>1, <4>1, <4>2 DEF Closes
    <3>3. t \in activated' /\ Len(sends'[t]) \in {0, 1}
      BY <1>1, <1>6, <3>1 DEF TaskInv
    <3>4. /\ t \in outputs' \cup attempts' => t \notin EmptyTask /\ Len(sends'[t]) = 1
          /\ t \notin outputs' \cap attempts'
      BY <1>1, <1>6 DEF TaskInv
    <3>5. \E q \in FinalResult(t)' :
             \/ observed'[t] = {q} /\ credited'[t] = {q}
             \/ /\ observed'[t] \subseteq {q, Uncertain} /\ Uncertain \in observed'[t]
                /\ credited'[t] = {Uncertain}
      BY <1>6, <1>7, <1>9, <3>2
    <3> QED BY <3>1, <3>3, <3>4, <3>5, Stages DEF TaskInv
  <2>2. CASE kind = "PREFLIGHT_TERMINAL"
    <3>1. history[t] = Planned1 /\ history'[t] = Local2 /\ r \in LocalResult
          /\ observed[t] = {r}
      BY <1>5, <1>6, <2>2 DEF Closes
    <3>2. t \notin activated
      BY <1>1, <3>1 DEF TaskInv
    <3> QED BY <1>1, <1>6, <1>9, <3>1, <3>2, Stages DEF TaskInv
  <2>3. CASE kind = "ACTIVATED_PREFLIGHT_TERMINAL"
    <3>1. history[t] = Activated2 /\ history'[t] = Early3 /\ r \in EarlyResult
          /\ observed[t] = {r}
      BY <1>5, <1>6, <2>3 DEF Closes
    <3> QED BY <1>1, <1>6, <1>9, <3>1, Stages DEF TaskInv
  <2> QED BY <2>1, <2>2, <2>3 DEF Closes
<1>11. TransportInv(t)'
  <2>1. transport[t] \notin {"ready", "retrying"}
    BY <1>1 DEF TransportInv, Closes
  <2> QED BY <1>1, <1>3, <1>5, <1>6, <2>1, Stages DEF TransportInv
<1> QED BY <1>5, <1>6, <1>10, <1>11

-----------------------------------------------------------------------------
(* From the files of one task to the whole journal.                          *)

(* The event a task waits for is the last write of its operation.            *)
LEMMA ConcludingHead ==
    ASSUME NEW t, Concluding(t)
    PROVE  /\ Head(todo).file = "event" /\ Head(todo).task = t
           /\ Head(todo).result # {}
<1>1. PICK kind, r : todo = <<Event(t, kind, {r})>>
  BY DEF Concluding
<1>2. Head(todo) = Event(t, kind, {r})
  BY <1>1
<1> QED BY <1>2 DEF Event

(* A step that changes one task, and what else it must establish.            *)
LEMMA OneTaskStep ==
    ASSUME JournalInv, NEW t \in Task, \A u \in Task \ {t} : Same(u),
           ShapeInv', TaskInv(t)', TransportInv(t)',
           UNCHANGED <<plans, passes, authority, torn, mode>>,
           history[t] \notin Concluded,
           history[t] # <<>> => history'[t] # <<>>,
           history[t] = <<>> /\ history'[t] # <<>> =>
              PassOf[t] <= plans /\ \A u \in Task : u < t => history[u] # <<>>,
           TodoInv', PendingInv'
    PROVE  JournalInv'
<1>1. ASSUME NEW u \in Task PROVE TaskInv(u)' /\ TransportInv(u)'
  <2>1. CASE u # t
    BY <2>1, FrameTask, FrameTransport DEF JournalInv, Same
  <2> QED BY <2>1
<1>2. \A u \in Task \ {t} : SameFiles(u)
  BY DEF Same
<1>3. CampaignInv'
  BY <1>2, FrameCampaign
<1>4. SealInv'
  BY DEF JournalInv, SealInv
<1> QED BY <1>1, <1>3, <1>4 DEF JournalInv

(* The other tasks' results still wait for nobody.                           *)
LEMMA PendingFrame ==
    ASSUME PendingInv, mode' = mode, NEW t \in Task,
           \A u \in Task \ {t} : Same(u) /\ ~Concluding(u),
           history'[t] \in {Planned1, Activated2, Dispatched} /\ observed'[t] # {} =>
              transport'[t] = "abandoned" \/ Concluding(t)'
    PROVE  PendingInv'
  BY DEF PendingInv, Same, SameFiles

(* One element in front of a sequence.                                       *)
LEMMA Cons ==
    ASSUME NEW S, NEW x \in S, NEW s \in Seq(S)
    PROVE  <<x>> \o s # <<>> /\ Head(<<x>> \o s) = x /\ Tail(<<x>> \o s) = s
<1> DEFINE u == <<x>> \o s
<1>1. u \in Seq(S) /\ Len(u) = Len(s) + 1 /\ u[1] = x
  OBVIOUS
<1>2. \A i \in 1 .. Len(s) : u[i + 1] = s[i]
  OBVIOUS
<1> HIDE DEF u
<1>3. u # <<>> /\ Head(u) = x /\ Tail(u) \in Seq(S) /\ Len(Tail(u)) = Len(s)
      /\ \A i \in 1 .. Len(s) : Tail(u)[i] = u[i + 1]
  BY <1>1, HeadTailProperties
<1>4. Tail(u) = s
  BY <1>2, <1>3, SeqEqual
<1> QED BY <1>3, <1>4 DEF u

-----------------------------------------------------------------------------
(* The running operation makes a write.                                      *)

(* A plan file: the pass of the next plan has no task with files yet.        *)
LEMMA WritePlan ==
    ASSUME JournalInv, Write, ~authority, plans < NPasses, Len(passes) = plans,
           \A p \in 1 .. Len(passes) : passes[p] = "COMPLETE",
           todo = <<PlanFile>> \o PlannedEvents(plans + 1)
    PROVE  JournalInv'
<1> DEFINE E == {Event(i, "PLANNED", {}) : i \in Nat}
<1>1. plans \in Nat /\ plans + 1 \in Pass /\ ShapeInv
  BY SizeAssumption DEF JournalInv, ShapeInv, Pass
<1>2. PICK k \in Task, n \in Nat \ {0} :
          /\ TasksOf(plans + 1) = k .. (k + n - 1)
          /\ PlannedEvents(plans + 1) = PlanRest(k, n)
  BY <1>1, PassInterval
<1>3. k \in Nat /\ PlanRest(k, n) \in Seq(E)
  <2>1. k \in Nat
    BY DEF Task
  <2> QED BY <2>1, PlanRestTail
<1>4. Head(todo) = PlanFile /\ Tail(todo) = PlanRest(k, n)
  <2>1. PlanRest(k, n) \in Seq(E \cup {PlanFile}) /\ PlanFile \in E \cup {PlanFile}
    BY <1>3
  <2> HIDE DEF E
  <2> QED BY <1>2, <2>1, Cons
<1>5. Apply(PlanFile) /\ todo' = PlanRest(k, n) /\ UNCHANGED <<mode, sends>> /\ mode = "live"
  BY <1>4 DEF Write
<1>6. /\ plans' = plans + 1
      /\ UNCHANGED <<passes, authority, torn, activated, outputs, attempts,
                     observed, history, credited, transport>>
  BY <1>5, ApplyPlan DEF JournalInv
<1>7. ShapeInv'
  <2>1. plans' \in 0 .. NPasses
    BY <1>1, <1>6, SizeAssumption
  <2> QED BY <1>1, <1>5, <1>6, <2>1, Zenon DEF ShapeInv
<1>8. \A u \in Task : Same(u)
  BY <1>5, <1>6 DEF Same, SameFiles
<1>9. \A u \in Task : TaskInv(u)' /\ TransportInv(u)'
  BY <1>5, <1>8, FrameTask, FrameTransport DEF JournalInv, Same
<1>10. CampaignInv'
  <2>1. \A p \in 1 .. Len(passes) : DerivedPassStatus(p)' = DerivedPassStatus(p)
    BY <1>6, FrameDerived
  <2>2. \A t \in Task : PassOf[t] > plans + 1 => PassOf[t] > plans
    BY <1>1, PassAssumption DEF Pass
  <2>3. Len(passes') \in {plans' - 1, plans'} /\ 1 .. plans' - 1 = 1 .. Len(passes)
    BY <1>1, <1>6
  <2>4. \A t \in Task : PassOf[t] > plans' => history'[t] = <<>>
    BY <1>6, <2>2 DEF JournalInv, CampaignInv
  <2>5. \A p \in 1 .. Len(passes') : /\ \A t \in TasksOf(p) : history'[t] \in Concluded
                                     /\ passes'[p] = DerivedPassStatus(p)'
    BY <1>6, <2>1 DEF JournalInv, CampaignInv
  <2>6. \A t, u \in Task : t < u /\ history'[u] # <<>> => history'[t] # <<>>
    BY <1>6 DEF JournalInv, CampaignInv
  <2>7. \A p \in 1 .. plans' - 1 : passes'[p] = "COMPLETE"
    BY <1>6, <2>3
  <2> QED BY <2>3, <2>4, <2>5, <2>6, <2>7 DEF CampaignInv, TasksOf
<1>11. TodoInv'
  <2>1. ASSUME NEW t \in Task
        PROVE  t \in k .. (k + n - 1) <=> PassOf[t] = plans' /\ history'[t] = <<>>
    <3>1. t \in k .. (k + n - 1) <=> PassOf[t] = plans + 1
      BY <1>2 DEF TasksOf
    <3>2. PassOf[t] = plans + 1 => history[t] = <<>>
      BY <1>1 DEF JournalInv, CampaignInv
    <3> QED BY <1>6, <3>1, <3>2
  <2>2. k + n - 1 <= NTasks
    <3>1. k + n - 1 \in k .. (k + n - 1)
      BY <1>3
    <3>2. k + n - 1 \in Task
      BY <1>2, <3>1 DEF TasksOf
    <3> QED BY <3>2 DEF Task
  <2>3. Planning'
    BY <1>5, <2>1, <2>2 DEF Planning
  <2> QED BY <1>5, <1>6, <2>3 DEF TodoInv
<1>12. PendingInv'
  <2>1. \A u \in Task : ~Concluding(u)
    BY <1>4, ConcludingHead DEF PlanFile
  <2> QED BY <1>5, <1>6, <2>1 DEF JournalInv, PendingInv
<1>13. SealInv'
  BY <1>5, <1>6 DEF JournalInv, SealInv
<1> QED BY <1>7, <1>9, <1>10, <1>11, <1>12, <1>13 DEF JournalInv

(* A PLANNED event: every task before it has one.                            *)
LEMMA WritePlanned ==
    ASSUME JournalInv, Write, ~authority, NEW k \in Task, NEW n \in Nat \ {0},
           todo = PlanRest(k, n),
           \A t \in Task : t \in k .. (k + n - 1) <=> PassOf[t] = plans /\ history[t] = <<>>,
           k + n - 1 <= NTasks
    PROVE  JournalInv'
<1>1. k \in Nat /\ ShapeInv /\ plans \in Nat
  BY SizeAssumption DEF Task, JournalInv, ShapeInv
<1>2. Head(todo) = Event(k, "PLANNED", {}) /\ Tail(todo) = PlanRest(k + 1, n - 1)
      /\ (n = 1 => Tail(todo) = <<>>)
  BY <1>1, PlanRestTail
<1>3. Apply(Event(k, "PLANNED", {})) /\ todo' = PlanRest(k + 1, n - 1)
      /\ (n = 1 => todo' = <<>>) /\ UNCHANGED <<mode, sends>> /\ mode = "live"
  BY <1>2 DEF Write
<1>4. history[k] = <<>> /\ PassOf[k] = plans
  <2>1. k \in k .. (k + n - 1)
    BY <1>1
  <2> QED BY <2>1
<1>5. /\ ShapeInv' /\ \A u \in Task \ {k} : Same(u)
      /\ TaskInv(k)' /\ TransportInv(k)' /\ history'[k] = Planned1
      /\ observed'[k] = {}
      /\ UNCHANGED <<plans, passes, authority, torn>>
  BY <1>3, <1>4, PlannedTask
<1>6. ASSUME NEW u \in Task, u < k PROVE history[u] # <<>>
  <2>1. PassOf[u] <= plans /\ PassOf[u] \in Nat \ {0}
    BY <1>4, <1>6, PassAssumption, SizeAssumption DEF Pass
  <2>2. CASE PassOf[u] = plans
    BY <1>1, <1>6, <2>2 DEF Task
  <2>3. CASE PassOf[u] < plans
    <3>1. PassOf[u] \in 1 .. Len(passes)
      BY <1>1, <2>1, <2>3 DEF JournalInv, CampaignInv
    <3>2. history[u] \in Concluded
      BY <3>1 DEF JournalInv, CampaignInv, TasksOf
    <3> QED BY <3>2, Stages
  <2> QED BY <1>1, <2>1, <2>2, <2>3
<1>7. TodoInv'
  <2>1. CASE n = 1
    BY <1>3, <2>1 DEF TodoInv
  <2>2. CASE n # 1
    <3>1. k + 1 \in Task /\ n - 1 \in Nat \ {0} /\ (k + 1) + (n - 1) - 1 = k + n - 1
      BY <1>1, <2>2, SizeAssumption DEF Task
    <3>2. ASSUME NEW t \in Task
          PROVE  t \in (k + 1) .. ((k + 1) + (n - 1) - 1)
                    <=> PassOf[t] = plans' /\ history'[t] = <<>>
      <4>1. CASE t = k
        BY <1>1, <1>5, <4>1, Stages
      <4>2. CASE t # k
        <5>1. history'[t] = history[t]
          BY <1>5, <4>2 DEF Same, SameFiles
        <5>2. t \in (k + 1) .. (k + n - 1) <=> t \in k .. (k + n - 1)
          BY <1>1, <4>2 DEF Task
        <5> QED BY <1>5, <3>1, <5>1, <5>2
      <4> QED BY <4>1, <4>2
    <3>3. Planning'
      BY <1>3, <3>1, <3>2 DEF Planning
    <3> QED BY <1>3, <1>5, <3>3 DEF TodoInv
  <2> QED BY <2>1, <2>2
<1>8. PendingInv'
  <2>1. \A u \in Task : ~Concluding(u)
    BY <1>2, ConcludingHead DEF Event
  <2> QED BY <1>3, <1>5, <2>1, PendingFrame DEF JournalInv
<1>9. history[k] \notin Concluded /\ history'[k] # <<>>
  BY <1>4, <1>5, Stages
<1>10. PassOf[k] <= plans
  BY <1>1, <1>4
<1> QED BY <1>3, <1>5, <1>6, <1>7, <1>8, <1>9, <1>10, OneTaskStep, Zenon

(* The first write of an operation of one or two writes, and what is left.   *)
LEMMA HeadTail ==
    ASSUME NEW a, NEW b
    PROVE  /\ Head(<<a>>) = a /\ Tail(<<a>>) = <<>>
           /\ Head(<<a, b>>) = a /\ Tail(<<a, b>>) = <<b>>
  OBVIOUS

(* The writes of activate_task.                                              *)
LEMMA WriteActivating ==
    ASSUME JournalInv, Write, ~authority, NEW t \in Task, Activating(t)
    PROVE  JournalInv'
<1>1. mode = "live" /\ UNCHANGED <<mode, sends>> /\ todo' = Tail(todo) /\ Apply(Head(todo))
  BY DEF Write
<1>2. history[t] = Planned1 /\ history[t] \notin Concluded /\ history[t] # <<>>
  BY Stages DEF Activating
<1>3. CASE todo = <<TaskFile("activation", t), Event(t, "ACTIVATED", {})>> /\ observed[t] = {}
  <2>1. Head(todo) = TaskFile("activation", t) /\ todo' = <<Event(t, "ACTIVATED", {})>>
    BY <1>1, <1>3, HeadTail
  <2>2. Apply(TaskFile("activation", t))
    BY <1>1, <2>1
  <2>3. /\ ShapeInv' /\ \A u \in Task \ {t} : Same(u)
        /\ TaskInv(t)' /\ TransportInv(t)' /\ t \in activated'
        /\ UNCHANGED <<plans, passes, authority, torn, history, observed>>
    BY <1>1, <1>2, <1>3, <2>2, ActivationTask
  <2>4. TodoInv'
    <3>1. Activating(t)'
      BY <1>2, <2>1, <2>3 DEF Activating
    <3> QED BY <1>1, <2>3, <3>1 DEF TodoInv
  <2>5. PendingInv'
    <3>1. \A u \in Task : ~Concluding(u)
      BY <2>1, ConcludingHead DEF TaskFile
    <3> QED BY <1>1, <1>3, <2>3, <3>1, PendingFrame DEF JournalInv
  <2> QED BY <1>1, <1>2, <2>3, <2>4, <2>5, OneTaskStep, Zenon
<1>4. CASE todo = <<Event(t, "ACTIVATED", {})>> /\ t \in activated
  <2>1. Head(todo) = Event(t, "ACTIVATED", {}) /\ todo' = <<>>
    BY <1>1, <1>4, HeadTail
  <2>2. Apply(Event(t, "ACTIVATED", {}))
    BY <1>1, <2>1
  <2>3. /\ ShapeInv' /\ \A u \in Task \ {t} : Same(u)
        /\ TaskInv(t)' /\ TransportInv(t)' /\ history'[t] = Activated2
        /\ observed'[t] = {}
        /\ UNCHANGED <<plans, passes, authority, torn>>
    BY <1>1, <1>2, <1>4, <2>2, ActivatedTask
  <2>4. TodoInv'
    BY <2>1 DEF TodoInv
  <2>5. PendingInv'
    <3>1. \A u \in Task : ~Concluding(u)
      BY <2>1, ConcludingHead DEF Event
    <3> QED BY <1>1, <2>3, <3>1, PendingFrame DEF JournalInv
  <2>6. history'[t] # <<>>
    BY <2>3, Stages
  <2> QED BY <1>1, <1>2, <2>3, <2>4, <2>5, <2>6, OneTaskStep, Zenon
<1> QED BY <1>3, <1>4 DEF Activating

(* The write of mark_dispatched.                                             *)
LEMMA WriteDispatching ==
    ASSUME JournalInv, Write, ~authority, NEW t \in Task, Dispatching(t)
    PROVE  JournalInv'
<1>1. mode = "live" /\ UNCHANGED <<mode, sends>> /\ todo' = Tail(todo) /\ Apply(Head(todo))
  BY DEF Write
<1>2. history[t] = Activated2 /\ history[t] \notin Concluded /\ history[t] # <<>>
      /\ observed[t] = {}
  BY Stages DEF Dispatching
<1>3. Head(todo) = Event(t, "DISPATCHED", {}) /\ todo' = <<>>
  BY <1>1, HeadTail DEF Dispatching
<1>4. Apply(Event(t, "DISPATCHED", {}))
  BY <1>1, <1>3
<1>5. /\ ShapeInv' /\ \A u \in Task \ {t} : Same(u)
      /\ TaskInv(t)' /\ TransportInv(t)' /\ history'[t] = Dispatched
      /\ observed'[t] = {}
      /\ UNCHANGED <<plans, passes, authority, torn>>
  BY <1>1, <1>2, <1>4, DispatchedTask
<1>6. TodoInv'
  BY <1>3 DEF TodoInv
<1>7. PendingInv'
  <2>1. \A u \in Task : ~Concluding(u)
    BY <1>3, ConcludingHead DEF Event
  <2> QED BY <1>1, <1>5, <2>1, PendingFrame DEF JournalInv
<1>8. history'[t] # <<>>
  BY <1>5, Stages
<1> QED BY <1>1, <1>2, <1>5, <1>6, <1>7, <1>8, OneTaskStep, Zenon

(* The write of persist_output and of persist_provider_attempt.              *)
LEMMA WriteRetaining ==
    ASSUME JournalInv, Write, ~authority, NEW t \in Task, Retaining(t)
    PROVE  JournalInv'
<1>1. mode = "live" /\ UNCHANGED <<mode, sends>> /\ todo' = Tail(todo) /\ Apply(Head(todo))
  BY DEF Write
<1>2. history[t] = Dispatched /\ history[t] \notin Concluded /\ history[t] # <<>>
      /\ observed[t] = {}
  BY Stages DEF Retaining
<1>3. PICK kind \in {"output", "attempt"} : todo = <<TaskFile(kind, t)>>
  BY DEF Retaining
<1>4. Head(todo) = TaskFile(kind, t) /\ todo' = <<>>
  BY <1>1, <1>3, HeadTail
<1>5. Apply(TaskFile(kind, t))
  BY <1>1, <1>4
<1>6. /\ ShapeInv' /\ \A u \in Task \ {t} : Same(u)
      /\ TaskInv(t)' /\ TransportInv(t)'
      /\ UNCHANGED <<plans, passes, authority, torn, history, observed>>
  BY <1>1, <1>2, <1>5, RetainedTask DEF Retaining
<1>7. TodoInv'
  BY <1>4 DEF TodoInv
<1>8. PendingInv'
  <2>1. \A u \in Task : ~Concluding(u)
    BY <1>4, ConcludingHead DEF TaskFile
  <2> QED BY <1>1, <1>2, <1>6, <2>1, PendingFrame DEF JournalInv
<1> QED BY <1>1, <1>2, <1>6, <1>7, <1>8, OneTaskStep, Zenon

(* The result file of the operations that record how a task ended.           *)
LEMMA WriteRecording ==
    ASSUME JournalInv, Write, ~authority, NEW t \in Task, Recording(t)
    PROVE  JournalInv'
<1>1. mode = "live" /\ UNCHANGED <<mode, sends>> /\ todo' = Tail(todo) /\ Apply(Head(todo))
  BY DEF Write
<1>2. PICK kind \in EndKind, r \in Result :
          /\ Ends(t, kind, r) /\ observed[t] = {}
          /\ todo = <<ResultFile(t, r), Event(t, kind, {r})>>
  BY DEF Recording
<1>3. Head(todo) = ResultFile(t, r) /\ todo' = <<Event(t, kind, {r})>>
  BY <1>1, <1>2, HeadTail
<1>4. Apply(ResultFile(t, r))
  BY <1>1, <1>3
<1>5. /\ ShapeInv' /\ \A u \in Task \ {t} : Same(u)
      /\ TaskInv(t)' /\ TransportInv(t)'
      /\ observed'[t] = observed[t] \cup {r}
      /\ UNCHANGED <<plans, passes, authority, torn, history, activated,
                     outputs, transport>>
  BY <1>1, <1>2, <1>4, ResultTask
<1>6. Concluding(t)'
  <2>1. Ends(t, kind, r)'
    BY <1>2, <1>5 DEF Ends, FinalResult
  <2>2. observed'[t] = {r}
    BY <1>2, <1>5
  <2> QED BY <1>2, <1>3, <2>1, <2>2 DEF Concluding
<1>7. TodoInv'
  BY <1>1, <1>5, <1>6 DEF TodoInv
<1>8. PendingInv'
  <2>1. \A u \in Task : ~Concluding(u)
    BY <1>3, ConcludingHead DEF ResultFile
  <2> QED BY <1>1, <1>5, <1>6, <2>1, PendingFrame DEF JournalInv
<1>9. history[t] \notin Concluded /\ history[t] # <<>>
  BY <1>2, Stages DEF Ends
<1> QED BY <1>1, <1>5, <1>7, <1>8, <1>9, OneTaskStep, Zenon

(* Their terminal event.                                                     *)
LEMMA WriteConcluding ==
    ASSUME JournalInv, Write, ~authority, NEW t \in Task, Concluding(t)
    PROVE  JournalInv'
<1>1. mode = "live" /\ UNCHANGED <<mode, sends>> /\ todo' = Tail(todo) /\ Apply(Head(todo))
  BY DEF Write
<1>2. PICK kind \in EndKind, r \in Result :
          /\ Ends(t, kind, r) /\ observed[t] = {r}
          /\ todo = <<Event(t, kind, {r})>>
  BY DEF Concluding
<1>3. Head(todo) = Event(t, kind, {r}) /\ todo' = <<>>
  BY <1>1, <1>2, HeadTail
<1>4. Apply(Event(t, kind, {r}))
  BY <1>1, <1>3
<1>5. Closes(t, kind, r)
  BY <1>2 DEF Closes, Ends
<1>6. /\ ShapeInv' /\ \A u \in Task \ {t} : Same(u)
      /\ TaskInv(t)' /\ TransportInv(t)' /\ history'[t] \in Concluded
      /\ UNCHANGED <<plans, passes, authority, torn>>
  BY <1>1, <1>4, <1>5, EndedTask
<1>7. TodoInv'
  BY <1>3 DEF TodoInv
<1>8. history[t] \notin Concluded /\ history[t] # <<>> /\ history'[t] # <<>>
      /\ history'[t] \notin {Planned1, Activated2, Dispatched}
  BY <1>2, <1>6, Stages DEF Ends
<1>9. PendingInv'
  <2>1. \A u \in Task \ {t} : ~Concluding(u)
    BY <1>3, ConcludingHead DEF Event
  <2> QED BY <1>1, <1>6, <1>8, <2>1, PendingFrame DEF JournalInv
<1> QED BY <1>1, <1>6, <1>7, <1>8, <1>9, OneTaskStep, Zenon

(* A derived status is a pass status.                                        *)
LEMMA DerivedType ==
    ASSUME NEW p
    PROVE  DerivedPassStatus(p) \in PassStatus
<1> DEFINE S == {r.status : r \in UNION {credited[t] : t \in TasksOf(p)}}
<1> HIDE DEF S
<1>1. DerivedPassStatus(p) =
        CASE S \subseteq {"SUCCEEDED", "EXPLICIT_EMPTY"} -> "COMPLETE"
          [] "FAILED" \in S -> "FAILED"
          [] "FAILED" \notin S /\ "INCONCLUSIVE" \in S -> "INCONCLUSIVE"
          [] OTHER -> "INCOMPLETE"
  BY DEF DerivedPassStatus, S
<1> QED BY <1>1 DEF PassStatus

(* The writes of seal_pass_result and of seal_terminal_report_authority.     *)
LEMMA WriteSealing ==
    ASSUME JournalInv, Write, ~authority, Sealing
    PROVE  JournalInv'
<1>1. mode = "live" /\ UNCHANGED <<mode, sends>> /\ todo' = Tail(todo) /\ Apply(Head(todo))
  BY DEF Write
<1>2. ShapeInv /\ plans \in Nat /\ passes \in Seq(PassStatus) /\ Len(passes) \in Nat
  BY SizeAssumption DEF JournalInv, ShapeInv
<1>3. CASE /\ Len(passes) + 1 <= plans
           /\ \A t \in TasksOf(Len(passes) + 1) : history[t] \in Concluded
           /\ todo = <<PassFile(DerivedPassStatus(Len(passes) + 1))>>
  <2> DEFINE q == Len(passes) + 1
             status == DerivedPassStatus(q)
  <2>1. status \in PassStatus
    BY DerivedType
  <2>2. Head(todo) = PassFile(status) /\ todo' = <<>>
    BY <1>1, <1>3, HeadTail
  <2>3. Apply(PassFile(status))
    BY <1>1, <2>2
  <2>4. /\ passes' = Append(passes, status)
        /\ UNCHANGED <<plans, authority, torn, activated, outputs, attempts,
                       observed, history, credited, transport>>
    BY <2>3, ApplyPass DEF JournalInv
  <2>5. passes' \in Seq(PassStatus) /\ Len(passes') = q /\ passes'[q] = status
        /\ \A p \in 1 .. Len(passes) : passes'[p] = passes[p]
    <3> HIDE DEF status
    <3> QED BY <1>2, <2>1, <2>4
  <2>6. ShapeInv'
    BY <1>1, <1>2, <2>4, <2>5, Zenon DEF ShapeInv
  <2>7. \A u \in Task : Same(u)
    BY <1>1, <2>4 DEF Same, SameFiles
  <2>8. \A u \in Task : TaskInv(u)' /\ TransportInv(u)'
    BY <1>1, <2>7, FrameTask, FrameTransport DEF JournalInv, Same
  <2>9. CampaignInv'
    <3>1. \A p : DerivedPassStatus(p)' = DerivedPassStatus(p)
      BY <2>4, FrameDerived
    <3>2. Len(passes) = plans - 1
      BY <1>2, <1>3 DEF JournalInv, CampaignInv
    <3>3. \A p \in 1 .. Len(passes') : p \in 1 .. Len(passes) \/ p = q
      BY <1>2, <2>5
    <3>4. ASSUME NEW p \in 1 .. Len(passes')
          PROVE  (\A t \in TasksOf(p) : history'[t] \in Concluded)
                 /\ passes'[p] = DerivedPassStatus(p)'
      <4> HIDE DEF q, status
      <4>1. CASE p = q
        <5>1. \A t \in TasksOf(q) : history[t] \in Concluded
          BY <1>3 DEF q
        <5>2. passes'[p] = DerivedPassStatus(p)'
          BY <2>5, <3>1, <4>1 DEF status
        <5> QED BY <2>4, <4>1, <5>1, <5>2
      <4>2. CASE p \in 1 .. Len(passes)
        BY <2>4, <2>5, <3>1, <4>2 DEF JournalInv, CampaignInv
      <4> QED BY <3>3, <4>1, <4>2
    <3>5. \A p \in 1 .. plans' - 1 : passes'[p] = "COMPLETE"
      BY <2>4, <2>5, <3>2 DEF JournalInv, CampaignInv
    <3>6. Len(passes') \in {plans' - 1, plans'}
      BY <1>2, <2>4, <2>5, <3>2
    <3>7. /\ \A t \in Task : PassOf[t] > plans' => history'[t] = <<>>
          /\ \A t, u \in Task : t < u /\ history'[u] # <<>> => history'[t] # <<>>
      BY <2>4 DEF JournalInv, CampaignInv
    <3> QED BY <3>4, <3>5, <3>6, <3>7 DEF CampaignInv, TasksOf
  <2>10. TodoInv'
    BY <2>2 DEF TodoInv
  <2>11. PendingInv'
    <3>1. \A u \in Task : ~Concluding(u)
      BY <2>2, ConcludingHead DEF PassFile
    <3> QED BY <1>1, <2>4, <3>1 DEF JournalInv, PendingInv
  <2>12. SealInv'
    BY <1>1, <2>4 DEF JournalInv, SealInv
  <2> QED BY <2>6, <2>8, <2>9, <2>10, <2>11, <2>12 DEF JournalInv
<1>4. CASE Len(passes) = plans /\ todo = <<AuthorityFile>>
  <2>1. Head(todo) = AuthorityFile /\ todo' = <<>>
    BY <1>1, <1>4, HeadTail
  <2>2. Apply(AuthorityFile)
    BY <1>1, <2>1
  <2>3. /\ authority'
        /\ UNCHANGED <<plans, passes, torn, activated, outputs, attempts,
                       observed, history, credited, transport>>
    BY <2>2, ApplySeal DEF JournalInv
  <2>4. ShapeInv'
    BY <1>1, <1>2, <2>3, Zenon DEF ShapeInv
  <2>5. \A u \in Task : Same(u)
    BY <1>1, <2>3 DEF Same, SameFiles
  <2>6. \A u \in Task : TaskInv(u)' /\ TransportInv(u)'
    BY <1>1, <2>5, FrameTask, FrameTransport DEF JournalInv, Same
  <2>7. CampaignInv'
    <3>1. \A p : DerivedPassStatus(p)' = DerivedPassStatus(p)
      BY <2>3, FrameDerived
    <3> QED BY <2>3, <3>1 DEF JournalInv, CampaignInv, TasksOf
  <2>8. TodoInv'
    BY <2>1 DEF TodoInv
  <2>9. PendingInv'
    <3>1. \A u \in Task : ~Concluding(u)
      BY <2>1, ConcludingHead DEF AuthorityFile
    <3> QED BY <1>1, <2>3, <3>1 DEF JournalInv, PendingInv
  <2>10. SealInv'
    <3>1. authority' \in BOOLEAN
      BY <2>2, ApplyAuthority DEF JournalInv
    <3> QED BY <1>1, <1>4, <2>3, <3>1 DEF JournalInv, SealInv
  <2> QED BY <2>4, <2>6, <2>7, <2>8, <2>9, <2>10 DEF JournalInv
<1> QED BY <1>3, <1>4 DEF Sealing

(* Every write of an operation keeps the invariant.                          *)
LEMMA WriteStep ==
    ASSUME JournalInv, Write
    PROVE  JournalInv'
<1>1. ~authority
  BY DEF JournalInv, TodoInv, Write
<1>2. CASE Planning
  BY <1>1, <1>2, WritePlan, WritePlanned DEF Planning
<1>3. CASE Sealing
  BY <1>1, <1>3, WriteSealing
<1>4. ASSUME NEW t \in Task, \/ Activating(t) \/ Dispatching(t) \/ Retaining(t)
                             \/ Recording(t) \/ Concluding(t)
      PROVE  JournalInv'
  BY <1>1, <1>4, WriteActivating, WriteDispatching, WriteRetaining, WriteRecording,
     WriteConcluding
<1> QED BY <1>2, <1>3, <1>4 DEF JournalInv, TodoInv, Write

-----------------------------------------------------------------------------
(* The other steps.                                                          *)

(* Without a running operation no event is waited for.                       *)
LEMMA Idle ==
    ASSUME todo = <<>>
    PROVE  \A t : ~Concluding(t)
<1>1. SUFFICES ASSUME NEW t, Concluding(t) PROVE FALSE
  OBVIOUS
<1>2. PICK kind, r : todo = <<Event(t, kind, {r})>>
  BY <1>1 DEF Concluding
<1> QED BY <1>2

(* A step that leaves the files, the mode and the transports alone.          *)
LEMMA QuietStep ==
    ASSUME JournalInv, UNCHANGED <<files, mode, transport, sends>>,
           todo = <<>>, TodoInv'
    PROVE  JournalInv'
<1> USE DEF files
<1>1. ShapeInv'
  BY Zenon DEF JournalInv, ShapeInv
<1>2. \A u \in Task : Same(u)
  BY DEF Same, SameFiles
<1>3. \A u \in Task : TaskInv(u)' /\ TransportInv(u)'
  BY <1>2, FrameTask, FrameTransport DEF JournalInv, Same
<1>4. CampaignInv'
  <2>1. \A p : DerivedPassStatus(p)' = DerivedPassStatus(p)
    BY FrameDerived
  <2> QED BY <2>1 DEF JournalInv, CampaignInv, TasksOf
<1>5. PendingInv'
  BY Idle DEF JournalInv, PendingInv
<1>6. SealInv'
  BY DEF JournalInv, SealInv
<1> QED BY <1>1, <1>3, <1>4, <1>5, <1>6 DEF JournalInv

(* An operation begins: its guard establishes what its writes rely on.       *)
LEMMA OperationStep ==
    ASSUME JournalInv, Operation
    PROVE  JournalInv'
<1>1. ASSUME NEW s, Perform(s)
      PROVE  /\ todo' = s /\ todo = <<>> /\ mode' = "live" /\ mode = "live"
             /\ authority' = authority /\ ~authority
             /\ UNCHANGED <<files, mode, transport, sends>>
             /\ TodoInv' => JournalInv'
             /\ \A t \in Task : history[t] \in {Planned1, Activated2, Dispatched}
                                /\ transport[t] # "abandoned" => observed[t] = {}
  <2>1. /\ todo' = s /\ todo = <<>> /\ mode' = "live" /\ mode = "live"
        /\ authority' = authority /\ ~authority
        /\ UNCHANGED <<files, mode, transport, sends>>
    BY <1>1 DEF Perform, Writable, files
  <2>2. TodoInv' => JournalInv'
    BY <2>1, QuietStep
  <2>3. \A t \in Task : history[t] \in {Planned1, Activated2, Dispatched}
                        /\ transport[t] # "abandoned" => observed[t] = {}
    BY <2>1, Idle DEF JournalInv, PendingInv
  <2> QED BY <2>1, <2>2, <2>3
<1> USE DEF files
<1>2. CASE seal_pass_plan
  <2>1. Perform(<<PlanFile>> \o PlannedEvents(plans + 1))
    BY <1>2 DEF seal_pass_plan
  <2>2. PlannedEvents(plans + 1)' = PlannedEvents(plans + 1)
    <3>1. plans' = plans
      BY <1>1, <2>1
    <3> QED BY <3>1 DEF PlannedEvents
  <2>3. Planning'
    <3> HIDE DEF files
    <3> QED BY <1>1, <1>2, <2>1, <2>2 DEF seal_pass_plan, Planning, files
  <2> QED BY <1>1, <2>1, <2>3 DEF TodoInv
<1>3. CASE seal_pass_result
  <2>1. Perform(<<PassFile(DerivedPassStatus(Len(passes) + 1))>>)
    BY <1>3 DEF seal_pass_result
  <2>2. DerivedPassStatus(Len(passes) + 1)' = DerivedPassStatus(Len(passes) + 1)
    BY <1>1, <2>1 DEF DerivedPassStatus, TasksOf
  <2>3. Sealing'
    BY <1>1, <1>3, <2>1, <2>2 DEF seal_pass_result, Sealing, TasksOf
  <2> QED BY <1>1, <2>1, <2>3 DEF TodoInv
<1>4. CASE seal_terminal_report_authority
  <2>1. Perform(<<AuthorityFile>>) /\ Len(passes) = plans
    BY <1>4 DEF seal_terminal_report_authority
  <2>2. Sealing'
    BY <1>1, <2>1 DEF Sealing
  <2> QED BY <1>1, <2>1, <2>2 DEF TodoInv
<1>5. ASSUME NEW t \in Task, activate_task(t) PROVE JournalInv'
  <2>1. Perform(<<TaskFile("activation", t), Event(t, "ACTIVATED", {})>>)
        /\ history[t] = Planned1 /\ transport[t] # "abandoned"
    BY <1>5 DEF activate_task, Planned1
  <2>2. Activating(t)'
    BY <1>1, <2>1 DEF Activating
  <2> QED BY <1>1, <2>1, <2>2 DEF TodoInv
<1>6. ASSUME NEW t \in Task, mark_dispatched(t) PROVE JournalInv'
  <2>1. Perform(<<Event(t, "DISPATCHED", {})>>)
        /\ history[t] = Activated2 /\ transport[t] # "abandoned"
    BY <1>6 DEF mark_dispatched, Activated2
  <2>2. Dispatching(t)'
    BY <1>1, <2>1 DEF Dispatching
  <2> QED BY <1>1, <2>1, <2>2 DEF TodoInv
<1>7. ASSUME NEW t \in Task, NEW kind \in {"output", "attempt"},
             persist_output(t) \/ persist_provider_attempt(t),
             Perform(<<TaskFile(kind, t)>>)
      PROVE  JournalInv'
  <2>1. /\ history[t] = Dispatched /\ transport[t] = "returned"
        /\ t \notin outputs \cup attempts \cup EmptyTask
    BY <1>7 DEF persist_output, persist_provider_attempt, Returned
  <2>2. Len(sends[t]) = 1
    BY <2>1 DEF JournalInv, TransportInv
  <2>3. Retaining(t)'
    BY <1>1, <1>7, <2>1, <2>2 DEF Retaining
  <2> QED BY <1>1, <1>7, <2>3 DEF TodoInv
<1>8. ASSUME NEW t \in Task, NEW kind \in EndKind, NEW r \in Result,
             Ends(t, kind, r), observed[t] = {},
             Perform(<<ResultFile(t, r), Event(t, kind, {r})>>)
      PROVE  JournalInv'
  <2>1. Ends(t, kind, r)'
    BY <1>1, <1>8 DEF Ends, FinalResult
  <2>2. observed'[t] = {} /\ todo' = <<ResultFile(t, r), Event(t, kind, {r})>>
    BY <1>1, <1>8
  <2>3. Recording(t)'
    BY <2>1, <2>2, Zenon DEF Recording
  <2> QED BY <1>1, <1>8, <2>3 DEF TodoInv
<1>9. ASSUME NEW t \in Task, NEW status \in Status, record_terminal(t, status)
      PROVE  JournalInv'
  <2>1. Activated(status) \in FinalResult(t)
    BY <1>9, FailureAssumption DEF record_terminal, FinalResult, EarlyResult
  <2>2. Ends(t, "TERMINAL", Activated(status)) /\ Activated(status) \in Result
    BY <1>9, <2>1 DEF record_terminal, Ends, Returned, Result, Activated
  <2>3. observed[t] = {} /\ "TERMINAL" \in EndKind
        /\ Perform(<<ResultFile(t, Activated(status)), Event(t, "TERMINAL", {Activated(status)})>>)
    BY <1>9 DEF record_terminal, EndKind
  <2> QED BY <1>8, <2>2, <2>3, Zenon
<1>10. ASSUME NEW t \in Task, NEW status \in Status, record_preflight_failure(t, status)
       PROVE  JournalInv'
  <2>1. Preflight(status) \in LocalResult
    BY <1>10, FailureAssumption DEF record_preflight_failure, LocalResult
  <2>2. Ends(t, "PREFLIGHT_TERMINAL", Preflight(status)) /\ Preflight(status) \in Result
    BY <1>10, <2>1 DEF record_preflight_failure, Ends, Result, Preflight, Planned1
  <2>3. observed[t] = {} /\ "PREFLIGHT_TERMINAL" \in EndKind
        /\ Perform(<<ResultFile(t, Preflight(status)),
                      Event(t, "PREFLIGHT_TERMINAL", {Preflight(status)})>>)
    BY <1>10 DEF record_preflight_failure, EndKind
  <2> QED BY <1>8, <2>2, <2>3, Zenon
<1>11. ASSUME NEW t \in Task, NEW status \in Status,
              record_activated_preflight_failure(t, status)
       PROVE  JournalInv'
  <2>1. Activated(status) \in EarlyResult
    BY <1>11, FailureAssumption DEF record_activated_preflight_failure, EarlyResult
  <2>2. Ends(t, "ACTIVATED_PREFLIGHT_TERMINAL", Activated(status))
        /\ Activated(status) \in Result
    BY <1>11, <2>1 DEF record_activated_preflight_failure, Ends, Result, Activated, Activated2
  <2>3. observed[t] = {} /\ "ACTIVATED_PREFLIGHT_TERMINAL" \in EndKind
        /\ Perform(<<ResultFile(t, Activated(status)),
                     Event(t, "ACTIVATED_PREFLIGHT_TERMINAL", {Activated(status)})>>)
    BY <1>11 DEF record_activated_preflight_failure, EndKind
  <2> QED BY <1>8, <2>2, <2>3, Zenon
<1>12. ASSUME NEW t \in Task, persist_output(t) PROVE JournalInv'
  BY <1>7, <1>12 DEF persist_output
<1>13. ASSUME NEW t \in Task, persist_provider_attempt(t) PROVE JournalInv'
  BY <1>7, <1>13 DEF persist_provider_attempt
<1> QED
  BY <1>2, <1>3, <1>4, <1>5, <1>6, <1>9, <1>10, <1>11, <1>12, <1>13 DEF Operation

(* A failing write abandons the task whose end was being recorded.           *)
LEMMA WriteFailsStep ==
    ASSUME JournalInv, WriteFails
    PROVE  JournalInv'
<1>1. mode = "live" /\ todo' = <<>> /\ UNCHANGED <<files, mode, sends>>
      /\ transport' = IF RecordsEnd(Head(todo))
                      THEN [transport EXCEPT ![Head(todo).task] = "abandoned"]
                      ELSE transport
  BY DEF WriteFails
<1> USE DEF files
<1>2. ShapeInv
  BY DEF JournalInv
<1>3. /\ transport' \in [Task -> {"none", "ready", "retrying", "returned", "abandoned"}]
      /\ \A u \in Task : transport'[u] \in {transport[u], "abandoned"}
      /\ \A u \in Task : RecordsEnd(Head(todo)) /\ Head(todo).task = u =>
                            transport'[u] = "abandoned"
  BY <1>1, <1>2 DEF ShapeInv
<1>4. ShapeInv'
  BY <1>1, <1>2, <1>3, Zenon DEF ShapeInv
<1>5. ASSUME NEW u \in Task PROVE TaskInv(u)' /\ TransportInv(u)'
  <2>1. TaskInv(u)'
    <3>1. SameFiles(u)
      BY <1>1 DEF SameFiles
    <3> QED BY <3>1, FrameTask DEF JournalInv
  <2>2. TransportInv(u)'
    BY <1>1, <1>3 DEF JournalInv, TransportInv
  <2> QED BY <2>1, <2>2
<1>6. CampaignInv'
  <2>1. \A p : DerivedPassStatus(p)' = DerivedPassStatus(p)
    BY <1>1, FrameDerived
  <2> QED BY <1>1, <2>1 DEF JournalInv, CampaignInv, TasksOf
<1>7. PendingInv'
  <2>1. ASSUME NEW u \in Task, Concluding(u) PROVE transport'[u] = "abandoned"
    BY <1>3, <2>1, ConcludingHead DEF RecordsEnd
  <2> QED BY <1>1, <1>3, <2>1 DEF JournalInv, PendingInv
<1>8. TodoInv'
  BY <1>1 DEF TodoInv
<1>9. SealInv'
  BY <1>1 DEF JournalInv, SealInv
<1> QED BY <1>4, <1>5, <1>6, <1>7, <1>8, <1>9 DEF JournalInv

(* The request loop of a dispatched task moves on: the task has been sent,   *)
(* by this dispatch only.                                                    *)
LEMMA LoopTask ==
    ASSUME JournalInv, NEW t \in Task, mode = "live", todo = <<>>,
           transport[t] \in {"ready", "retrying"}, NEW after \in {"retrying", "returned"},
           NEW made \in Seq(1 .. MaxAttempts), Len(made) = 1,
           after = "retrying" => made[1] < MaxAttempts,
           transport' = [transport EXCEPT ![t] = after],
           sends' = [sends EXCEPT ![t] = made],
           UNCHANGED <<files, mode, todo>>
    PROVE  JournalInv'
<1>1. UNCHANGED <<plans, history, activated, outputs, attempts, observed, credited,
                  passes, authority, torn, mode, todo>>
  BY DEF files
<1>2. ShapeInv /\ TaskInv(t) /\ TransportInv(t)
  BY DEF JournalInv
<1>3. history[t] = Dispatched /\ observed[t] = {} /\ t \notin EmptyTask
  BY <1>2 DEF TransportInv
<1>4. /\ transport' \in [Task -> {"none", "ready", "retrying", "returned", "abandoned"}]
      /\ sends' \in [Task -> Seq(1 .. MaxAttempts)]
      /\ transport'[t] = after /\ sends'[t] = made
  BY <1>2 DEF ShapeInv
<1>5. ShapeInv'
  BY <1>1, <1>2, <1>4, Zenon DEF ShapeInv
<1>6. \A u \in Task \ {t} : Same(u)
  BY <1>1, <1>2 DEF ShapeInv, Same, SameFiles
<1>7. TaskInv(t)'
  <2>1. FinalResult(t)' = FinalResult(t)
    BY <1>1 DEF FinalResult
  <2> QED BY <1>1, <1>2, <1>3, <1>4, <2>1, Stages DEF TaskInv
<1>8. TransportInv(t)'
  BY <1>1, <1>2, <1>3, <1>4, Stages DEF TransportInv
<1>9. PendingInv'
  <2>1. \A u \in Task : ~Concluding(u)
    BY Idle
  <2> QED BY <1>1, <1>3, <1>6, <2>1, PendingFrame DEF JournalInv
<1>10. TodoInv'
  BY <1>1 DEF TodoInv
<1>11. history[t] \notin Concluded /\ history[t] # <<>> /\ history'[t] # <<>>
  BY <1>1, <1>3, Stages
<1> QED BY <1>1, <1>5, <1>6, <1>7, <1>8, <1>9, <1>10, <1>11, OneTaskStep, Zenon

(* Replacing the only element of a sequence.                                 *)
LEMMA OneElement ==
    ASSUME NEW S, NEW u \in Seq(S), Len(u) = 1, NEW e \in S
    PROVE  /\ u[1] \in S /\ [u EXCEPT ![1] = e] \in Seq(S)
           /\ Len([u EXCEPT ![1] = e]) = 1 /\ [u EXCEPT ![1] = e][1] = e
<1>1. 1 \in 1 .. Len(u)
  OBVIOUS
<1>2. u[1] \in S
  BY <1>1, ElementOfSeq
<1> QED BY <1>1, <1>2, ExceptSeq

(* The first request, a later one, and a later one that is refused.          *)
LEMMA RequestLoopStep ==
    ASSUME JournalInv, RequestLoop
    PROVE  JournalInv'
<1>1. PICK t \in Task : SendToProvider(t) \/ SendAgain(t) \/ RetryRefused(t)
  BY DEF RequestLoop
<1>2. /\ sends \in [Task -> Seq(1 .. MaxAttempts)] /\ sends[t] \in Seq(1 .. MaxAttempts)
      /\ TransportInv(t)
  BY DEF JournalInv, ShapeInv
<1>3. ASSUME NEW n, NEW after \in AfterAttempt(n)
      PROVE  after \in {"retrying", "returned"} /\ (after = "retrying" => n < MaxAttempts)
  BY <1>3 DEF AfterAttempt
<1>4. CASE SendToProvider(t)
  <2>1. sends[t] = <<>> /\ transport[t] \in {"ready", "retrying"}
    BY <1>2, <1>4 DEF SendToProvider, TransportInv
  <2>2. /\ Append(sends[t], 1) \in Seq(1 .. MaxAttempts) /\ Len(Append(sends[t], 1)) = 1
        /\ Append(sends[t], 1)[1] = 1
    BY <2>1, AttemptsAssumption
  <2>3. PICK after \in AfterAttempt(1) : transport' = [transport EXCEPT ![t] = after]
    BY <1>4 DEF SendToProvider
  <2>4. sends' = [sends EXCEPT ![t] = Append(sends[t], 1)] /\ mode = "live" /\ todo = <<>>
        /\ UNCHANGED <<files, mode, todo>>
    BY <1>4 DEF SendToProvider
  <2>5. after \in {"retrying", "returned"} /\ (after = "retrying" => 1 < MaxAttempts)
    BY <1>3, <2>3
  <2> QED BY <2>1, <2>2, <2>3, <2>4, <2>5, LoopTask
<1>5. CASE SendAgain(t)
  <2> DEFINE n == sends[t][Len(sends[t])] + 1
             made == [sends[t] EXCEPT ![Len(sends[t])] = n]
  <2>1. Len(sends[t]) = 1 /\ transport[t] = "retrying"
    BY <1>2, <1>5 DEF SendAgain, TransportInv
  <2>2. PICK after \in AfterAttempt(n) : transport' = [transport EXCEPT ![t] = after]
    BY <1>5 DEF SendAgain
  <2>3. sends' = [sends EXCEPT ![t] = made] /\ mode = "live" /\ todo = <<>>
        /\ UNCHANGED <<files, mode, todo>>
    BY <1>5 DEF SendAgain
  <2>5. sends[t][1] \in 1 .. MaxAttempts /\ sends[t][1] < MaxAttempts
    <3>1. 1 \in 1 .. Len(sends[t])
      BY <2>1
    <3>2. sends[t][1] \in 1 .. MaxAttempts
      BY <1>2, <3>1, ElementOfSeq
    <3>3. sends[t][1] < MaxAttempts
      BY <1>2, <2>1 DEF TransportInv
    <3> QED BY <3>2, <3>3
  <2>6. n \in 1 .. MaxAttempts /\ made = [sends[t] EXCEPT ![1] = n]
    BY <2>1, <2>5, AttemptsAssumption
  <2> HIDE DEF made, n
  <2>4. after \in {"retrying", "returned"} /\ (after = "retrying" => n < MaxAttempts)
    BY <1>3, <2>2
  <2>7. made \in Seq(1 .. MaxAttempts) /\ Len(made) = 1 /\ made[1] = n
    BY <1>2, <2>1, <2>6, OneElement
  <2> QED BY <2>1, <2>2, <2>3, <2>4, <2>7, LoopTask
<1>6. CASE RetryRefused(t)
  <2>1. /\ transport[t] = "retrying" /\ mode = "live" /\ todo = <<>>
        /\ transport' = [transport EXCEPT ![t] = "returned"]
        /\ UNCHANGED <<files, mode, todo, sends>>
    BY <1>6 DEF RetryRefused
  <2>2. Len(sends[t]) = 1
    BY <1>2, <2>1 DEF TransportInv
  <2>3. sends' = [sends EXCEPT ![t] = sends[t]]
    BY <1>2, <2>1
  <2> QED BY <1>2, <2>1, <2>2, <2>3, LoopTask
<1> QED BY <1>1, <1>4, <1>5, <1>6

(* The steps that leave the files of every task alone and end outside of     *)
(* "live" with nothing running.                                              *)
LEMMA StoppedStep ==
    ASSUME JournalInv, \A t \in Task : SameFiles(t),
           UNCHANGED <<plans, passes, history, activated, outputs, attempts, observed,
                       credited, sends, authority>>,
           mode' \in {"down", "recovering"}, todo' = <<>>,
           transport' = [t \in Task |-> "none"],
           torn' \in BOOLEAN, torn' => mode' = "down"
    PROVE  JournalInv'
<1>1. ShapeInv'
  <2>1. transport' \in [Task -> {"none", "ready", "retrying", "returned", "abandoned"}]
        /\ mode' \in {"down", "recovering", "live"}
    OBVIOUS
  <2> QED BY <2>1, Zenon DEF JournalInv, ShapeInv
<1>2. \A t \in Task : TaskInv(t)'
  BY FrameTask DEF JournalInv
<1>3. \A t \in Task : TransportInv(t)'
  BY DEF TransportInv
<1>4. CampaignInv'
  <2>1. \A p : DerivedPassStatus(p)' = DerivedPassStatus(p)
    BY FrameDerived
  <2> QED BY <2>1 DEF JournalInv, CampaignInv, TasksOf
<1>5. TodoInv' /\ PendingInv'
  BY DEF TodoInv, PendingInv
<1>6. SealInv'
  BY DEF JournalInv, SealInv
<1> QED BY <1>1, <1>2, <1>3, <1>4, <1>5, <1>6 DEF JournalInv

(* Outside of "live" nothing runs and nothing was dispatched.                *)
LEMMA Stopped ==
    ASSUME JournalInv, mode # "live"
    PROVE  todo = <<>> /\ transport = [t \in Task |-> "none"]
  BY DEF JournalInv, ShapeInv, TodoInv, TransportInv

(* Deaths, failing recoveries, and loading the files.                        *)
LEMMA RestartStep ==
    ASSUME JournalInv, Crash \/ Resume \/ RecoveryFails
    PROVE  JournalInv'
<1>1. CASE Crash
  <2>1. \A t \in Task : SameFiles(t)
    BY <1>1 DEF Crash, SameFiles
  <2>2. torn' \in BOOLEAN
    BY <1>1 DEF Crash, JournalInv, SealInv
  <2> QED BY <1>1, <2>1, <2>2, StoppedStep DEF Crash
<1>2. CASE Resume
  <2>1. UNCHANGED <<files, todo, transport, sends>> /\ mode' = "recovering" /\ mode # "live"
        /\ ~torn
    BY <1>2 DEF Resume, Loads
  <2>2. \A t \in Task : SameFiles(t)
    BY <2>1 DEF files, SameFiles
  <2> QED BY <2>1, <2>2, Stopped, StoppedStep DEF files, JournalInv, SealInv
<1>3. CASE RecoveryFails
  <2>1. UNCHANGED <<files, todo, transport, sends>> /\ mode' = "down" /\ mode # "live"
    BY <1>3 DEF RecoveryFails
  <2>2. \A t \in Task : SameFiles(t)
    BY <2>1 DEF files, SameFiles
  <2> QED BY <2>1, <2>2, Stopped, StoppedStep DEF files, JournalInv, SealInv
<1> QED BY <1>1, <1>2, <1>3

(* First picks the least of a set of tasks.                                  *)
LEMMA FirstTask ==
    ASSUME NEW S \in SUBSET Task, S # {}
    PROVE  First(S) \in S /\ \A u \in S : First(S) <= u
<1>1. S \in SUBSET Nat
  BY DEF Task
<1>2. \E m \in S : \A n \in S : m <= n
  BY <1>1, LeastElement
<1> QED BY <1>2 DEF First

(* A task with events belongs to a pass that has a plan.                     *)
LEMMA PlannedPass ==
    ASSUME JournalInv, NEW t \in Task, history[t] # <<>>
    PROVE  t \in Planned
<1>1. plans \in Int /\ PassOf[t] \in Int
  BY PassAssumption DEF JournalInv, ShapeInv, Pass
<1> QED BY <1>1 DEF JournalInv, CampaignInv, Planned

(* What the recovery finds for a task, and the write it makes: the result on *)
(* record fits the stage the task is in.                                     *)
LEMMA RecoveryWrites ==
    ASSUME JournalInv, NEW t \in Task
    PROVE  /\ history[t] = Planned1 =>
                \/ observed[t] = {} /\ RecoveryWrite(t) = {}
                \/ \E r \in LocalResult :
                      /\ observed[t] = {r}
                      /\ RecoveryWrite(t) = {Event(t, "PREFLIGHT_TERMINAL", {r})}
           /\ history[t] = Activated2 =>
                \/ observed[t] = {} /\ RecoveryWrite(t) = {}
                \/ \E r \in EarlyResult :
                      /\ observed[t] = {r}
                      /\ RecoveryWrite(t) = {Event(t, "ACTIVATED_PREFLIGHT_TERMINAL", {r})}
           /\ history[t] = Dispatched =>
                RecoveryWrite(t) = {IF Uncertain \in observed[t]
                                    THEN Event(t, "TERMINAL", {Uncertain})
                                    ELSE ResultFile(t, Uncertain)}
           /\ history[t] \notin {Planned1, Activated2, Dispatched} => RecoveryWrite(t) = {}
<1>1. TaskInv(t)
  BY DEF JournalInv
<1>2. Cardinality({}) = 0 /\ \A r : Cardinality({r}) = 1
  BY FS_EmptySet, FS_Singleton
<1>3. \A r \in LocalResult : r.origin = "LOCAL_PREFLIGHT"
  BY DEF LocalResult, Preflight
<1>4. \A r \in EarlyResult : r.origin = "ACTIVATED" /\ r.status \in PreDispatchFailure
  BY DEF EarlyResult, Activated, PreDispatchFailure
<1>5. ASSUME history[t] = Planned1
      PROVE  \/ observed[t] = {} /\ RecoveryWrite(t) = {}
             \/ \E r \in LocalResult :
                   /\ observed[t] = {r}
                   /\ RecoveryWrite(t) = {Event(t, "PREFLIGHT_TERMINAL", {r})}
  <2>1. LocalFailures(t) = observed[t]
    BY <1>1, <1>3, <1>5 DEF TaskInv, LocalFailures
  <2>2. history[t] = <<"PLANNED">> /\ history[t] # <<"PLANNED", "ACTIVATED">>
        /\ history[t] # Dispatched
    BY <1>5, Stages DEF Planned1, Activated2
  <2>3. CASE observed[t] = {}
    <3>1. Cardinality(LocalFailures(t)) # 1
      BY <1>2, <2>1, <2>3
    <3> QED BY <2>2, <2>3, <3>1 DEF RecoveryWrite
  <2>4. ASSUME NEW r \in LocalResult, observed[t] = {r}
        PROVE  RecoveryWrite(t) = {Event(t, "PREFLIGHT_TERMINAL", {r})}
    <3>1. Cardinality(LocalFailures(t)) = 1 /\ LocalFailures(t) = {r}
      BY <1>2, <2>1, <2>4
    <3> QED BY <2>2, <3>1 DEF RecoveryWrite
  <2> QED BY <1>1, <1>5, <2>3, <2>4 DEF TaskInv
<1>6. ASSUME history[t] = Activated2
      PROVE  \/ observed[t] = {} /\ RecoveryWrite(t) = {}
             \/ \E r \in EarlyResult :
                   /\ observed[t] = {r}
                   /\ RecoveryWrite(t) = {Event(t, "ACTIVATED_PREFLIGHT_TERMINAL", {r})}
  <2>1. EarlyFailures(t) = observed[t]
    BY <1>1, <1>4, <1>6 DEF TaskInv, EarlyFailures
  <2>2. history[t] = <<"PLANNED", "ACTIVATED">> /\ history[t] # <<"PLANNED">>
        /\ history[t] # Dispatched
    BY <1>6, Stages DEF Planned1, Activated2
  <2>3. CASE observed[t] = {}
    <3>1. Cardinality(EarlyFailures(t)) # 1
      BY <1>2, <2>1, <2>3
    <3> QED BY <2>2, <2>3, <3>1 DEF RecoveryWrite
  <2>4. ASSUME NEW r \in EarlyResult, observed[t] = {r}
        PROVE  RecoveryWrite(t) = {Event(t, "ACTIVATED_PREFLIGHT_TERMINAL", {r})}
    <3>1. Cardinality(EarlyFailures(t)) = 1 /\ EarlyFailures(t) = {r}
      BY <1>2, <2>1, <2>4
    <3> QED BY <2>2, <3>1 DEF RecoveryWrite
  <2> QED BY <1>1, <1>6, <2>3, <2>4 DEF TaskInv
<1>7. ASSUME history[t] = Dispatched
      PROVE  RecoveryWrite(t) = {IF Uncertain \in observed[t]
                                 THEN Event(t, "TERMINAL", {Uncertain})
                                 ELSE ResultFile(t, Uncertain)}
  <2>1. history[t] # <<"PLANNED">> /\ history[t] # <<"PLANNED", "ACTIVATED">>
    BY <1>7, Stages DEF Planned1, Activated2
  <2> QED BY <1>7, <2>1 DEF RecoveryWrite
<1>8. ASSUME history[t] \notin {Planned1, Activated2, Dispatched}
      PROVE  RecoveryWrite(t) = {}
  BY <1>8 DEF RecoveryWrite, Planned1, Activated2
<1> QED BY <1>5, <1>6, <1>7, <1>8

(* One write of the recovery.                                                *)
LEMMA RecoverStep ==
    ASSUME JournalInv, Recover
    PROVE  JournalInv'
<1>1. mode = "recovering" /\ UNCHANGED <<mode, todo, sends>> /\ todo = <<>>
  BY Stopped DEF Recover
<1>2. TodoInv' /\ PendingInv'
  BY <1>1 DEF TodoInv, PendingInv
<1>3. PICK w \in NextRecovery : Apply(w)
  BY DEF Recover
<1>4. Unplanned \subseteq Task /\ Unactivated \subseteq Task /\ Unconcluded \subseteq Task
  BY DEF Unplanned, Unactivated, Unconcluded, Planned
<1>5. CASE Unplanned # {}
  <2>1. PICK t \in Unplanned : t = First(Unplanned) /\ \A u \in Unplanned : t <= u
    BY <1>4, <1>5, FirstTask
  <2>2. t \in Task /\ history[t] = <<>> /\ PassOf[t] <= plans
    BY <2>1 DEF Unplanned, Planned
  <2>3. Apply(Event(t, "PLANNED", {}))
    BY <1>3, <1>5, <2>1 DEF NextRecovery
  <2>4. /\ ShapeInv' /\ \A u \in Task \ {t} : Same(u)
        /\ TaskInv(t)' /\ TransportInv(t)' /\ history'[t] = Planned1
        /\ observed'[t] = {}
        /\ UNCHANGED <<plans, passes, authority, torn>>
    BY <1>1, <2>2, <2>3, PlannedTask
  <2>5. ASSUME NEW u \in Task, u < t PROVE history[u] # <<>>
    <3>1. PassOf[u] <= PassOf[t] /\ PassOf[u] \in Int /\ PassOf[t] \in Int /\ plans \in Int
      BY <2>2, <2>5, PassAssumption DEF Pass, JournalInv, ShapeInv
    <3>2. u \in Planned /\ ~(t <= u)
      BY <2>2, <2>5, <3>1 DEF Planned, Task
    <3> QED BY <2>1, <3>2 DEF Unplanned
  <2>6. history[t] \notin Concluded /\ history'[t] # <<>>
    BY <2>2, <2>4, Stages
  <2> QED BY <1>1, <1>2, <2>2, <2>4, <2>5, <2>6, OneTaskStep, Zenon
<1>6. CASE Unplanned = {} /\ Unactivated # {}
  <2>1. PICK t \in Unactivated : t = First(Unactivated)
    BY <1>4, <1>6, FirstTask
  <2>2. t \in Task /\ history[t] = Planned1 /\ t \in activated
    BY <2>1 DEF Unactivated, Planned, Planned1
  <2>3. Apply(Event(t, "ACTIVATED", {}))
    BY <1>3, <1>6, <2>1 DEF NextRecovery
  <2>4. /\ ShapeInv' /\ \A u \in Task \ {t} : Same(u)
        /\ TaskInv(t)' /\ TransportInv(t)' /\ history'[t] = Activated2
        /\ observed'[t] = {}
        /\ UNCHANGED <<plans, passes, authority, torn>>
    BY <1>1, <2>2, <2>3, ActivatedTask
  <2>5. history[t] \notin Concluded /\ history'[t] # <<>> /\ history[t] # <<>>
    BY <2>2, <2>4, Stages
  <2> QED BY <1>1, <1>2, <2>2, <2>4, <2>5, OneTaskStep, Zenon
<1>7. CASE Unplanned = {} /\ Unactivated = {} /\ Unconcluded # {}
  <2>1. PICK t \in Unconcluded : t = First(Unconcluded)
    BY <1>4, <1>7, FirstTask
  <2>2. t \in Task
    BY <1>4, <2>1
  <2>3. w \in RecoveryWrite(t)
    BY <1>3, <1>7, <2>1 DEF NextRecovery
  <2>4. history[t] \in {Planned1, Activated2, Dispatched}
    BY <2>2, <2>3, RecoveryWrites
  <2>5. history[t] \notin Concluded /\ history[t] # <<>>
    BY <2>4, Stages
  <2>6. ASSUME NEW kind, NEW r \in Result, Closes(t, kind, r), w = Event(t, kind, {r})
        PROVE  JournalInv'
    <3>1. Apply(Event(t, kind, {r}))
      BY <1>3, <2>6
    <3>2. /\ ShapeInv' /\ \A u \in Task \ {t} : Same(u)
          /\ TaskInv(t)' /\ TransportInv(t)' /\ history'[t] \in Concluded
          /\ UNCHANGED <<plans, passes, authority, torn>>
      BY <1>1, <2>2, <2>6, <3>1, EndedTask
    <3>3. history'[t] # <<>>
      BY <3>2, Stages
    <3> QED BY <1>1, <1>2, <2>2, <2>5, <3>2, <3>3, OneTaskStep, Zenon
  <2>7. LocalResult \subseteq Result /\ EarlyResult \subseteq Result /\ Uncertain \in Result
    BY DEF LocalResult, EarlyResult, Result, Preflight, Activated, Uncertain, Status
  <2>8. CASE history[t] = Planned1
    <3>1. PICK r \in LocalResult : observed[t] = {r} /\ w = Event(t, "PREFLIGHT_TERMINAL", {r})
      BY <2>2, <2>3, <2>8, RecoveryWrites
    <3>2. Closes(t, "PREFLIGHT_TERMINAL", r)
      BY <2>8, <3>1 DEF Closes
    <3> QED BY <2>6, <2>7, <3>1, <3>2
  <2>9. CASE history[t] = Activated2
    <3>1. PICK r \in EarlyResult : /\ observed[t] = {r}
                                   /\ w = Event(t, "ACTIVATED_PREFLIGHT_TERMINAL", {r})
      BY <2>2, <2>3, <2>9, RecoveryWrites, Stages
    <3>2. Closes(t, "ACTIVATED_PREFLIGHT_TERMINAL", r)
      BY <2>9, <3>1 DEF Closes
    <3> QED BY <2>6, <2>7, <3>1, <3>2
  <2>10. CASE history[t] = Dispatched /\ Uncertain \in observed[t]
    <3>1. w = Event(t, "TERMINAL", {Uncertain})
      BY <2>2, <2>3, <2>10, RecoveryWrites
    <3>2. Closes(t, "TERMINAL", Uncertain)
      BY <2>10 DEF Closes
    <3> QED BY <2>6, <2>7, <3>1, <3>2
  <2>11. CASE history[t] = Dispatched /\ Uncertain \notin observed[t]
    <3>1. w = ResultFile(t, Uncertain)
      BY <2>2, <2>3, <2>11, RecoveryWrites
    <3>2. Apply(ResultFile(t, Uncertain))
      BY <1>3, <3>1
    <3>3. /\ ShapeInv' /\ \A u \in Task \ {t} : Same(u)
          /\ TaskInv(t)' /\ TransportInv(t)'
          /\ observed'[t] = observed[t] \cup {Uncertain}
          /\ UNCHANGED <<plans, passes, authority, torn, history, activated,
                         outputs, transport>>
      BY <1>1, <2>2, <2>7, <2>11, <3>2, ResultTask
    <3> QED BY <1>1, <1>2, <2>2, <2>5, <3>3, OneTaskStep, Zenon
  <2> QED BY <2>4, <2>8, <2>9, <2>10, <2>11
<1> QED BY <1>3, <1>5, <1>6, <1>7 DEF NextRecovery

(* Nothing is left to recover: the journal is handed out.                    *)
LEMMA NothingToRecover ==
    ASSUME JournalInv, NextRecovery = {}, NEW t \in Task
    PROVE  /\ history[t] # Dispatched
           /\ history[t] \in {Planned1, Activated2} => observed[t] = {}
           /\ t \in Planned => history[t] # <<>>
<1>1. Unplanned = {} /\ Unactivated = {} /\ Unconcluded = {}
  <2>1. Unplanned = {} /\ Unactivated = {}
    BY DEF NextRecovery
  <2>2. Unconcluded # {} => First(Unconcluded) \in Unconcluded
    BY FirstTask DEF Unconcluded, Planned
  <2> QED BY <2>1, <2>2 DEF NextRecovery, Unconcluded
<1>2. t \in Planned => RecoveryWrite(t) = {} /\ history[t] # <<>>
  BY <1>1 DEF Unconcluded, Unplanned
<1>3. history[t] # <<>> => RecoveryWrite(t) = {}
  BY <1>2, PlannedPass
<1>4. history[t] \in {Planned1, Activated2, Dispatched} => RecoveryWrite(t) = {}
  BY <1>3, Stages
<1> QED BY <1>2, <1>4, RecoveryWrites

(* The end of a resume.                                                      *)
LEMMA FinishStep ==
    ASSUME JournalInv, FinishResume
    PROVE  JournalInv'
<1>1. /\ mode = "recovering" /\ NextRecovery = {} /\ mode' \in {"live", "down"}
      /\ UNCHANGED <<files, todo, transport, sends>>
  BY DEF FinishResume
<1>2. todo = <<>> /\ ~torn
  BY <1>1, Stopped DEF JournalInv, SealInv
<1> USE DEF files
<1>3. ShapeInv'
  <2>1. mode' \in {"down", "recovering", "live"}
    BY <1>1
  <2> QED BY <1>1, <2>1, Zenon DEF JournalInv, ShapeInv
<1>4. \A t \in Task : TaskInv(t)'
  <2>1. \A t \in Task : SameFiles(t)
    BY <1>1 DEF SameFiles
  <2> QED BY <2>1, FrameTask DEF JournalInv
<1>5. \A t \in Task : TransportInv(t)'
  BY <1>1, NothingToRecover DEF JournalInv, TransportInv
<1>6. CampaignInv'
  <2>1. \A p : DerivedPassStatus(p)' = DerivedPassStatus(p)
    BY <1>1, FrameDerived
  <2> QED BY <1>1, <2>1 DEF JournalInv, CampaignInv, TasksOf
<1>7. TodoInv'
  BY <1>1, <1>2 DEF TodoInv
<1>8. PendingInv'
  BY <1>1, NothingToRecover DEF PendingInv
<1>9. SealInv'
  BY <1>1, <1>2 DEF JournalInv, SealInv
<1> QED BY <1>3, <1>4, <1>5, <1>6, <1>7, <1>8, <1>9 DEF JournalInv

(* A fresh journal.                                                          *)
LEMMA JournalInit ==
    ASSUME Init
    PROVE  JournalInv
<1>1. ShapeInv
  BY SizeAssumption DEF Init, ShapeInv, Lifecycle
<1>2. \A t \in Task : history[t] = <<>>
  BY DEF Init
<1>3. \A t \in Task : TaskInv(t)
  BY <1>2, Stages DEF Init, TaskInv
<1>4. \A t \in Task : TransportInv(t)
  BY <1>2, Stages DEF Init, TransportInv
<1>5. TodoInv /\ PendingInv
  BY <1>2, Stages DEF Init, TodoInv, PendingInv
<1>6. CampaignInv
  BY DEF Init, CampaignInv
<1>7. SealInv
  BY DEF Init, SealInv
<1> QED BY <1>1, <1>3, <1>4, <1>5, <1>6, <1>7 DEF JournalInv

(* A step that changes nothing.                                              *)
LEMMA UnchangedStep ==
    ASSUME JournalInv, UNCHANGED vars
    PROVE  JournalInv'
<1> USE DEF vars, files, process, bounds
<1>1. ShapeInv'
  BY Zenon DEF JournalInv, ShapeInv
<1>2. \A u \in Task : Same(u)
  BY DEF Same, SameFiles
<1>3. \A u \in Task : TaskInv(u)' /\ TransportInv(u)'
  BY <1>2, FrameTask, FrameTransport DEF JournalInv, Same
<1>4. \A p : DerivedPassStatus(p)' = DerivedPassStatus(p)
  BY FrameDerived
<1>5. CampaignInv'
  BY <1>4 DEF JournalInv, CampaignInv, TasksOf
<1>6. \A t, kind, r : Ends(t, kind, r)' <=> Ends(t, kind, r)
  BY DEF Ends, FinalResult
<1>7. \A t \in Task : Recording(t)' <=> Recording(t)
  BY <1>6 DEF Recording
<1>8. \A t \in Task : Concluding(t)' <=> Concluding(t)
  BY <1>6 DEF Concluding
<1>9. Planning' <=> Planning
  BY DEF Planning, PlannedEvents
<1>10. Sealing' <=> Sealing
  <2>1. DerivedPassStatus(Len(passes) + 1)' = DerivedPassStatus(Len(passes) + 1)
    BY DEF DerivedPassStatus, TasksOf
  <2> QED BY <2>1 DEF Sealing, TasksOf
<1>11. \A t \in Task : (Activating(t) \/ Dispatching(t) \/ Retaining(t))'
                          <=> Activating(t) \/ Dispatching(t) \/ Retaining(t)
  BY DEF Activating, Dispatching, Retaining
<1>12. TodoInv'
  BY <1>7, <1>8, <1>9, <1>10, <1>11 DEF JournalInv, TodoInv
<1>13. PendingInv'
  BY <1>8 DEF JournalInv, PendingInv
<1>14. SealInv'
  BY DEF JournalInv, SealInv
<1> QED BY <1>1, <1>3, <1>5, <1>12, <1>13, <1>14 DEF JournalInv

(* The inductive invariant holds in every state.                             *)
THEOREM JournalInvariant == Spec => []JournalInv
<1>1. Init => JournalInv
  BY JournalInit
<1>2. JournalInv /\ [Next]_vars => JournalInv'
  <2>1. SUFFICES ASSUME JournalInv, [Next]_vars PROVE JournalInv'
    OBVIOUS
  <2>2. CASE Next
    BY <2>1, <2>2, OperationStep, WriteStep, WriteFailsStep, RequestLoopStep, RestartStep,
       RecoverStep, FinishStep DEF Next
  <2>3. CASE UNCHANGED vars
    BY <2>1, <2>3, UnchangedStep
  <2> QED BY <2>1, <2>2, <2>3
<1> QED BY <1>1, <1>2, PTL DEF Spec

-----------------------------------------------------------------------------
(* What follows from the invariant.                                          *)

(* The events of each stage.                                                 *)
LEMMA StageEvents ==
    ASSUME NEW h \in Lifecycle
    PROVE  /\ Len(h) \in 1 .. 4
           /\ \A i \in 1 .. Len(h) :
                h[i] \in {"PLANNED", "ACTIVATED", "DISPATCHED", "TERMINAL",
                          "PREFLIGHT_TERMINAL", "ACTIVATED_PREFLIGHT_TERMINAL"}
           /\ h \in {Dispatched, Terminal4} =>
                /\ h[Len(h)] \in {"DISPATCHED", "TERMINAL"}
                /\ \E i \in 1 .. Len(h) : h[i] = "DISPATCHED"
           /\ Len(h) > 1 /\ h[2] = "ACTIVATED" => h \notin {Planned1, Local2}
<1>1. CASE h = Planned1
  BY <1>1, Stages DEF Planned1
<1>2. CASE h = Activated2
  BY <1>2, Stages DEF Activated2
<1>3. CASE h = Dispatched
  BY <1>3, Stages DEF Dispatched
<1>4. CASE h = Local2
  BY <1>4, Stages DEF Local2
<1>5. CASE h = Early3
  BY <1>5, Stages DEF Early3
<1>6. CASE h = Terminal4
  BY <1>6, Stages DEF Terminal4
<1> QED BY <1>1, <1>2, <1>3, <1>4, <1>5, <1>6, Stages

(* TypeOK: every variable keeps its type, whatever is interrupted.           *)
THEOREM JournalTypeCorrect == Spec => []TypeOK
<1>1. ASSUME JournalInv PROVE TypeOK
  <2>1. ShapeInv /\ CampaignInv
    BY <1>1 DEF JournalInv
  <2>2. ASSUME NEW t \in Task, NEW i \in 1 .. Len(history[t])
        PROVE  history[t][i] \in {"PLANNED", "ACTIVATED", "DISPATCHED", "TERMINAL",
                                  "PREFLIGHT_TERMINAL", "ACTIVATED_PREFLIGHT_TERMINAL"}
    <3>1. CASE history[t] \in Lifecycle
      BY <3>1, StageEvents
    <3>2. CASE history[t] = <<>>
      BY <3>2
    <3> QED BY <2>1, <3>1, <3>2 DEF ShapeInv
  <2>3. Len(passes) <= NPasses
    BY <2>1, SizeAssumption DEF ShapeInv, CampaignInv
  <2>4. Range(passes) \subseteq PassStatus
    BY <2>1 DEF ShapeInv, Range
  <2>5. authority \in BOOLEAN /\ torn \in BOOLEAN
    BY <1>1 DEF JournalInv, SealInv
  <2> QED BY <2>1, <2>2, <2>3, <2>4, <2>5 DEF ShapeInv, TypeOK
<1> QED BY <1>1, JournalInvariant, PTL

(* mark_dispatched and _recover_interrupted_state: all the requests of a     *)
(* task are attempts of one dispatch.                                        *)
THEOREM JournalDispatchesOnce == Spec => []AtMostOneDispatch
<1>1. ASSUME JournalInv PROVE AtMostOneDispatch
  <2>1. ASSUME NEW t \in Task PROVE Len(sends[t]) <= 1
    <3>1. TaskInv(t) /\ history[t] \in Lifecycle \cup {<<>>}
          /\ sends[t] \in Seq(1 .. MaxAttempts)
      BY <1>1 DEF JournalInv, ShapeInv
    <3>2. sends[t] = <<>> \/ Len(sends[t]) \in {0, 1}
      BY <3>1, Stages DEF TaskInv
    <3>3. CASE sends[t] = <<>> \/ Len(sends[t]) = 0
      BY <3>1, <3>3
    <3>4. CASE Len(sends[t]) = 1
      BY <3>4
    <3> QED BY <3>2, <3>3, <3>4
  <2> QED BY <2>1 DEF AtMostOneDispatch
<1> QED BY <1>1, JournalInvariant, PTL

(* _recover_interrupted_state: an open dispatch of a live journal was made   *)
(* by this process.                                                          *)
THEOREM JournalDispatchIsMine == Spec => []OpenDispatchIsMine
<1>1. ASSUME JournalInv PROVE OpenDispatchIsMine
  BY <1>1 DEF JournalInv, TransportInv, OpenDispatchIsMine
<1> QED BY <1>1, JournalInvariant, PTL

(* A pass is complete only when each of its tasks succeeded.                 *)
LEMMA CompletePass ==
    ASSUME NEW p, DerivedPassStatus(p) = "COMPLETE", NEW t \in TasksOf(p),
           NEW r \in credited[t]
    PROVE  r.status \in {"SUCCEEDED", "EXPLICIT_EMPTY"}
<1> DEFINE S == {q.status : q \in UNION {credited[u] : u \in TasksOf(p)}}
<1>1. r.status \in S
  OBVIOUS
<1> HIDE DEF S
<1>2. DerivedPassStatus(p) =
        CASE S \subseteq {"SUCCEEDED", "EXPLICIT_EMPTY"} -> "COMPLETE"
          [] "FAILED" \in S -> "FAILED"
          [] "FAILED" \notin S /\ "INCONCLUSIVE" \in S -> "INCONCLUSIVE"
          [] OTHER -> "INCOMPLETE"
  BY DEF DerivedPassStatus, S
<1>3. S \subseteq {"SUCCEEDED", "EXPLICIT_EMPTY"}
  BY <1>2
<1> QED BY <1>1, <1>3

(* A concluded task is credited with one result.                             *)
LEMMA CreditedOnce ==
    ASSUME JournalInv, NEW t \in Task, history[t] \in Concluded
    PROVE  \E r \in observed[t] : credited[t] = {r}
<1>1. TaskInv(t)
  BY DEF JournalInv
<1> QED BY <1>1, Stages DEF TaskInv

(* seal_pass_plan: a provider is asked only for a task all of whose          *)
(* predecessors in earlier passes succeeded.                                 *)
THEOREM JournalPassOrder == Spec => []PassOrder
<1>1. ASSUME JournalInv PROVE PassOrder
  <2>1. SUFFICES ASSUME NEW t \in Task, NEW u \in Task, PassOf[u] < PassOf[t], sends[t] # <<>>
                 PROVE  Statuses(credited[u]) \in {{"SUCCEEDED"}, {"EXPLICIT_EMPTY"}}
    BY DEF PassOrder
  <2>2. history[t] # <<>>
    BY <1>1, <2>1 DEF JournalInv, TaskInv
  <2>3. PassOf[t] <= plans
    BY <1>1, <2>2, PlannedPass DEF Planned
  <2>4. plans \in Nat /\ PassOf[t] \in Nat /\ PassOf[u] \in Nat \ {0}
    BY <1>1, PassAssumption, SizeAssumption DEF JournalInv, ShapeInv, Pass
  <2>5. PassOf[u] \in 1 .. plans - 1 /\ PassOf[u] \in 1 .. Len(passes)
    BY <1>1, <2>1, <2>3, <2>4 DEF JournalInv, CampaignInv
  <2>6. DerivedPassStatus(PassOf[u]) = "COMPLETE" /\ u \in TasksOf(PassOf[u])
    BY <1>1, <2>5 DEF JournalInv, CampaignInv, TasksOf
  <2>7. history[u] \in Concluded
    BY <1>1, <2>5, <2>6 DEF JournalInv, CampaignInv
  <2>8. PICK r \in observed[u] : credited[u] = {r}
    BY <1>1, <2>7, CreditedOnce
  <2>9. r.status \in {"SUCCEEDED", "EXPLICIT_EMPTY"}
    BY <2>6, <2>8, CompletePass
  <2>10. Statuses(credited[u]) = {r.status}
    BY <2>8 DEF Statuses
  <2> QED BY <2>9, <2>10
<1> QED BY <1>1, JournalInvariant, PTL

(* record_terminal: a credited success rests on one retained output of the   *)
(* only dispatch that made requests, with no other outcome on record.        *)
THEOREM JournalSuccess == Spec => []SuccessIsUnambiguous
<1>1. ASSUME JournalInv PROVE SuccessIsUnambiguous
  <2> DEFINE ok == Activated("SUCCEEDED")
  <2>1. SUFFICES ASSUME NEW t \in Task, ok \in credited[t]
                 PROVE  t \in outputs \ attempts /\ observed[t] = {ok} /\ Len(sends[t]) = 1
    BY DEF SuccessIsUnambiguous
  <2>2. ok \notin LocalResult /\ ok \notin EarlyResult /\ ok # Uncertain
        /\ ok # Activated("EXPLICIT_EMPTY")
    BY DEF LocalResult, EarlyResult, Uncertain, Activated, Preflight
  <2> HIDE DEF ok
  <2>3. TaskInv(t) /\ history[t] \in Lifecycle \cup {<<>>}
    BY <1>1 DEF JournalInv, ShapeInv
  <2>4. history[t] = Terminal4
    BY <2>1, <2>2, <2>3, Stages DEF TaskInv
  <2>5. observed[t] = {ok} /\ ok \in FinalResult(t)
    BY <2>1, <2>2, <2>3, <2>4 DEF TaskInv
  <2>6. t \in outputs
    BY <2>2, <2>5 DEF FinalResult
  <2> QED BY <2>3, <2>5, <2>6 DEF TaskInv
<1> QED BY <1>1, JournalInvariant, PTL

(* seal_terminal_report_authority: nothing is left to recover in a sealed    *)
(* journal.                                                                  *)
LEMMA SealedIsRecovered ==
    ASSUME JournalInv, authority
    PROVE  NextRecovery = {}
<1>1. ASSUME NEW t \in Planned PROVE t \in Task /\ history[t] \in Concluded
  <2>1. t \in Task /\ PassOf[t] \in 1 .. Len(passes)
    BY <1>1, PassAssumption DEF Planned, Pass, JournalInv, SealInv, ShapeInv
  <2> QED BY <2>1 DEF JournalInv, CampaignInv, TasksOf
<1>2. Unplanned = {} /\ Unactivated = {}
  BY <1>1, Stages DEF Unplanned, Unactivated, Planned1
<1>3. Unconcluded = {}
  BY <1>1, RecoveryWrites, Stages DEF Unconcluded
<1> QED BY <1>2, <1>3 DEF NextRecovery

(* After the terminal report authority no file is added or torn, by an       *)
(* operation, by a death or by the recovery of a later process.              *)
THEOREM JournalSealFreezes == Spec => SealFreezes
<1>1. ASSUME JournalInv, [Next]_vars, authority PROVE UNCHANGED files
  <2>1. CASE Operation
    BY <1>1, <2>1 DEF Operation, Perform, Writable, seal_pass_plan, seal_pass_result,
       seal_terminal_report_authority, activate_task, mark_dispatched, persist_output,
       persist_provider_attempt, record_terminal, record_preflight_failure,
       record_activated_preflight_failure
  <2>2. CASE Write
    BY <1>1, <2>2 DEF JournalInv, TodoInv, Write
  <2>3. CASE WriteFails \/ RequestLoop \/ Resume \/ RecoveryFails \/ FinishResume
    BY <2>3 DEF WriteFails, RequestLoop, SendToProvider, SendAgain, RetryRefused,
       Resume, RecoveryFails, FinishResume
  <2>4. CASE Crash
    <3>1. todo = <<>>
      BY <1>1 DEF JournalInv, TodoInv
    <3>2. torn' = torn
      BY <1>1, <2>4, <3>1, SealedIsRecovered DEF Crash
    <3> QED BY <2>4, <3>2 DEF Crash, files
  <2>5. CASE Recover
    BY <1>1, <2>5 DEF Recover
  <2>6. CASE UNCHANGED vars
    BY <2>6 DEF vars
  <2> QED BY <1>1, <2>1, <2>2, <2>3, <2>4, <2>5, <2>6 DEF Next
<1> QED BY <1>1, JournalInvariant, PTL DEF Spec, SealFreezes

-----------------------------------------------------------------------------
(* Loading what was left behind.                                             *)

(* Where the results come from.                                              *)
LEMMA ResultOrigins ==
    /\ \A r \in LocalResult : r.origin = "LOCAL_PREFLIGHT"
                              /\ r.status \in {"FAILED", "INCONCLUSIVE"}
    /\ \A r \in EarlyResult : r.origin = "ACTIVATED" /\ r.status \in PreDispatchFailure
    /\ Uncertain.origin = "ACTIVATED" /\ Uncertain.status = "UNCERTAIN"
    /\ \A t \in outputs : \A r \in FinalResult(t) :
          r.origin = "ACTIVATED" /\ r.status = "SUCCEEDED"
    /\ \A t, r : t \notin outputs /\ r \in FinalResult(t) =>
          /\ r.origin = "ACTIVATED"
          /\ r.status \in PreDispatchFailure \/ (t \in EmptyTask /\ r.status = "EXPLICIT_EMPTY")
<1>1. \A r \in LocalResult : r.origin = "LOCAL_PREFLIGHT"
                             /\ r.status \in {"FAILED", "INCONCLUSIVE"}
  BY DEF LocalResult, Preflight
<1>2. \A r \in EarlyResult : r.origin = "ACTIVATED" /\ r.status \in PreDispatchFailure
  BY DEF EarlyResult, Activated, PreDispatchFailure
<1>3. Uncertain.origin = "ACTIVATED" /\ Uncertain.status = "UNCERTAIN"
  BY DEF Uncertain, Activated
<1>4. \A t \in outputs : \A r \in FinalResult(t) :
          r.origin = "ACTIVATED" /\ r.status = "SUCCEEDED"
  BY DEF FinalResult, Activated
<1>5. \A t, r : t \notin outputs /\ r \in FinalResult(t) =>
          r \in EarlyResult \/ (t \in EmptyTask /\ r = Activated("EXPLICIT_EMPTY"))
  BY DEF FinalResult
<1>6. Activated("EXPLICIT_EMPTY").origin = "ACTIVATED"
      /\ Activated("EXPLICIT_EMPTY").status = "EXPLICIT_EMPTY"
  BY DEF Activated
<1> QED BY <1>1, <1>2, <1>3, <1>4, <1>5, <1>6

(* Sets of at most two results.                                              *)
LEMMA SmallSets ==
    ASSUME NEW a, NEW b, NEW S \in SUBSET {a, b}
    PROVE  /\ Cardinality(S) \in {0, 1, 2}
           /\ Cardinality(S) = 2 => S = {a, b} /\ a # b
<1>1. Cardinality({}) = 0 /\ \A x : Cardinality({x}) = 1
  BY FS_EmptySet, FS_Singleton
<1>2. a # b => Cardinality({a, b}) = 2
  <2>1. IsFiniteSet({a}) /\ Cardinality({a}) = 1 /\ (a # b => b \notin {a})
    BY FS_Singleton
  <2>2. a # b => Cardinality({a} \cup {b}) = Cardinality({a}) + 1
    BY <2>1, FS_AddElement
  <2>3. {a} \cup {b} = {a, b}
    OBVIOUS
  <2> QED BY <2>1, <2>2, <2>3
<1>3. S = {} \/ S = {a} \/ S = {b} \/ S = {a, b}
  OBVIOUS
<1>4. CASE S = {a, b} /\ a # b
  BY <1>1, <1>2, <1>4
<1>5. CASE S = {} \/ S = {a} \/ S = {b}
  <2>1. Cardinality(S) \in {0, 1}
    BY <1>1, <1>5
  <2>2. ~(S = {a, b} /\ a # b)
    BY <1>5
  <2>3. Cardinality(S) # 2 /\ Cardinality(S) \in {0, 1, 2}
    BY <2>1
  <2> QED BY <1>1, <2>2, <2>3
<1> QED BY <1>3, <1>4, <1>5

(* The files of a task pass _validate_loaded_state, unless a recovery was    *)
(* interrupted inside the task.                                              *)
LEMMA TaskFilesLoad ==
    ASSUME JournalInv, NEW t \in Task,
           ~(t \in outputs /\ history[t] = Dispatched /\ Uncertain \in observed[t])
    PROVE  TaskLoads(t)
<1>1. TaskInv(t) /\ history[t] \in Lifecycle \cup {<<>>}
  BY DEF JournalInv, ShapeInv
<1>2. \E r : /\ observed[t] \subseteq {r, Uncertain} /\ r # Uncertain
             /\ Uncertain \in observed[t] => history[t] \in {Dispatched, Terminal4}
             /\ \/ r \in LocalResult /\ t \notin activated \cup outputs
                \/ r \in FinalResult(t) /\ (observed[t] # {} => t \in activated)
  <2>1. \A r \in LocalResult \cup EarlyResult \cup FinalResult(t) : r # Uncertain
    BY ResultOrigins DEF PreDispatchFailure
  <2>2. \E r : r \in FinalResult(t)
    BY DEF FinalResult, EarlyResult
  <2>3. t \notin outputs => EarlyResult \subseteq FinalResult(t)
    BY DEF FinalResult
  <2> QED BY <1>1, <2>1, <2>2, <2>3, Stages DEF TaskInv
<1>3. PICK r : /\ observed[t] \subseteq {r, Uncertain} /\ r # Uncertain
               /\ Uncertain \in observed[t] => history[t] \in {Dispatched, Terminal4}
               /\ \/ r \in LocalResult /\ t \notin activated \cup outputs
                  \/ r \in FinalResult(t) /\ (observed[t] # {} => t \in activated)
  BY <1>2
<1>4. /\ Cardinality(observed[t]) \in {0, 1, 2}
      /\ Cardinality(observed[t]) = 2 => observed[t] = {r, Uncertain}
  <2>1. observed[t] \in SUBSET {r, Uncertain}
    BY <1>3
  <2> QED BY <2>1, SmallSets
<1>5. EvidenceLoads(t)
  BY <1>1, Stages DEF TaskInv, EvidenceLoads
<1>6. ResultsLoad(t)
  <2>1. ASSUME NEW q \in observed[t]
        PROVE  /\ q.origin = "LOCAL_PREFLIGHT" => t \notin activated \cup outputs
               /\ q.origin = "ACTIVATED" => t \in activated
               /\ q.status = "SUCCEEDED" => t \in outputs
    <3>1. CASE q = Uncertain
      <4>1. t \in activated
        BY <1>1, <1>3, <3>1, Stages DEF TaskInv
      <4> QED BY <3>1, <4>1, ResultOrigins
    <3>2. CASE q = r
      BY <1>3, <3>2, ResultOrigins DEF PreDispatchFailure
    <3> QED BY <1>3, <3>1, <3>2
  <2>2. ASSUME Cardinality(observed[t]) = 2
        PROVE  /\ Cardinality({q \in observed[t] : q.status = "UNCERTAIN"}) = 1
               /\ \A q \in observed[t] : q.origin = "ACTIVATED"
    <3>1. observed[t] = {r, Uncertain} /\ t \in activated
      BY <1>1, <1>3, <1>4, <2>2, Stages DEF TaskInv
    <3>2. r \in FinalResult(t)
      BY <1>3, <3>1
    <3>3. r.origin = "ACTIVATED" /\ r.status # "UNCERTAIN"
      BY <3>2, ResultOrigins DEF PreDispatchFailure
    <3>4. {q \in observed[t] : q.status = "UNCERTAIN"} = {Uncertain}
      BY <3>1, <3>3, ResultOrigins
    <3> QED BY <3>1, <3>3, <3>4, ResultOrigins, FS_Singleton
  <2>3. Cardinality(observed[t]) <= 2
    BY <1>4
  <2> QED BY <2>1, <2>2, <2>3 DEF ResultsLoad
<1>7. history[t] \in Concluded => \E q \in observed[t] : credited[t] = {q}
  BY CreditedOnce
<1>8. history[t] \notin Concluded => credited[t] = {}
  BY <1>1, Stages DEF TaskInv
<1>9. Cardinality(credited[t]) <= 1
  <2>1. Cardinality({}) = 0 /\ \A x : Cardinality({x}) = 1
    BY FS_EmptySet, FS_Singleton
  <2>2. CASE history[t] \in Concluded
    <3>1. PICK q : credited[t] = {q}
      BY <1>7, <2>2
    <3>2. Cardinality(credited[t]) = 1
      BY <2>1, <3>1
    <3> QED BY <3>2
  <2>3. CASE history[t] \notin Concluded
    <3>1. Cardinality(credited[t]) = 0
      BY <1>8, <2>1, <2>3
    <3> QED BY <3>1
  <2> QED BY <2>2, <2>3
<1>10. EventsLoad(t)
  <2>1. history[t] # <<>> => PassOf[t] <= plans
    BY PlannedPass DEF Planned
  <2>2. Len(history[t]) > 1 /\ history[t][2] = "ACTIVATED" => t \in activated
    <3>1. Len(<<>>) = 0
      OBVIOUS
    <3>2. Len(history[t]) > 1 /\ history[t][2] = "ACTIVATED" =>
            history[t] \in {Activated2, Dispatched, Early3, Terminal4}
      BY <1>1, <3>1, StageEvents, Stages
    <3> QED BY <1>1, <3>2 DEF TaskInv
  <2>3. credited[t] \subseteq observed[t]
    BY <1>7, <1>8
  <2> QED BY <1>9, <2>1, <2>2, <2>3 DEF EventsLoad
<1>11. LifecycleLoads(t)
  <2>1. history[t] = Planned1 =>
          /\ t \in activated => observed[t] = {}
          /\ t \notin outputs
          /\ Cardinality({q \in observed[t] : q.origin = "LOCAL_PREFLIGHT"}) <= 1
    <3>1. {q \in observed[t] : q.origin = "LOCAL_PREFLIGHT"} \subseteq {r}
      BY <1>3, ResultOrigins
    <3>2. {q \in observed[t] : q.origin = "LOCAL_PREFLIGHT"} \in {{}, {r}}
      BY <3>1
    <3>3. Cardinality({}) = 0 /\ Cardinality({r}) = 1
      BY FS_EmptySet, FS_Singleton
    <3>4. Cardinality({q \in observed[t] : q.origin = "LOCAL_PREFLIGHT"}) <= 1
      BY <3>2, <3>3
    <3> QED BY <1>1, <3>4 DEF TaskInv
  <2>2. history[t] = Activated2 =>
          /\ t \notin outputs
          /\ Cardinality(observed[t]) <= 1
          /\ \A q \in observed[t] : q.origin = "ACTIVATED" /\ q.status \in PreDispatchFailure
    <3>1. Cardinality({}) = 0 /\ \A x : Cardinality({x}) = 1
      BY FS_EmptySet, FS_Singleton
    <3>2. ASSUME history[t] = Activated2
          PROVE  t \notin outputs /\ (observed[t] = {} \/ \E q \in EarlyResult : observed[t] = {q})
      BY <1>1, <3>2 DEF TaskInv
    <3>3. ASSUME observed[t] = {} \/ \E q \in EarlyResult : observed[t] = {q}
          PROVE  Cardinality(observed[t]) <= 1
      <4>1. Cardinality(observed[t]) \in {0, 1}
        BY <3>1, <3>3
      <4> QED BY <4>1
    <3> QED BY <3>2, <3>3, ResultOrigins
  <2>3. history[t] \in Concluded /\ Cardinality(observed[t]) > 1 =>
          /\ Statuses(credited[t]) = {"UNCERTAIN"}
          /\ "UNCERTAIN" \notin Statuses(observed[t] \ credited[t])
    <3>1. SUFFICES ASSUME history[t] \in Concluded, Cardinality(observed[t]) > 1
                   PROVE  /\ Statuses(credited[t]) = {"UNCERTAIN"}
                          /\ "UNCERTAIN" \notin Statuses(observed[t] \ credited[t])
      OBVIOUS
    <3>2. observed[t] = {r, Uncertain}
      BY <1>4, <3>1
    <3>3. history[t] = Terminal4 /\ r \in FinalResult(t)
      BY <1>1, <1>3, <3>1, <3>2, Stages DEF TaskInv
    <3>4. credited[t] = {Uncertain}
      BY <1>1, <1>3, <3>2, <3>3 DEF TaskInv
    <3>5. observed[t] \ credited[t] = {r}
      BY <1>3, <3>2, <3>4
    <3>6. r.status # "UNCERTAIN"
      BY <3>3, ResultOrigins DEF PreDispatchFailure
    <3> QED BY <3>4, <3>5, <3>6, ResultOrigins DEF Statuses
  <2>4. history[t] # <<>> => history[t] \in Lifecycle
    BY <1>1
  <2>5. history[t] \in Concluded => credited[t] # {}
    BY <1>7
  <2> QED BY <2>1, <2>2, <2>3, <2>4, <2>5 DEF LifecycleLoads, Planned1, Activated2
<1>12. RetainedLoads(t)
  <2>1. ASSUME t \in outputs
        PROVE  /\ history[t] \in {Dispatched, Terminal4}
               /\ Statuses(observed[t] \ credited[t]) \subseteq {"SUCCEEDED"}
               /\ history[t] \in Concluded =>
                    Statuses(credited[t]) \subseteq {"SUCCEEDED", "UNCERTAIN"}
    <3>1. history[t] \in {Dispatched, Terminal4}
      BY <1>1, <2>1, Stages DEF TaskInv
    <3>2. r \in FinalResult(t) /\ r.status = "SUCCEEDED"
      BY <1>3, <2>1, ResultOrigins
    <3>3. observed[t] \ credited[t] \subseteq {r}
      <4>1. CASE history[t] = Dispatched
        BY <1>3, <2>1, <4>1
      <4>2. CASE history[t] = Terminal4
        BY <1>1, <1>3, <4>2 DEF TaskInv
      <4> QED BY <3>1, <4>1, <4>2
    <3>4. credited[t] \subseteq {r, Uncertain}
      BY <1>3, <1>7, <1>8
    <3> QED BY <3>1, <3>2, <3>3, <3>4, ResultOrigins DEF Statuses
  <2>2. ASSUME t \in attempts
        PROVE  /\ history[t] \in {Dispatched, Terminal4}
               /\ Statuses(credited[t]) \cap {"SUCCEEDED", "EXPLICIT_EMPTY"} = {}
    <3>1. history[t] \in {Dispatched, Terminal4} /\ t \notin outputs /\ t \notin EmptyTask
      BY <1>1, <2>2, Stages DEF TaskInv
    <3>2. credited[t] \subseteq {r, Uncertain}
      BY <1>3, <1>7, <1>8
    <3>3. \A q \in credited[t] : q.status \notin {"SUCCEEDED", "EXPLICIT_EMPTY"}
      BY <1>3, <3>1, <3>2, ResultOrigins DEF PreDispatchFailure
    <3> QED BY <3>1, <3>3 DEF Statuses
  <2>3. history[t] = <<>> =>
          t \notin activated \cup outputs \cup attempts /\ observed[t] = {}
    BY <1>1 DEF TaskInv
  <2>4. history[t] \in {Dispatched, Terminal4} =>
          /\ history[t] # <<>> /\ history[t][Len(history[t])] \in {"DISPATCHED", "TERMINAL"}
          /\ \E i \in 1 .. Len(history[t]) : history[t][i] = "DISPATCHED"
    BY <1>1, StageEvents, Stages
  <2> QED BY <2>1, <2>2, <2>3, <2>4 DEF RetainedLoads
<1> QED BY <1>5, <1>6, <1>10, <1>11, <1>12 DEF TaskLoads

(* resume_scheduler_journal refuses what was left behind only when a file is *)
(* torn, or when a recovery was interrupted between the UNCERTAIN result of  *)
(* a task with a retained output and its terminal event.                     *)
THEOREM JournalRefusals == Spec => []RefusedOnlyByInterruptedRecovery
<1>1. ASSUME JournalInv PROVE RefusedOnlyByInterruptedRecovery
  <2>1. SUFFICES ASSUME ~torn, ~\E t \in outputs : history[t] = Dispatched
                                                   /\ Uncertain \in observed[t]
                 PROVE  Loads
    BY DEF RefusedOnlyByInterruptedRecovery
  <2>2. \A t \in Task : TaskLoads(t)
    BY <1>1, <2>1, TaskFilesLoad
  <2>3. plans \in Nat /\ Len(passes) \in Nat /\ Len(passes) \in {plans - 1, plans}
    BY <1>1, SizeAssumption DEF JournalInv, ShapeInv, CampaignInv
  <2>4. PlansLoad
    BY <1>1, <2>3 DEF JournalInv, CampaignInv, PlansLoad
  <2>5. ASSUME NEW p \in 1 .. Len(passes)
        PROVE  /\ \A t \in TasksOf(p) : history[t] \in Concluded /\ credited[t] # {}
               /\ passes[p] = DerivedPassStatus(p)
    <3>1. \A t \in TasksOf(p) : history[t] \in Concluded /\ t \in Task
      BY <1>1, <2>5 DEF JournalInv, CampaignInv, TasksOf
    <3>2. \A t \in TasksOf(p) : credited[t] # {}
      BY <1>1, <3>1, CreditedOnce
    <3> QED BY <1>1, <2>5, <3>1, <3>2 DEF JournalInv, CampaignInv
  <2>6. PassesLoad
    <3>1. \A p \in 1 .. plans - 1 : p \in 1 .. Len(passes)
      BY <2>3
    <3>2. \A p \in 1 .. plans - 1 : \A t \in TasksOf(p) : history[t] # <<>>
      BY <2>5, <3>1, Stages
    <3>3. \A p \in 1 .. plans : \A t, u \in TasksOf(p) :
            t < u /\ history[u] # <<>> => history[t] # <<>>
      BY <1>1 DEF JournalInv, CampaignInv, TasksOf
    <3> QED BY <2>5, <3>2, <3>3 DEF PassesLoad
  <2> QED BY <2>1, <2>2, <2>4, <2>6 DEF Loads
<1> QED BY <1>1, JournalInvariant, PTL
=============================================================================
