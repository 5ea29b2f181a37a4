------------------------------ MODULE Findings ------------------------------
(***************************************************************************)
(* From candidate findings to the report: orchestration/consensus.py, the  *)
(* last four passes of orchestration/pipeline.py and run_status.py.        *)
(* Candidates come from models and, last in the list, from executions of   *)
(* the host.  Their locations are validated against the working tree again *)
(* and again, because the tree can change under a run that waits on model  *)
(* calls; similar candidates are grouped; a verifier, reproductions and a  *)
(* judge decide what each group is reported as; and what failed on the way *)
(* decides the status of the run.                                          *)
(*                                                                         *)
(* A candidate is a number, its place in the list and the order of its     *)
(* identifier.  The text, lines and hashes it consists of are abstracted   *)
(* to what the code derives from them: which earlier candidates it is      *)
(* similar to, which execution the host linked it to, and a profile.       *)
(***************************************************************************)
EXTENDS Naturals, FiniteSets

CONSTANTS
    N,             \* number of candidates
    Inventory,     \* what they may be: functions from candidates to profiles
    ProofPolicy,   \* settings of requireProof, for each inventory
    Decision,      \* verifier decisions: [verdict, guards]
    Judgement,     \* judge decisions: [status, severity]
    Threshold,     \* severity_threshold of the report
    MaxDrifts      \* bound: changes of the working tree

Severity == 0 .. 4   \* informational, low, medium, high, critical
High == 3
Critical == 4
Candidate == 1 .. N
Profile == [origin : {"model", "execution"}, family : Nat, path : BOOLEAN,
            scanner : BOOLEAN, formal : BOOLEAN, severity : Severity, confidence : Nat]

Rank == [rejected |-> 0, unsupported |-> 1, insufficient_context |-> 2,
         informational |-> 3, needs_review |-> 4, plausible |-> 5,
         high_confidence |-> 6, strongly_supported |-> 7, confirmed |-> 8]
Status == DOMAIN Rank
AcceptedStatus == {"confirmed", "strongly_supported", "high_confidence", "plausible"}
Verdict == {"verified", "plausible", "rejected", "insufficient_context"}
NoDecision == [verdict |-> "none", guards |-> FALSE]
Insufficient == [verdict |-> "insufficient_context", guards |-> FALSE]
NoJudgement == [status |-> "none", severity |-> 0]

(* The pipeline appends the executions to the list of reviews.               *)
ASSUME InventoryTyped ==
    /\ N \in Nat \ {0} /\ MaxDrifts \in Nat /\ Threshold \in Severity
    /\ \A p \in Inventory :
        /\ \A c \in Candidate : p[c] \in Profile
        /\ \A c, d \in Candidate :
            p[c].origin = "execution" /\ c < d => p[d].origin = "execution"
    /\ \A p \in Inventory : ProofPolicy[p] \subseteq BOOLEAN
    /\ \A j \in Judgement : j \in [status : Status, severity : Severity]
    /\ Decision \subseteq [verdict : Verdict, guards : BOOLEAN]

VARIABLES
    profile,      \* what a candidate says, fixed
    similar,      \* pairs (i, j), i < j, with candidate_similarity >= 0.55, fixed
    link,         \* the execution the host linked a model candidate to, 0: none
    requireProof, \* require_formal_or_reproduction_for_confirmed_critical, fixed
    stage,        \* how far the run is
    current,      \* candidates whose source is as it was when it was read
    drifts,       \* changes of the tree so far
    validations,  \* candidates valid at the last validation
    workset,      \* candidates valid in the output of the integration pass
    decisions,    \* the verifier's
    reproduced,   \* candidates with reproduction evidence
    judgements,   \* the judge's, by group
    findings,     \* the reported findings
    halted,       \* scheduler_halted or budget_halted
    reasons,      \* incomplete is not empty
    success,      \* terminal_code is SUCCESS
    runStatus     \* run_status of the report

input == <<profile, similar, link, requireProof>>
tree == <<current, drifts>>
outcome == <<halted, reasons, success>>
vars == <<input, stage, tree, validations, workset, decisions, reproduced,
          judgements, findings, outcome, runStatus>>

-----------------------------------------------------------------------------
(* consensus.py: groups. *)

Execution == {c \in Candidate : profile[c].origin = "execution"}

(* can_union's test for one anchor and one member: the host's exact link,    *)
(* which bind_model_analysis_to_execution_origin makes only for overlapping  *)
(* locations.  Two executions never have the same provenance.                *)
Compatible(anchor, c) == anchor = c \/ link[c] = anchor
Members(root, i, j) == {c \in DOMAIN root : root[c] \in {root[i], root[j]}}
(* Fault: the members already in the two groups are not compared.            *)
AnyUnion(root, i, j) == TRUE

CanUnion(root, i, j) ==
    LET both == Members(root, i, j)
    IN  \A a \in both \cap Execution, c \in both : Compatible(a, c)
Union(root, i, j) ==
    [c \in DOMAIN root |->
        IF c \notin Members(root, i, j) THEN root[c]
        ELSE IF root[i] < root[j] THEN root[i] ELSE root[j]]

(* group_candidates: pairs in the order of the two nested loops; root maps a *)
(* candidate to the least of its component.                                  *)
Join(S, root, k) ==
    LET i == ((k - 1) \div N) + 1
        j == ((k - 1) % N) + 1
    IN  IF <<i, j>> \in similar /\ {i, j} \subseteq S /\ CanUnion(root, i, j)
        THEN Union(root, i, j) ELSE root
RootsAfter(S) ==
    LET root[k \in 0 .. N * N] ==
            IF k = 0 THEN [c \in S |-> c] ELSE Join(S, root[k - 1], k)
    IN  root
Roots(S) == RootsAfter(S)[N * N]
Groups(S) ==
    LET root == Roots(S) IN {{c \in S : root[c] = root[d]} : d \in S}

-----------------------------------------------------------------------------
(* consensus.py: what a group is reported as. *)

(* The first of the most confident.                                          *)
Strongest(S) == CHOOSE c \in S : \A d \in S :
    \/ profile[d].confidence < profile[c].confidence
    \/ profile[d].confidence = profile[c].confidence /\ c <= d

AcceptedBy(decided, c) == decided[c].verdict \in {"verified", "plausible"}
CompletePath(c) == profile[c].path /\ ~decisions[c].guards

(* The evidence of the candidates whose location was found valid.            *)
SupportedBy(valid) ==
    [reproduced |-> valid \cap reproduced # {},
     tooled     |-> \E c \in valid : profile[c].formal \/ profile[c].scanner,
     path       |-> \E c \in valid : CompletePath(c),
     families   |-> {profile[c].family : c \in valid \ Execution}]

PreliminaryStatus(g, valid) ==
    LET anchors   == g \cap Execution
        accepted  == {c \in g \cap valid : AcceptedBy(decisions, c)}
        verified  == \E c \in accepted : decisions[c].verdict = "verified"
        support   == SupportedBy(accepted)
    IN  CASE anchors # {} -> IF anchors \subseteq valid THEN "confirmed" ELSE "rejected"
          [] anchors = {} /\ accepted = {} -> "rejected"
          [] anchors = {} /\ accepted # {} /\ ~verified -> "needs_review"
          [] OTHER ->
                IF support.reproduced \/ (support.tooled /\ support.path) THEN "confirmed"
                ELSE IF support.path /\ Cardinality(support.families) >= 2
                     THEN "strongly_supported"
                ELSE IF CompletePath(Strongest(accepted)) THEN "high_confidence" ELSE "needs_review"

(* merge_group: max by confidence, severity and identifier.                  *)
Outweighs(c, d) ==
    \/ profile[c].confidence > profile[d].confidence
    \/ /\ profile[c].confidence = profile[d].confidence
       /\ \/ profile[c].severity > profile[d].severity
          \/ profile[c].severity = profile[d].severity /\ c >= d
Primary(g, valid) ==
    LET anchors  == g \cap Execution
        accepted == {c \in g \cap valid : AcceptedBy(decisions, c)}
        pool     == CASE anchors \cap valid # {} -> anchors \cap valid
                      [] anchors \cap valid = {} /\ anchors # {} -> anchors
                      [] anchors = {} /\ accepted # {} -> accepted
                      [] anchors = {} /\ accepted = {} /\ g \cap valid # {} -> g \cap valid
                      [] OTHER -> g
    IN  CHOOSE c \in pool : \A d \in pool : Outweighs(c, d)

(* Fault: the judge's word lowers executions too.                            *)
LowersAny(g, valid, judge, cap) ==
    judge # NoJudgement /\ Rank[judge.status] < Rank[cap]
JudgeMayLower(g, valid, judge, cap) ==
    /\ g \cap Execution \cap valid = {}
    /\ judge # NoJudgement
    /\ Rank[judge.status] < Rank[cap]
MergedStatus(g, valid, judge) ==
    LET cap == PreliminaryStatus(g, valid)
    IN  IF JudgeMayLower(g, valid, judge, cap) THEN judge.status ELSE cap
MergedSeverity(g, valid, judge) ==
    IF judge # NoJudgement THEN judge.severity ELSE profile[Primary(g, valid)].severity

(* _evidence_strength looks at the evidence of every candidate of the group, *)
(* the invalid and the rejected ones included.                               *)
ExecutableProof(g, valid) ==
    \/ \E c \in g : profile[c].formal \/ c \in reproduced
    \/ g \cap Execution # {} /\ g \cap Execution \subseteq valid

(* enforce_critical_evidence_cap, which the operator can turn off.           *)
Capped(g, valid, status, severity) ==
    IF /\ requireProof /\ severity = Critical /\ status = "confirmed"
       /\ ~ExecutableProof(g, valid)
    THEN "strongly_supported" ELSE status

(* _enforce_post_judge_execution_severity_accounting: executions that reach  *)
(* a high severity only by the judge's word.                                 *)
RaisedLate(g, status, severity, judge) ==
    /\ judge # NoJudgement /\ status # "rejected" /\ severity >= High
    /\ \E c \in g \cap Execution : profile[c].severity < High

Merge(g, valid, judge) ==
    LET severity == MergedSeverity(g, valid, judge)
        capped   == Capped(g, valid, MergedStatus(g, valid, judge), severity)
        late     == RaisedLate(g, capped, severity, judge)
        status   == IF late /\ capped \in AcceptedStatus THEN "needs_review" ELSE capped
    IN  [group |-> g, status |-> status, severity |-> severity, late |-> late,
         list |-> CASE status = "rejected" -> "rejected"
                    [] status # "rejected" /\ (g \cap Execution # {} \/ severity >= Threshold)
                         -> "final"
                    [] OTHER -> "filtered"]

-----------------------------------------------------------------------------
(* The run. *)

Init ==
    /\ profile \in Inventory
    /\ similar \in SUBSET {p \in Candidate \X Candidate : p[1] < p[2]}
    /\ link \in {l \in [Candidate -> {0} \cup Execution] : \A c \in Execution : l[c] = 0}
    /\ requireProof \in ProofPolicy[profile]
    /\ stage = "reduce"
    /\ current = Candidate /\ drifts = 0
    /\ validations = {} /\ workset = {}
    /\ decisions = [c \in Candidate |-> NoDecision]
    /\ reproduced = {} /\ judgements = <<>> /\ findings = {}
    /\ halted = FALSE /\ reasons = FALSE /\ success = TRUE
    /\ runStatus = "none"

Goes(from, to) == stage = from /\ stage' = to

(* A reason is appended and the terminal code is no longer SUCCESS; the pass *)
(* is not COMPLETE, so that conclude_scheduler_result halts the scheduler.   *)
Trouble == halted' = TRUE /\ reasons' = TRUE /\ success' = FALSE
Noted == reasons' = TRUE /\ success' = FALSE /\ UNCHANGED halted
Calm == UNCHANGED outcome

(* A file of the repository is edited, or restored, while the run waits.     *)
Drift ==
    /\ stage \notin {"done"} /\ drifts < MaxDrifts /\ drifts' = drifts + 1
    /\ \E c \in Candidate :
        current' = IF c \in current THEN current \ {c} ELSE current \cup {c}
    /\ UNCHANGED <<input, stage, validations, workset, decisions, reproduced,
                   judgements, findings, outcome, runStatus>>

(* The finding reduction pass: executions are appended, formal               *)
(* counterexamples attached, locations validated.                            *)
Reduce ==
    /\ Goes("reduce", "integrate")
    /\ validations' = current
    /\ Calm \/ Trouble
    /\ UNCHANGED <<input, tree, workset, decisions, reproduced, judgements,
                   findings, runStatus>>

(* The cross-shard integration: its retained output fixes the work of the    *)
(* later passes.                                                             *)
Integrate ==
    /\ Goes("integrate", "examine")
    /\ IF halted THEN Calm /\ UNCHANGED <<validations, workset>>
       ELSE /\ validations' = current
            /\ \/ workset' = current /\ Calm
               \/ UNCHANGED workset /\ Trouble
    /\ UNCHANGED <<input, tree, decisions, reproduced, judgements, findings, runStatus>>

(* Every location is validated again; then adversarial cross-examination of  *)
(* the high and critical candidates, which only adds votes.                  *)
Examine ==
    /\ Goes("examine", "verify")
    /\ validations' = current
    /\ Calm \/ (~halted /\ Trouble)
    /\ UNCHANGED <<input, tree, workset, decisions, reproduced, judgements,
                   findings, runStatus>>

(* The validation pass, the verifier first: it is asked only when the        *)
(* candidates valid now are those of the integration output.                 *)
WorksetHolds == validations = workset
Verify ==
    /\ Goes("verify", "reproduce")
    /\ \/ /\ ~halted /\ WorksetHolds /\ Calm
          /\ decisions' \in {d \in [Candidate -> Decision \cup {NoDecision}] :
                                \A c \in Candidate : d[c] = NoDecision <=> c \notin workset}
       \/ /\ IF halted THEN Calm ELSE Trouble
          /\ decisions' = [c \in Candidate |->
                              IF c \in workset THEN Insufficient ELSE NoDecision]
    /\ UNCHANGED <<input, tree, validations, workset, reproduced, judgements,
                   findings, runStatus>>

(* _eligible_reproduction_candidates and _apply_reproduction_results: tests  *)
(* that survived falsification add evidence, a completed test that disproved *)
(* the claim rejects it; different tests of one candidate may do both.  A    *)
(* failed request of this pass leaves what was decided and halts.            *)
Eligible ==
    {c \in validations : profile[c].severity >= 2 /\ AcceptedBy(decisions, c)}
Reproduce ==
    /\ Goes("reproduce", "judge")
    /\ \/ /\ ~halted
          /\ \E hit \in SUBSET Eligible, miss \in SUBSET Eligible :
              /\ reproduced' = hit
              /\ decisions' = [c \in Candidate |->
                    IF c \in miss THEN [decisions[c] EXCEPT !.verdict = "rejected"]
                    ELSE decisions[c]]
          /\ Calm \/ Trouble
       \/ halted /\ Calm /\ UNCHANGED <<decisions, reproduced>>
    /\ UNCHANGED <<input, tree, validations, workset, judgements, findings, runStatus>>

(* Fault: a judge that failed leaves no reason.                              *)
JudgeFailsQuietly == UNCHANGED outcome
JudgeFails == Trouble
(* Fault: a group the judge left out is not missed.                          *)
AnyInventory(groups) == UNION {[some -> Judgement] : some \in SUBSET groups}
(* The judge must decide exactly the groups it was asked about.              *)
JudgeInventory(groups) == [groups -> Judgement]
Judge ==
    /\ Goes("judge", "merge")
    /\ LET groups == Groups(Candidate)
           none   == [g \in groups |-> NoJudgement]
       IN  \/ ~halted /\ Calm /\ judgements' \in JudgeInventory(groups)
           \/ ~halted /\ groups # {} /\ JudgeFails /\ judgements' = none
           \/ halted /\ Calm /\ judgements' = none
    /\ UNCHANGED <<input, tree, validations, workset, decisions, reproduced,
                   findings, runStatus>>

(* Fault: the validation made before the last model calls is used.           *)
KeepValidations == UNCHANGED validations
Revalidate == validations' = current

(* After the last model call: validate again, merge every group, sort the    *)
(* findings into the lists of the report.                                    *)
MergeAll ==
    /\ Goes("merge", "check")
    /\ Revalidate
    /\ findings' = {Merge(g, validations', judgements[g]) : g \in Groups(Candidate)}
    /\ IF \E f \in findings' : f.late
       THEN Noted ELSE Calm
    /\ UNCHANGED <<input, tree, workset, decisions, reproduced, judgements, runStatus>>

(* Models never ran (scanner-only, or a preflight that failed): executions   *)
(* are grouped and merged alone, without decisions and without a judge.      *)
ExecutionsOnly ==
    /\ stage = "reduce"
    /\ validations' = validations \cup (current \cap Execution)
    /\ findings' = {[Merge(g, validations', NoJudgement) EXCEPT !.list =
                        IF @ = "rejected" THEN @ ELSE "final"] : g \in Groups(Execution)}
    /\ \/ stage' = "scanned" /\ Calm
       \/ stage' \in {"scanned", "check"} /\ Noted
    /\ UNCHANGED <<input, tree, workset, decisions, reproduced, judgements, runStatus>>

(* _repository_unchanged *)
CheckSource ==
    /\ stage \in {"check", "scanned"}
    /\ stage' = IF stage = "check" THEN "finish" ELSE "finishScanned"
    /\ IF current = Candidate THEN Calm
       ELSE Noted
    /\ UNCHANGED <<input, tree, validations, workset, decisions, reproduced,
                   judgements, findings, runStatus>>

(* assess_minimum_analysis_floor, from the evidence the other components     *)
(* left: what was ingested and compiled, which scanners and model roles      *)
(* finished, whether coverage and surfaces are in order.                     *)
FloorStatus(e, failed, scannerOnly, downgrade) ==
    LET qualifying == e.static \/ e.roles # "none"
        analyzed   == e.static \/ ~(e.solidity \/ scannerOnly)
        sound == /\ qualifying /\ e.ingested /\ e.compiled = "success"
                 /\ e.coverage /\ e.surface /\ ~failed
    IN  IF ~e.ingested \/ (failed /\ ~qualifying) \/ e.compiled = "failed" THEN "FAILED"
        ELSE IF /\ sound /\ analyzed /\ e.roles = "all" /\ ~scannerOnly /\ ~downgrade
             THEN "COMPLETE"
        ELSE IF downgrade /\ sound /\ (scannerOnly => e.static) THEN "DEGRADED"
        ELSE "INCOMPLETE"

Evidence(scannerOnly) ==
    {e \in [solidity : BOOLEAN, static : BOOLEAN, roles : {"none", "some", "all"},
            ingested : BOOLEAN, compiled : {"success", "partial", "failed"},
            coverage : BOOLEAN, surface : BOOLEAN] :
        /\ scannerOnly => e.roles = "none"
        /\ ~e.solidity => e.compiled = "success" /\ (e.static => scannerOnly)}
Floors ==
    [r \in [failed : BOOLEAN, scannerOnly : BOOLEAN, downgrade : BOOLEAN] |->
        {FloorStatus(e, r.failed, r.scannerOnly, r.downgrade) : e \in Evidence(r.scannerOnly)}]

(* The end of run: an authorized downgrade leaves its reasons without        *)
(* touching the terminal code, a failed required gate only when the code is  *)
(* still SUCCESS; the floor adds its own reason.                             *)
Finish ==
    /\ stage \in {"finish", "finishScanned"} /\ stage' = "done"
    /\ \E gateFails \in BOOLEAN, downgraded \in BOOLEAN :
        LET scannerOnly == stage = "finishScanned"
            gated       == gateFails /\ success /\ ~downgraded
        IN  /\ scannerOnly => ~downgraded
            /\ runStatus' \in Floors[[failed |-> ~success \/ gated, scannerOnly |-> scannerOnly,
                                      downgrade |-> scannerOnly \/ downgraded]]
            /\ reasons' = (reasons \/ downgraded \/ gated \/ runStatus' # "COMPLETE")
            /\ success' = (success /\ ~gated /\ runStatus' \notin {"INCOMPLETE", "FAILED"})
    /\ UNCHANGED <<input, tree, validations, workset, decisions, reproduced,
                   judgements, findings, halted>>

Done == stage = "done" /\ UNCHANGED vars

Next ==
    \/ Drift \/ Reduce \/ Integrate \/ Examine \/ Verify \/ Reproduce \/ Judge
    \/ MergeAll \/ ExecutionsOnly \/ CheckSource \/ Finish \/ Done

Spec == Init /\ [][Next]_vars

-----------------------------------------------------------------------------
(* Types; the judge has answered for exactly the groups that are merged.     *)
TypeOK ==
    /\ similar \subseteq Candidate \X Candidate /\ link \in [Candidate -> {0} \cup Execution]
    /\ {current, validations, workset, reproduced} \subseteq SUBSET Candidate
    /\ decisions \in [Candidate -> [verdict : Verdict \cup {"none"}, guards : BOOLEAN]]
    /\ stage = "merge" =>
        judgements \in [Groups(Candidate) -> Judgement \cup {NoJudgement}]
    /\ \A f \in findings : f.status \in Status /\ f.severity \in Severity
    /\ {requireProof, halted, reasons, success} \subseteq BOOLEAN
    /\ runStatus \in {"none", "COMPLETE", "DEGRADED", "INCOMPLETE", "FAILED"}

(* However a group is cut in two, a similar pair lies across the cut.        *)
Near(x, y) == <<x, y>> \in similar \/ <<y, x>> \in similar
Connected(g) ==
    \A part \in (SUBSET g) \ {{}, g} : \E x \in part, y \in g \ part : Near(x, y)

(* group_candidates: no bridge of similar reviews joins two executions or    *)
(* brings an unlinked review into an execution's group; and in whatever      *)
(* order pairs are met, a group is connected by similarity and similar       *)
(* reviews without a link share one, so that reviews alone are grouped into  *)
(* the connected components.  Groups depend on the fixed input alone, so     *)
(* that an early stage speaks for the later ones, where they are used.       *)
GroupsSound ==
    stage = "integrate" =>
        LET groups == Groups(Candidate)
            loose  == {c \in Candidate \ Execution : link[c] = 0}
        IN  /\ \A g \in groups : Connected(g)
            /\ \A g \in groups, a \in Execution :
                a \in g => \A c \in g \ {a} : link[c] = a
            /\ \A c, d \in loose : <<c, d>> \in similar =>
                \E g \in groups : {c, d} \subseteq g

(* What preliminary_status asks of a confirmation: an execution, a           *)
(* reproduction, or a tool's evidence together with a complete path.         *)
Substantiated(valid) ==
    LET accepted == {c \in valid : AcceptedBy(decisions, c)}
    IN  \/ valid \cap Execution # {}
        \/ accepted \cap reproduced # {}
        \/ /\ \E c \in accepted : profile[c].formal \/ profile[c].scanner
           /\ \E c \in accepted : CompletePath(c)

(* The revalidation after the last model call, merge_group and               *)
(* enforce_critical_evidence_cap: when a finding is reported as anything but *)
(* rejected, one of its candidates still stands in the tree as it is now,    *)
(* host-observed or accepted and not disproved since; a confirmed one is     *)
(* substantiated by candidates that stand, whatever verifier and judge say;  *)
(* and unless the operator turned the requirement off, a critical one is     *)
(* confirmed only with executable proof in its group.                        *)
AcceptanceIsGrounded ==
    [][\A f \in findings' \ findings :
        /\ f.status # "rejected" =>
            \E c \in f.group \cap current : c \in Execution \/ AcceptedBy(decisions, c)
        /\ f.status = "confirmed" => Substantiated(f.group \cap current)
        /\ requireProof /\ f.status = "confirmed" /\ f.severity = Critical =>
            \E c \in f.group : c \in reproduced \/ profile[c].formal \/ c \in Execution]_vars

(* preliminary_status and merge_group: no verdict of a model removes an      *)
(* execution that still stands or hides it below the threshold; it loses its *)
(* confirmation only in a run that is reported as not complete.              *)
ExecutionStands ==
    \A f \in findings : f.group \cap Execution \cap validations # {} =>
        /\ f.list = "final"
        /\ f.status = "confirmed" \/ (f.status = "needs_review" /\ reasons)

(* The verifier's own decision, which a reproduction may have turned into a  *)
(* rejection: not what the host puts in for a verifier that failed.          *)
VerifierDecided(c) ==
    \E d \in Decision : decisions[c] \in {d, [d EXCEPT !.verdict = "rejected"]}

(* run_status.py and the validator of the report: the status is COMPLETE     *)
(* exactly when no reason was recorded, and then the verifier decided every  *)
(* candidate of the workset and the judge every group that was merged.       *)
CompleteIsEarned ==
    stage = "done" =>
        /\ runStatus = "COMPLETE" <=> ~reasons
        /\ runStatus = "COMPLETE" =>
            /\ \A g \in Groups(Candidate) : judgements[g] # NoJudgement
            /\ \A c \in workset : VerifierDecided(c)
=============================================================================
