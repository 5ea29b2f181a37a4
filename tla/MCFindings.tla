----------------------------- MODULE MCFindings -----------------------------
(* Three candidates, of which none, one or two are executions; the reviews   *)
(* differ in what supports them, the executions are of low severity, and the *)
(* judge says the extremes.                                                  *)
EXTENDS Findings

Says(origin, family, scanner, formal, severity, confidence) ==
    [origin |-> origin, family |-> family, path |-> TRUE, scanner |-> scanner,
     formal |-> formal, severity |-> severity, confidence |-> confidence]
First == Says("model", 1, FALSE, FALSE, 3, 2)
Second == Says("model", 2, TRUE, FALSE, 4, 1)
Third == Says("model", 2, FALSE, TRUE, 1, 3)
Observed == Says("execution", 0, FALSE, FALSE, 1, 3)
Inventories ==
    {<<First, Second, Third>>, <<First, Second, Observed>>, <<First, Observed, Observed>>}
(* The reviews alone are also checked with the requirement turned off; an    *)
(* execution that stands is proof in itself.                                 *)
Policies ==
    [p \in Inventories |-> IF p = <<First, Second, Third>> THEN BOOLEAN ELSE {TRUE}]
Verdicts ==
    {[verdict |-> "verified", guards |-> FALSE], [verdict |-> "plausible", guards |-> TRUE],
     [verdict |-> "rejected", guards |-> FALSE]}
Judgements ==
    {[status |-> "rejected", severity |-> 1], [status |-> "confirmed", severity |-> 4]}
=============================================================================
