SPECIFICATION Spec
CONSTANTS
    N = 3
    Inventory <- Inventories
    ProofPolicy <- Policies
    Decision <- Verdicts
    Judgement <- Judgements
    Threshold = 2
    MaxDrifts = 1
INVARIANTS
    TypeOK
    GroupsSound
    ExecutionStands
    CompleteIsEarned
PROPERTY
    AcceptanceIsGrounded
