SPECIFICATION Spec
CONSTANTS
    Steps <- MCSteps
    NPki <- MCNPki
    NConf <- MCNConf
    Inputs <- Embedded
    KubeletConf <- MCKubeletConf
    OutsideEtc <- MCOutsideEtc
    MaxAttempts = 3
    Nil = Nil
    Torn = Torn
INVARIANTS TypeOK GuardImpliesPki TriggerImpliesPki DoneIsDurable
CHECK_DEADLOCK FALSE
