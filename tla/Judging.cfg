SPECIFICATION FairJudgingSpec
CONSTANTS
    r1 = r1
    r2 = r2
    r3 = r3
    Run = {r1, r2, r3}
    Host = {r1, r2}
    Sub <- MCSub
    Verifier <- MCVerifier
    Attempts <- MCAttempts
    Profile = "strict"
    Allowlist = TRUE
    Before <- MCBefore
    After <- MCAfter
    Silent <- MCSilent
    Text <- MCText
    Completes = {"image"}
    MaxCalls <- MCMaxCalls
    NoRun = NoRun
INVARIANTS JudgingTypeOK HandedOnIsClean AuditTellsTruth CostsCounted OnlyFaithfulReturned
PROPERTY RunsEnd
CHECK_DEADLOCK FALSE
