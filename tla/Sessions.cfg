\* Six requests, two at a time, on a new account and on an established one.
CONSTANTS
    c1 = c1
    c2 = c2
    Clients = {c1, c2}
    MaxSessions = 3
    MaxFactors = 2
    MaxSets = 2
    CodesPerSet = 1
    MaxChallenges = 2
    Purposes = {"PASSWORD_RESET", "CONTACT_VERIFICATION", "OTP"}
    MaxAttempts = 2
    SessionLife = 1
    StepUpLife = 0
    SecretLife = 1
    MaxTime = 1
    MaxTurns = 6
    Established = {TRUE, FALSE}
SPECIFICATION Spec
SYMMETRY Symmetry
INVARIANTS
    ResetEndsSessions
    StepUpIsCurrent
    SecretsWorkOnce
    AttemptsBounded
CHECK_DEADLOCK FALSE
