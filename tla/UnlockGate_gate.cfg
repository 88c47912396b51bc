\* Two guesses, from one address or two, the token one of them may earn, and a
\* restart.  No symmetry: a liveness property.
SPECIFICATION FairSpec
CONSTANTS
    ShareIds = {s1}
    Clients = {a, b}
    Attempts = {g1, g2}
    Uses = {u1}
    Passwords = {p1, p2}
    NULL = NULL
    MaxFailures = 1
    Lookback = 0
    TokenTtl = 1
    MaxTime = 1
    MaxCrashes = 1
INVARIANTS
    TypeOK
    FailureBudget
    PassedOnlyUnlocked
    UnlockLasts
PROPERTIES
    LimitedOnlyByWrongGuesses
    AttemptsAnswered
