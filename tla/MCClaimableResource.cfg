CONSTANTS
    Claimers = {c1, c2, c3, c4}
    None = None
SPECIFICATION ResourceSpec
INVARIANTS GrantedExclusively QueuedExactlyOnce NoClaimForgotten
PROPERTY EveryClaimAnswered
