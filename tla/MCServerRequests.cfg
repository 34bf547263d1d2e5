SPECIFICATION Spec
CONSTANTS
    Conns = {c1, c2}
    Starter = c1
    MaxRequests = 1
    MaxTurns = 1
    MaxCmds = 1
INVARIANTS ResolvedIsFinal PendingIsShown DecidedIsClosed SubscribersAreLive
PROPERTY SettledIsDecided
