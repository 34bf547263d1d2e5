CONSTANTS
    Inputs = {i1}
    Mails = {g1}
    TriggerMails = {g1}
    Injections = {x1}
    Clients = {c1}
    MaxTurns = 5
    MaxSamples = 1
    LoopOps = {"input", "mail"}
    ClientOps = {"tryStart", "inject"}
    MaxOps = 0
SPECIFICATION Spec
CHECK_DEADLOCK FALSE
SYMMETRY Symmetry
INVARIANTS
    ActiveTurnHasOwner

    
