CONSTANTS
    Inputs = {i1}
    Mails = {g1}
    TriggerMails = {g1}
    Injections = {}
    Clients = {c1}
    MaxTurns = 5
    MaxSamples = 1
    LoopOps = {"input", "mail", "interrupt"}
    ClientOps = {"steer"}
    MaxOps = 1
SPECIFICATION FairSpecWithCompaction
CHECK_DEADLOCK FALSE
INVARIANTS
    CompletedTurnRecordedInput

    
    
