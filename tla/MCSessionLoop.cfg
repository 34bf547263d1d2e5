CONSTANTS
    Inputs = {i1, i2}
    Mails = {m1}
    TriggerMails = {}
    Injections = {}
    Clients = {c1}
    MaxTurns = 5
    MaxSamples = 1
    LoopOps = {"input", "mail", "interrupt", "compact", "shutdown"}
    ClientOps = {"steer", "abortTurn"}
    MaxOps = 1
SPECIFICATION Spec
CHECK_DEADLOCK FALSE
SYMMETRY Symmetry
INVARIANTS
    
    RecordedOnce
    
    

    
