SPECIFICATION FairSpec
CONSTANTS
    W = 3
    N = 2
    SpecsOf <- Pairs
    MaxEdits = 3
    WebhookIgnored = {2}

    
PROPERTIES
    ConflictIsNoticed
    
CHECK_DEADLOCK FALSE
