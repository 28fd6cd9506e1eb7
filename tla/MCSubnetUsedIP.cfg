SPECIFICATION Spec
CONSTANTS
    W = 4
    CIDRs <- MCCIDRs
    RangesOf <- MCRangesOf
    GatewaysOf <- MCGatewaysOf
    MaxOwned = 4
INVARIANTS
    NormalForm
    
    FindsFirstFree
    
