SPECIFICATION TimedSpec
CONSTANTS
    p1 = p1
    Name <- OneName
    Addr = {1, 2}
    Request <- Mixed
    Gateway = {0}
    MaxUID = 3
    SubnetLag = 1
    CacheLag = FALSE
    Failures = FALSE
PROPERTIES
    StayingPodIsServed
    IPFollowsPod
    RequestIsHonoured
CHECK_DEADLOCK FALSE
