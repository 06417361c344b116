\* One device, two versions to publish, two requests at once, one upset, logins before, between and after updates.
SPECIFICATION FairSpec
CONSTANTS
    r1 = r1
    r2 = r2
    NoReq = NoReq
    Device <- OneDevice
    Req <- TwoRequests
    Newest = 2
    MaxVersion = 3
    MaxUpsets = 1
    JobTries = 2
INVARIANTS
    TypeOK
    CopyFollowsRow
PROPERTIES
    MarkedIsInstalled
    NewVersionMarked
    UpdateUnlocks
