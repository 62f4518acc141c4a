CONSTANTS
    Sinks = {s1, s2}
    MaxRecords = 3
    MaxTears = 2
    MaxVerifies = 2
SPECIFICATION FairSpec
INVARIANTS
    TypeOK
    DamageMeansTear
    OkCoversAcked
    DamageIsContained
PROPERTIES
    WriteReturns
