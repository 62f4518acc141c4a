CONSTANTS
    Sinks = {s1, s2}
    MaxRecords = 2
    MaxTears = 1
    MaxVerifies = 1
SPECIFICATION Spec
INVARIANTS
    LogStaysVerifiable
