\* Three tools of every kind, with failures, discard, cancel and collection at any moment.
SPECIFICATION MCSpec
CONSTANTS
    N = 3
    Streams <- AllStreams
    MaxGets = 2
INVARIANTS
    TypeOK
    SchedulingKept
PROPERTIES
    AllSettle
    KeepsPromise
