\* One tool that ends while its results are waited for.
SPECIFICATION MCSpec
CONSTANTS
    N = 1
    Streams <- AllStreams
    MaxGets = 1
PROPERTIES
    WaitEnds
