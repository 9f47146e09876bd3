\* Chunks of up to 20 characters, embedded one or two at a time; one model
\* replaced by another, a failure, a cancelled call and a second normalization.
CONSTANTS
    trace = trace
    other_testcase = other_testcase
    NoValue = NoValue
    Inputs <- Traces
    ChunkSize = 20
    ChunkOverlap = 6
    Command = trace
    BatchSize = 2
    Models <- TwoModels
    Searches = {s1}
    TopK = 1
    MaxRounds = 2
    MaxEmbeds = 2
    MaxFailures = 1
    MaxCancels = 1
SPECIFICATION FairSpec
INVARIANTS
    ChunksAreSound
    IndexIsSound
    OneAwaitedEncoding
PROPERTIES
    SearchIsServed
CHECK_DEADLOCK FALSE
