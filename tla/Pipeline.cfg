\* Two artifacts of one trace; the second is for a test case and has no evidence.
CONSTANTS
    a1 = a1
    a2 = a2
    t1 = t1
    tc = tc
    NoTestcase = NoTestcase
    Artifacts = {a1, a2}
    TraceOf <- OneTrace
    TestcaseOf <- SecondWithTestcase
    Barren = {a2}
    MaxEvents = 5
    MaxRedeliveries = 1
    MaxOutages = 1
    MaxRestarts = 1
SPECIFICATION Spec
INVARIANTS
    TypeOK
    ParsedOnce
    ChunksCatchUp
    EmbeddingsCatchUp
CHECK_DEADLOCK FALSE
