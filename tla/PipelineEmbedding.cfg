CONSTANTS
    a1 = a1
    a2 = a2
    t1 = t1
    tc = tc
    NoTestcase = NoTestcase
    Artifacts = {a1}
    TraceOf <- OneTrace
    TestcaseOf <- SecondWithTestcase
    Barren = {}
    MaxEvents = 5
    MaxRedeliveries = 0
    MaxOutages = 0
    MaxRestarts = 0
SPECIFICATION Spec
PROPERTIES
    EmbeddingIsIdempotent
CHECK_DEADLOCK FALSE
