\* One artifact; nine events leave room for every event of the pipeline up to
\* the first embedding, whichever copies of the earlier ones come first.
CONSTANTS
    a1 = a1
    a2 = a2
    t1 = t1
    tc = tc
    NoTestcase = NoTestcase
    Artifacts = {a1}
    TraceOf <- OneTrace
    TestcaseOf <- SecondWithTestcase
    Barren = {}
    MaxEvents = 9
    MaxRedeliveries = 0
    MaxOutages = 0
    MaxRestarts = 0
SPECIFICATION FairSpec
PROPERTIES
    EventuallyEmbedded
CHECK_DEADLOCK FALSE
