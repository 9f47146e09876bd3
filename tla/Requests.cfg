\* Four requests, two files, two contents; one failure, crash or change.
CONSTANTS
    r1 = r1
    r2 = r2
    r3 = r3
    r4 = r4
    f1 = f1
    f2 = f2
    f3 = f3
    c1 = c1
    c2 = c2
    c3 = c3
    NoFile = NoFile
    NoContent = NoContent
    AnyTenant = AnyTenant
    Requests = {r1, r2, r3, r4}
    Workloads <- AllWorkloads
    Files = {f1, f2}
    FirstFiles <- TwoFiles
    Contents = {c1, c2}
    SummaryOf <- Summary
    MaxLimit = 2
    MaxIncidents = 1
SPECIFICATION Spec
INVARIANTS
    TypeOK
    AnswersAreTrue
    OneRowPerKey
    ArtifactsAreWhole
    PagingMissesNothing
PROPERTIES
    EveryRequestEnds
CHECK_DEADLOCK FALSE
