\* Three files for one trace; nothing fails.
CONSTANTS
    r1 = r1
    r2 = r2
    r3 = r3
    r4 = r4
    f1 = f1
    f2 = f2
    f3 = f3
    c1 = c1
    c2 = c2
    c3 = c3
    NoFile = NoFile
    NoContent = NoContent
    AnyTenant = AnyTenant
    Requests = {r1, r2, r3, r4}
    Workloads <- ThreeSnapshots
    Files = {f1, f2, f3}
    FirstFiles <- ThreeFiles
    Contents = {c1, c2, c3}
    SummaryOf <- ThreeSummaries
    MaxLimit = 2
    MaxIncidents = 0
SPECIFICATION Spec
INVARIANTS
    SummaryDescribesDocument
CHECK_DEADLOCK FALSE
