----------------------------- MODULE MCRequests -----------------------------
(* Requests that meet: over a trace, over a listing, over the content of a *)
(* file, over the snapshot of a trace.                                     *)
EXTENDS Requests, TLC

CONSTANTS r1, r2, r3, r4, f1, f2, f3, c1, c2, c3

None == [kind |-> "none"]
Create(trace) == [kind |-> "create", valid |-> TRUE, tenant |-> "a", trace |-> trace]
Blank == [kind |-> "create", valid |-> FALSE, tenant |-> "a", trace |-> ""]
List(tenant, limit) == [kind |-> "list", valid |-> TRUE, tenant |-> tenant, limit |-> limit]
Get(r) == [kind |-> "get", valid |-> TRUE, id |-> r]
Submit(tenant, f) ==
    [kind |-> "submit", valid |-> TRUE, tenant |-> tenant, trace |-> "x", file |-> f]
Process(f) == [kind |-> "process", valid |-> TRUE, tenant |-> "a", trace |-> "x", file |-> f]

Four(a, b, c, d) == r1 :> a @@ r2 :> b @@ r3 :> c @@ r4 :> d

AllWorkloads ==
    {Four(Create("x"), Create("x"), Get(r1), None),
     Four(Create("x"), Create("y"), Create("z"), List("a", 1)),
     Four(Create("x"), Blank, List(AnyTenant, 0), List(AnyTenant, 2)),
     Four(Submit("a", f1), Submit("a", f1), Submit("a", f2), None),
     Four(Submit("a", f1), Submit("b", f1), Process(f1), None),
     Four(Process(f1), Process(f2), Process(f1), None)}

TwoFiles == {f1 :> c1 @@ f2 :> c2}

Summary == c1 :> "complete" @@ c2 :> "incomplete"

(* Three artifacts of one trace.                                           *)
ThreeSnapshots == {Four(Process(f1), Process(f2), Process(f3), None)}

ThreeFiles == {f1 :> c1 @@ f2 :> c2 @@ f3 :> c3}

ThreeSummaries == c1 :> "complete" @@ c2 :> "incomplete" @@ c3 :> "complete"
=============================================================================
