----------------------------- MODULE MCPipeline -----------------------------
(* Two submissions: of one trace or of two, with or without test cases.    *)
EXTENDS Pipeline, TLC

CONSTANTS a1, a2, t1, tc

OneTrace == a1 :> t1 @@ a2 :> t1

SecondWithTestcase == a1 :> NoTestcase @@ a2 :> tc
=============================================================================
