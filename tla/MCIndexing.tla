----------------------------- MODULE MCIndexing -----------------------------
(* Traces of up to four events, small ones and one that fills a chunk; in  *)
(* order, in reverse, or with equal sequence numbers; one whose chunks     *)
(* overlap by two events; and two inputs that the chunker or the use case  *)
(* refuses.                                                                *)
EXTENDS Indexing

CONSTANTS trace, other_testcase

Tiny == <<3>>
Small == <<2, 0, 3>>    \* with one separator, 8 characters
Medium == <<11>>
Large == <<30>>

Event(i, seq, parts) ==
    [id |-> i, seq |-> seq, time |-> 0, parts |-> parts, owner |-> trace,
     result |-> IF parts = Small THEN "timeout" ELSE "observed",
     severity |-> IF parts = Large THEN "high" ELSE "info",
     retry |-> parts = Medium, name |-> "event", cause |-> NoValue, tags |-> {NoValue}]

Ordered(f) == [i \in DOMAIN f |-> Event(i, i, f[i])]
Reversed(f) == [i \in DOMAIN f |-> Event(i, Len(f) - i, f[i])]
Simultaneous(f) == [i \in DOMAIN f |-> Event(Len(f) - i, 1, f[i])]

Texts ==
    {<<>>, <<Large>>, <<Medium, Small>>, <<Small, Large, Small>>, <<Small, Small, Medium, Small>>,
     <<Medium, Tiny, Tiny, Small>>}

First == Event(1, 1, Small)

Traces ==
    {Ordered(f) : f \in Texts}
    \cup {Reversed(<<Small, Large, Medium>>), Simultaneous(<<Small, Medium, Small>>)}
    \cup {<<First, [First EXCEPT !.seq = 2]>>, <<[First EXCEPT !.owner = other_testcase]>>}

TwoModels == <<"model-1", "model-2">>
=============================================================================
