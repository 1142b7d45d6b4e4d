---------------------------- MODULE MCA2AStream ----------------------------
(* Two calls, streaming or direct, on one context or none. *)
EXTENDS A2AStream, TLC

CONSTANTS c1, c2, k1, u1, doc

Symmetry == Permutations(Calls)

Req(role, ctx, text, callback, stream) ==
    [role |-> role, ctx |-> ctx, text |-> text, callback |-> callback,
     taskID |-> NoTask, stream |-> stream]

StreamedRequests ==
    {Req("plain", NoContext, "other", NoCallback, TRUE),
     Req("guard", k1, "trigger", NoCallback, TRUE),
     Req("guard", k1, "approve", u1, FALSE),
     Req("unmounted", k1, "other", NoCallback, TRUE)}

(* A text alone, one artifact listed twice, an error. *)
SomeResults ==
    {[artifacts |-> <<>>, text |-> TRUE, failed |-> FALSE],
     [artifacts |-> <<doc, doc>>, text |-> FALSE, failed |-> FALSE],
     [artifacts |-> <<>>, text |-> TRUE, failed |-> TRUE]}
=============================================================================
