----------------------------- MODULE MCMcpStdio -----------------------------
(* Two actions for one tool, another tool, an action without a name, a     *)
(* resource of the host in the place of a document, and a prompt.  One of  *)
(* the two has a schema that cannot be encoded, the other is not executed. *)
EXTENDS McpStdio

CONSTANTS x, y, w, unnamed

Named == [a \in Actions |-> CASE a = x -> "x" [] a = y -> "y" [] a = w -> "w" [] OTHER -> NoName]
Bound == [a \in Actions |-> CASE a \in {y, unnamed} -> "x" [] OTHER -> NoName]
MountedBatches == {<<x>>, <<w, unnamed, x, y>>}
HostsOwn == {[uri |-> <<"docs", "w">>, readable |-> FALSE]}
Prompts == {[name |-> "p", builds |-> TRUE]}

To(method, key) == [method |-> method, key |-> key]
ClientRequests == {To("tools/list", NoName), To("tools/call", "x")}
=============================================================================
