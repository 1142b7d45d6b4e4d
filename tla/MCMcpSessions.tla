---------------------------- MODULE MCMcpSessions ----------------------------
(* Two connections, which may read the same session id, and three posts:   *)
(* a notification, one whose response cannot be encoded and one like any   *)
(* other, over a channel of the smallest capacity.                         *)
EXTENDS McpSessions

CONSTANTS a1, a2, p1, p2, p3, s1, s2
=============================================================================
