----------------------------- MODULE MCA2ATasks -----------------------------
(* Small instances of A2ATasks: the messages each run's clients may send. *)
EXTENDS A2ATasks, TLC

CONSTANTS c1, c2, c3, c4, k1, k2, u1

Symmetry == Permutations(Calls)

Msg(role, ctx, text) ==
    [role |-> role, ctx |-> ctx, text |-> text, callback |-> NoCallback,
     taskID |-> NoTask, stream |-> FALSE]

(* Operators and clients racing for the approval of one context. *)
RaceRequests == {Msg("guard", k1, text) : text \in {"approve", "reject", "trigger"}}

(* The same context also gets other messages, with a callback or without,  *)
(* from the stream endpoint or directly, and messages of a role that needs *)
(* no approval or is not mounted; two pauses may stand under different     *)
(* keys.  A second context starts tasks of its own, and one message names  *)
(* the first task although it is not of its context.                       *)
MixedRequests ==
    {Msg("guard", k1, "approve"), Msg("guard", k1, "other"),
     Msg("guard", NoContext, "trigger"), Msg("unmounted", k1, "other"),
     [Msg("plain", k1, "other") EXCEPT !.stream = TRUE],
     [Msg("guard", k1, "trigger") EXCEPT !.callback = u1],
     [Msg("plain", k1, "other") EXCEPT !.callback = u1],
     Msg("plain", k2, "other"), [Msg("plain", k2, "other") EXCEPT !.taskID = 1]}

(* What one client may send after the other: messages under a context, and *)
(* messages without one, continued by the id of the task they made.        *)
SerialRequests ==
    {Msg("guard", k1, text) : text \in {"approve", "trigger", "other"}}
        \cup {Msg("guard", 1, text) : text \in {"approve", "reject"}}
        \cup {Msg("plain", k1, "other"), Msg("guard", NoContext, "trigger"),
              [Msg("plain", NoContext, "other") EXCEPT !.taskID = 1]}

=============================================================================
