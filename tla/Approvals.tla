----------------------------- MODULE Approvals -----------------------------
(***************************************************************************)
(* What the approval pause of the A2A transport promises, with no locks,   *)
(* snapshots, keys or tasks: a guarded message runs only after an operator *)
(* approved it, each pause is answered at most once, and a rejected or     *)
(* expired message never runs.                                             *)
(***************************************************************************)
CONSTANT Messages

VARIABLES
    phase,    \* where each message is
    guarded   \* the messages that asked for an action behind an approval

vars == <<phase, guarded>>

Phases == {"new", "submitted", "running", "answer", "pending", "rejected",
           "expired", "refused"}

TypeOK ==
    /\ phase \in [Messages -> Phases]
    /\ guarded \subseteq Messages

Init ==
    /\ phase = [m \in Messages |-> "new"]
    /\ guarded = {}

(* A message arrives; whether it is guarded is known from here on. *)
Submit(m, g) ==
    /\ phase[m] = "new"
    /\ phase' = [phase EXCEPT ![m] = "submitted"]
    /\ guarded' = IF g THEN guarded \cup {m} ELSE guarded

(* An unguarded message runs, now or when it arrives. *)
Start(m) ==
    /\ phase[m] \in {"new", "submitted"}
    /\ m \notin guarded
    /\ phase' = [phase EXCEPT ![m] = "running"]
    /\ UNCHANGED guarded

Refuse(m) ==
    /\ phase[m] \in {"new", "submitted"}
    /\ phase' = [phase EXCEPT ![m] = "refused"]
    /\ UNCHANGED guarded

(* A guarded message waits for an operator. *)
Pause(m) ==
    /\ phase[m] = "submitted"
    /\ m \in guarded
    /\ phase' = [phase EXCEPT ![m] = "pending"]
    /\ UNCHANGED guarded

(* Message a answers the waiting message m: it runs, or it never will. *)
Answer(a, m, verdict) ==
    /\ phase[a] = "submitted"
    /\ phase[m] = "pending"
    /\ phase' = [phase EXCEPT ![a] = "answer", ![m] = verdict]
    /\ UNCHANGED guarded

(* Waiting messages are dropped. *)
Expire(S) ==
    /\ \A m \in S : phase[m] = "pending"
    /\ phase' = [m \in Messages |-> IF m \in S THEN "expired" ELSE phase[m]]
    /\ UNCHANGED guarded

Next ==
    \/ \E m \in Messages : Start(m) \/ Refuse(m) \/ Pause(m)
    \/ \E m \in Messages, g \in BOOLEAN : Submit(m, g)
    \/ \E a, m \in Messages, verdict \in {"running", "rejected"} : Answer(a, m, verdict)
    \/ \E S \in SUBSET Messages : Expire(S)

Spec == Init /\ [][Next]_vars
=============================================================================
