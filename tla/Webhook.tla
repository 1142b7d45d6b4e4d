------------------------------ MODULE Webhook ------------------------------
(***************************************************************************)
(* dispatchWebhook: one goroutine per launched delivery, each posting its  *)
(* task snapshot up to MaxAttempts times, against a network that loses,    *)
(* delays and reorders requests and answers and a receiver that may refuse.*)
(* A2ATasks says when deliveries are launched (its variable hooks).        *)
(***************************************************************************)
EXTENDS Naturals, FiniteSets

CONSTANTS
    Deliveries,  \* the goroutines launched by Send and Cancel
    MaxAttempts  \* the 3 of dispatchWebhook's loop

ASSUME AttemptsAssumption == MaxAttempts \in Nat \ {0}

VARIABLES
    state,    \* where each goroutine is
    attempt,  \* its loop variable
    network,  \* requests on their way: [of, attempt]
    answers,  \* answers on their way back: [of, attempt, ok]
    received  \* requests the receiver has taken, with its verdict

vars == <<state, attempt, network, answers, received>>

States == {"idle", "posting", "waiting", "sleeping", "delivered", "exhausted", "dropped"}
Ended == {"delivered", "exhausted", "dropped"}
Request == [of: Deliveries, attempt: 1..MaxAttempts]
Answer == [of: Deliveries, attempt: 1..MaxAttempts, ok: BOOLEAN]

TypeOK ==
    /\ state \in [Deliveries -> States]
    /\ attempt \in [Deliveries -> 0..MaxAttempts]
    /\ network \subseteq Request
    /\ answers \subseteq Answer
    /\ received \subseteq Answer

Init ==
    /\ state = [d \in Deliveries |-> "idle"]
    /\ attempt = [d \in Deliveries |-> 0]
    /\ network = {}
    /\ answers = {}
    /\ received = {}

(* go dispatchWebhook: the loop begins. *)
Launch(d) ==
    /\ state[d] = "idle"
    /\ state' = [state EXCEPT ![d] = "posting"]
    /\ attempt' = [attempt EXCEPT ![d] = 1]
    /\ UNCHANGED <<network, answers, received>>

(* The task cannot be marshalled, or the URL makes no request. *)
Drop(d) ==
    /\ state[d] = "posting"
    /\ attempt[d] = 1
    /\ state' = [state EXCEPT ![d] = "dropped"]
    /\ UNCHANGED <<attempt, network, answers, received>>

(* client.Do sends the request ... *)
Post(d) ==
    /\ state[d] = "posting"
    /\ state' = [state EXCEPT ![d] = "waiting"]
    /\ network' = network \cup {[of |-> d, attempt |-> attempt[d]]}
    /\ UNCHANGED <<attempt, answers, received>>

(* ... and what a failed attempt leads to: the sleep, or the end. *)
AfterFailure(d) == IF attempt[d] < MaxAttempts THEN "sleeping" ELSE "exhausted"

(* A mutant of Hear: any answer counts as delivered. *)
BadHear(d, ok) ==
    /\ state[d] = "waiting"
    /\ [of |-> d, attempt |-> attempt[d], ok |-> ok] \in answers
    /\ answers' = answers \ {[of |-> d, attempt |-> attempt[d], ok |-> ok]}
    /\ state' = [state EXCEPT ![d] = "delivered"]
    /\ UNCHANGED <<attempt, network, received>>

(* An answer to the request this goroutine waits for. *)
Hear(d, ok) ==
    /\ state[d] = "waiting"
    /\ [of |-> d, attempt |-> attempt[d], ok |-> ok] \in answers
    /\ answers' = answers \ {[of |-> d, attempt |-> attempt[d], ok |-> ok]}
    /\ state' = [state EXCEPT ![d] = IF ok THEN "delivered" ELSE AfterFailure(d)]
    /\ UNCHANGED <<attempt, network, received>>

(* No answer within 5 seconds, or no connection: the request may still be  *)
(* on its way.                                                             *)
GiveUpWaiting(d) ==
    /\ state[d] = "waiting"
    /\ state' = [state EXCEPT ![d] = AfterFailure(d)]
    /\ UNCHANGED <<attempt, network, answers, received>>

(* A mutant of Wake: the retry does not count. *)
BadWake(d) ==
    /\ state[d] = "sleeping"
    /\ state' = [state EXCEPT ![d] = "posting"]
    /\ UNCHANGED <<attempt, network, answers, received>>

Wake(d) ==
    /\ state[d] = "sleeping"
    /\ state' = [state EXCEPT ![d] = "posting"]
    /\ attempt' = [attempt EXCEPT ![d] = attempt[d] + 1]
    /\ UNCHANGED <<network, answers, received>>

(* The receiver takes a request, in any order, and answers it. *)
Receive(r, ok) ==
    /\ r \in network
    /\ network' = network \ {r}
    /\ received' = received \cup {[of |-> r.of, attempt |-> r.attempt, ok |-> ok]}
    /\ answers' = answers \cup {[of |-> r.of, attempt |-> r.attempt, ok |-> ok]}
    /\ UNCHANGED <<state, attempt>>

Lose ==
    \/ \E r \in network : network' = network \ {r} /\ UNCHANGED answers
    \/ \E a \in answers : answers' = answers \ {a} /\ UNCHANGED network

Goroutine(d) ==
    \/ Drop(d)
    \/ Post(d)
    \/ \E ok \in BOOLEAN : Hear(d, ok)
    \/ GiveUpWaiting(d)
    \/ Wake(d)

Next ==
    \/ \E d \in Deliveries : Launch(d) \/ Goroutine(d)
    \/ \E r \in network, ok \in BOOLEAN : Receive(r, ok)
    \/ Lose /\ UNCHANGED <<state, attempt, received>>

Spec == Init /\ [][Next]_vars

(* A request ends by its 5 second timeout at the latest, a sleep ends. *)
FairSpec == Spec /\ \A d \in Deliveries : WF_vars(Goroutine(d))

-----------------------------------------------------------------------------
(* A delivery the code takes for delivered was accepted by the receiver,   *)
(* with a request the goroutine itself had sent last.                      *)
DeliveredWasAccepted ==
    \A d \in Deliveries : state[d] = "delivered" =>
        [of |-> d, attempt |-> attempt[d], ok |-> TRUE] \in received

(* The receiver can tell retries apart: whatever is delayed or repeated,   *)
(* it never sees one delivery number twice, nor one beyond those made.     *)
AttemptsNumbered ==
    /\ \A r \in network : /\ r.attempt <= attempt[r.of]
                          /\ \A a \in received : ~(a.of = r.of /\ a.attempt = r.attempt)
    /\ \A a \in received : a.attempt <= attempt[a.of]

(* Every launched delivery ends. *)
DeliveryEnds ==
    \A d \in Deliveries : state[d] # "idle" ~> state[d] \in Ended
=============================================================================
