---------------------------- MODULE WebhookProofs ----------------------------
(***************************************************************************)
(* The safety of webhook delivery, for any number of deliveries and of     *)
(* attempts.  The invariant adds to it what each goroutine knows when it   *)
(* posts: that its attempt is a new one.                                   *)
(***************************************************************************)
EXTENDS Webhook, TLAPS

(* No request of d's present attempt is on its way or was received. *)
Fresh(d) == \A r \in network \cup received : ~(r.of = d /\ r.attempt = attempt[d])

Numbered ==
    /\ \A d \in Deliveries : state[d] = "idle" => attempt[d] = 0
    /\ \A d \in Deliveries : state[d] = "posting" => attempt[d] > 0 /\ Fresh(d)
    /\ \A d \in Deliveries : state[d] = "sleeping" => attempt[d] < MaxAttempts

DeliveryInv ==
    /\ TypeOK
    /\ Numbered
    /\ AttemptsNumbered
    /\ answers \subseteq received
    /\ DeliveredWasAccepted

LEMMA DeliveryInit == Init => DeliveryInv
  BY AttemptsAssumption
     DEF Init, DeliveryInv, TypeOK, Numbered, AttemptsNumbered, DeliveredWasAccepted, States

(* One step per action; Launch and Wake begin an attempt, Post sends it. *)
LEMMA DeliveryNext == DeliveryInv /\ [Next]_vars => DeliveryInv'
<1>. SUFFICES ASSUME DeliveryInv, [Next]_vars PROVE DeliveryInv'
  OBVIOUS
<1>. USE AttemptsAssumption
<1>0. TypeOK /\ Numbered /\ AttemptsNumbered /\ answers \subseteq received /\ DeliveredWasAccepted
  BY DEF DeliveryInv
<1>1. ASSUME NEW d \in Deliveries, Launch(d) PROVE DeliveryInv'
  <2>1. attempt[d] = 0 /\ attempt'[d] = 1 /\ state'[d] = "posting"
        /\ \A e \in Deliveries \ {d} : attempt'[e] = attempt[e] /\ state'[e] = state[e]
    BY <1>0, <1>1 DEF Launch, TypeOK, Numbered
  <2>2. \A r \in network \cup received : r.of \in Deliveries /\ r.attempt \in 1..MaxAttempts
    BY <1>0 DEF TypeOK, Request, Answer
  <2>3. \A r \in network \cup received : r.of # d
    BY <1>0, <2>1, <2>2 DEF AttemptsNumbered
  <2>4. TypeOK'
    BY <1>0, <1>1 DEF Launch, TypeOK, States
  <2>5. Numbered'
    BY <1>0, <1>1, <2>1, <2>3 DEF Numbered, Fresh, Launch
  <2>6. AttemptsNumbered'
    BY <1>0, <1>1, <2>1, <2>2, <2>3 DEF AttemptsNumbered, Launch
  <2>7. DeliveredWasAccepted'
    BY <1>0, <1>1, <2>1 DEF DeliveredWasAccepted, Launch
  <2>. QED
    BY <1>0, <1>1, <2>4, <2>5, <2>6, <2>7 DEF DeliveryInv, Launch
<1>2. ASSUME NEW d \in Deliveries, Drop(d) PROVE DeliveryInv'
  BY <1>0, <1>2
     DEF Drop, DeliveryInv, TypeOK, Numbered, Fresh, AttemptsNumbered, DeliveredWasAccepted, States
<1>3. ASSUME NEW d \in Deliveries, Post(d) PROVE DeliveryInv'
  <2>. DEFINE new == [of |-> d, attempt |-> attempt[d]]
  <2>1. attempt[d] > 0 /\ Fresh(d)
    BY <1>0, <1>3 DEF Post, Numbered
  <2>2. new \in Request
    BY <1>0, <2>1 DEF TypeOK, Request
  <2>3. TypeOK'
    BY <1>0, <1>3, <2>2 DEF Post, TypeOK, States
  <2>4. Numbered'
    BY <1>0, <1>3 DEF Post, Numbered, Fresh, TypeOK
  <2>5. AttemptsNumbered'
    BY <1>0, <1>3, <2>1 DEF Post, AttemptsNumbered, Fresh, TypeOK
  <2>6. DeliveredWasAccepted'
    BY <1>0, <1>3 DEF Post, DeliveredWasAccepted, TypeOK
  <2>. QED
    BY <1>0, <1>3, <2>3, <2>4, <2>5, <2>6 DEF DeliveryInv, Post
<1>4. ASSUME NEW d \in Deliveries, NEW ok \in BOOLEAN, Hear(d, ok) PROVE DeliveryInv'
  BY <1>0, <1>4 DEF Hear, AfterFailure, DeliveryInv, TypeOK, Numbered, Fresh, AttemptsNumbered,
                    DeliveredWasAccepted, States
<1>5. ASSUME NEW d \in Deliveries, GiveUpWaiting(d) PROVE DeliveryInv'
  BY <1>0, <1>5 DEF GiveUpWaiting, AfterFailure, DeliveryInv, TypeOK, Numbered, Fresh,
                    AttemptsNumbered, DeliveredWasAccepted, States
<1>6. ASSUME NEW d \in Deliveries, Wake(d) PROVE DeliveryInv'
  <2>1. attempt[d] < MaxAttempts /\ attempt[d] \in Nat
        /\ attempt'[d] = attempt[d] + 1 /\ state'[d] = "posting"
        /\ \A e \in Deliveries \ {d} : attempt'[e] = attempt[e] /\ state'[e] = state[e]
    BY <1>0, <1>6 DEF Wake, TypeOK, Numbered
  <2>2. \A r \in network \cup received :
           r.of \in Deliveries /\ r.attempt \in Nat /\ r.attempt <= attempt[r.of]
    BY <1>0 DEF TypeOK, Request, Answer, AttemptsNumbered
  <2>3. TypeOK'
    BY <1>0, <1>6, <2>1 DEF Wake, TypeOK, States
  <2>4. Numbered'
    BY <1>0, <1>6, <2>1, <2>2 DEF Wake, Numbered, Fresh
  <2>5. \A e \in Deliveries : attempt[e] \in Nat /\ attempt[e] <= attempt'[e]
    BY <1>0, <1>6, <2>1 DEF TypeOK
  <2>6. AttemptsNumbered'
    BY <1>0, <1>6, <2>2, <2>3, <2>5 DEF Wake, AttemptsNumbered, TypeOK
  <2>7. DeliveredWasAccepted'
    BY <1>0, <1>6, <2>1 DEF Wake, DeliveredWasAccepted
  <2>. QED
    BY <1>0, <1>6, <2>3, <2>4, <2>6, <2>7 DEF DeliveryInv, Wake
<1>7. ASSUME NEW r \in network, NEW ok \in BOOLEAN, Receive(r, ok) PROVE DeliveryInv'
  <2>. DEFINE new == [of |-> r.of, attempt |-> r.attempt, ok |-> ok]
  <2>1. r \in Request /\ new \in Answer
    BY <1>0 DEF TypeOK, Request, Answer
  <2>2. TypeOK'
    BY <1>0, <1>7, <2>1 DEF Receive, TypeOK
  <2>3. Numbered'
    BY <1>0, <1>7 DEF Receive, Numbered, Fresh
  <2>4. \A s \in network' : s \in network /\ s # r /\ s \in Request
    BY <1>0, <1>7 DEF Receive, TypeOK
  <2>5. \A s \in network' : ~(s.of = r.of /\ s.attempt = r.attempt)
    BY <2>1, <2>4 DEF Request
  <2>6. AttemptsNumbered'
    BY <1>0, <1>7, <2>4, <2>5 DEF Receive, AttemptsNumbered
  <2>7. DeliveredWasAccepted'
    BY <1>0, <1>7 DEF Receive, DeliveredWasAccepted
  <2>. QED
    BY <1>0, <1>7, <2>2, <2>3, <2>6, <2>7 DEF DeliveryInv, Receive
<1>8. ASSUME Lose, UNCHANGED <<state, attempt, received>> PROVE DeliveryInv'
  BY <1>0, <1>8
     DEF Lose, DeliveryInv, TypeOK, Numbered, Fresh, AttemptsNumbered, DeliveredWasAccepted
<1>9. CASE UNCHANGED vars
  BY <1>0, <1>9
     DEF vars, DeliveryInv, TypeOK, Numbered, Fresh, AttemptsNumbered, DeliveredWasAccepted
<1>. QED
  BY <1>1, <1>2, <1>3, <1>4, <1>5, <1>6, <1>7, <1>8, <1>9 DEF Next, Goroutine

LEMMA DeliveryInvariant == Spec => []DeliveryInv
  BY DeliveryInit, DeliveryNext, PTL DEF Spec

(* Of any number of deliveries, each counts its attempts within the loop's *)
(* bound, and what is on its way or received belongs to one of them.       *)
THEOREM DeliveriesTyped == Spec => []TypeOK
<1>1. DeliveryInv => TypeOK
  BY DEF DeliveryInv
<1>. QED
  BY <1>1, DeliveryInvariant, PTL

(* A delivery dispatchWebhook takes for delivered was accepted, with the   *)
(* request of its last attempt, whatever was lost, delayed or repeated.    *)
THEOREM DeliveredAreAccepted == Spec => []DeliveredWasAccepted
<1>1. DeliveryInv => DeliveredWasAccepted
  BY DEF DeliveryInv
<1>. QED
  BY <1>1, DeliveryInvariant, PTL

(* No receiver sees one X-A2a-Delivery-Attempt of a delivery twice.        *)
THEOREM AttemptsAreNumbered == Spec => []AttemptsNumbered
<1>1. DeliveryInv => AttemptsNumbered
  BY DEF DeliveryInv
<1>. QED
  BY <1>1, DeliveryInvariant, PTL

-----------------------------------------------------------------------------
(* The posts, waits and sleeps a goroutine may still make. *)
StepsLeft ==
    [d \in Deliveries |->
        CASE state[d] = "idle"     -> 3 * MaxAttempts + 1
          [] state[d] = "posting"  -> 3 * (MaxAttempts - attempt[d]) + 3
          [] state[d] = "waiting"  -> 3 * (MaxAttempts - attempt[d]) + 2
          [] state[d] = "sleeping" -> 3 * (MaxAttempts - attempt[d]) + 1
          [] OTHER -> 0]

LEMMA StepsLeftOf ==
    ASSUME TypeOK, NEW d \in Deliveries
    PROVE  /\ state[d] = "idle" => StepsLeft[d] = 3 * MaxAttempts + 1
           /\ state[d] = "posting" => StepsLeft[d] = 3 * (MaxAttempts - attempt[d]) + 3
           /\ state[d] = "waiting" => StepsLeft[d] = 3 * (MaxAttempts - attempt[d]) + 2
           /\ state[d] = "sleeping" => StepsLeft[d] = 3 * (MaxAttempts - attempt[d]) + 1
           /\ state[d] \in Ended => StepsLeft[d] = 0
           /\ StepsLeft[d] \in Nat
           /\ StepsLeft[d] = 0 => state[d] \in Ended
<1>1. state[d] \in States /\ attempt[d] \in 0..MaxAttempts /\ MaxAttempts \in Nat
  BY AttemptsAssumption DEF TypeOK
<1>. QED
  BY <1>1 DEF StepsLeft, States, Ended

(* Every delivery runs out: whatever the network does meanwhile, a step of *)
(* a goroutine brings it nearer to its end, and nothing else moves it.     *)
RunsOut ==
    \A d \in Deliveries : \/ UNCHANGED <<state[d], attempt[d]>> /\ StepsLeft[d]' = StepsLeft[d]
                          \/ StepsLeft[d]' < StepsLeft[d]

LEMMA RunsOutStep == DeliveryInv /\ DeliveryInv' /\ [Next]_vars => RunsOut
<1>. SUFFICES ASSUME DeliveryInv, DeliveryInv', [Next]_vars, NEW d \in Deliveries
              PROVE  \/ UNCHANGED <<state[d], attempt[d]>> /\ StepsLeft[d]' = StepsLeft[d]
                     \/ StepsLeft[d]' < StepsLeft[d]
  BY DEF RunsOut
<1>1. /\ TypeOK /\ Numbered /\ TypeOK' /\ MaxAttempts \in Nat \ {0}
      /\ state \in [Deliveries -> States] /\ attempt[d] \in 0..MaxAttempts
      /\ attempt \in [Deliveries -> 0..MaxAttempts]
  BY AttemptsAssumption DEF DeliveryInv, TypeOK
<1>2. /\ state[d] = "idle" => StepsLeft[d] = 3 * MaxAttempts + 1
      /\ state[d] = "posting" => StepsLeft[d] = 3 * (MaxAttempts - attempt[d]) + 3
      /\ state[d] = "waiting" => StepsLeft[d] = 3 * (MaxAttempts - attempt[d]) + 2
      /\ state[d] = "sleeping" => StepsLeft[d] = 3 * (MaxAttempts - attempt[d]) + 1
  BY <1>1, StepsLeftOf
<1>3. /\ state'[d] = "posting" => StepsLeft'[d] = 3 * (MaxAttempts - attempt'[d]) + 3
      /\ state'[d] = "waiting" => StepsLeft'[d] = 3 * (MaxAttempts - attempt'[d]) + 2
      /\ state'[d] = "sleeping" => StepsLeft'[d] = 3 * (MaxAttempts - attempt'[d]) + 1
      /\ state'[d] \in Ended => StepsLeft'[d] = 0
  BY DEF StepsLeft, Ended
<1>4. CASE UNCHANGED <<state[d], attempt[d]>>
  BY <1>4 DEF StepsLeft
<1>5. CASE Launch(d)
  <2>1. state[d] = "idle" /\ state'[d] = "posting" /\ attempt'[d] = 1
    BY <1>1, <1>5 DEF Launch
  <2>. QED
    BY <1>1, <1>2, <1>3, <2>1
<1>6. CASE Drop(d)
  <2>1. state[d] = "posting" /\ state'[d] \in Ended
    BY <1>1, <1>6 DEF Drop, Ended
  <2>. QED
    BY <1>1, <1>2, <1>3, <2>1
<1>7. CASE Post(d)
  <2>1. state[d] = "posting" /\ state'[d] = "waiting" /\ attempt'[d] = attempt[d]
    BY <1>1, <1>7 DEF Post
  <2>. QED
    BY <1>1, <1>2, <1>3, <2>1
<1>8. CASE (\E ok \in BOOLEAN : Hear(d, ok)) \/ GiveUpWaiting(d)
  <2>1. /\ state[d] = "waiting" /\ attempt'[d] = attempt[d]
        /\ state'[d] = "sleeping" \/ state'[d] \in Ended
    BY <1>1, <1>8 DEF Hear, GiveUpWaiting, AfterFailure, Ended
  <2>. QED
    BY <1>1, <1>2, <1>3, <2>1
<1>9. CASE Wake(d)
  <2>1. state[d] = "sleeping" /\ state'[d] = "posting" /\ attempt'[d] = attempt[d] + 1
    BY <1>1, <1>9 DEF Wake
  <2>. QED
    BY <1>1, <1>2, <1>3, <2>1
<1>10. ASSUME NEW e \in Deliveries \ {d}, Launch(e) \/ Goroutine(e)
       PROVE  UNCHANGED <<state[d], attempt[d]>>
  BY <1>1, <1>10 DEF Launch, Goroutine, Drop, Post, Hear, GiveUpWaiting, Wake
<1>11. ASSUME UNCHANGED <<state, attempt>> PROVE UNCHANGED <<state[d], attempt[d]>>
  BY <1>11
<1>12. UNCHANGED <<state, attempt>> \/ \E e \in Deliveries : Launch(e) \/ Goroutine(e)
  BY DEF Next, Receive, vars
<1>. QED
  BY <1>4, <1>5, <1>6, <1>7, <1>8, <1>9, <1>10, <1>11, <1>12 DEF Goroutine

(* A delivery takes at most three steps for each of its attempts, and ends *)
(* when none is left, however the network behaves: what DeliveryEnds asks  *)
(* of fairness is only that the goroutine is run.                          *)
THEOREM DeliveriesRunOut ==
    Spec => [](\A d \in Deliveries : StepsLeft[d] \in Nat /\ (StepsLeft[d] = 0 <=> state[d] \in Ended))
            /\ [][RunsOut]_vars
<1>1. DeliveryInv =>
         \A d \in Deliveries : StepsLeft[d] \in Nat /\ (StepsLeft[d] = 0 <=> state[d] \in Ended)
  BY StepsLeftOf DEF DeliveryInv
<1>2. DeliveryInv /\ DeliveryInv' /\ [Next]_vars => [RunsOut]_vars
  BY RunsOutStep
<1>. QED
  BY <1>1, <1>2, DeliveryInvariant, PTL DEF Spec
=============================================================================
