--------------------------- MODULE A2ATasksProofs ---------------------------
(***************************************************************************)
(* Machine-checked theorems about A2ATasks, for any number of calls,       *)
(* contexts, roles and messages, any TTL and any bounds.                   *)
(***************************************************************************)
EXTENDS A2ATasks, TLAPS, SequenceTheorems, FiniteSetTheorems

-----------------------------------------------------------------------------
(* Lemmas about the operators the model is built from. *)

(* Trim keeps a suffix of at most n elements and never loses the last one. *)
LEMMA TrimProperties ==
    ASSUME NEW S, NEW s \in Seq(S), NEW n \in Nat
    PROVE  /\ Trim(s, n) \in Seq(S)
           /\ Len(Trim(s, n)) <= n
           /\ Len(Trim(s, n)) = (IF Len(s) > n THEN n ELSE Len(s))
           /\ \A i \in 1..Len(Trim(s, n)) :
                 Trim(s, n)[i] = s[i + Len(s) - Len(Trim(s, n))]
<1>1. CASE Len(s) > n
  <2>. DEFINE m == Len(s) - n + 1
  <2>1. m \in 1..Len(s)+1 /\ Len(s) \in Nat
    BY <1>1
  <2>2. Trim(s, n) = SubSeq(s, m, Len(s))
    BY <1>1 DEF Trim
  <2>. QED
    BY <1>1, <2>1, <2>2
<1>2. CASE ~(Len(s) > n)
  BY <1>2 DEF Trim
<1>. QED
  BY <1>1, <1>2

LEMMA AppendTrim ==
    ASSUME NEW S, NEW s \in Seq(S), NEW x \in S, NEW n \in Nat \ {0}
    PROVE  /\ Trim(Append(s, x), n) \in Seq(S)
           /\ Len(Trim(Append(s, x), n)) \in 1..n
           /\ Trim(Append(s, x), n)[Len(Trim(Append(s, x), n))] = x
<1>. DEFINE t == Append(s, x)
            u == Trim(t, n)
<1>1. t \in Seq(S) /\ Len(t) = Len(s) + 1 /\ Len(s) \in Nat /\ t[Len(t)] = x
  OBVIOUS
<1>. HIDE DEF t
<1>2. /\ u \in Seq(S)
      /\ Len(u) = (IF Len(t) > n THEN n ELSE Len(t))
      /\ \A i \in 1..Len(u) : u[i] = t[i + Len(t) - Len(u)]
  <2>1. n \in Nat
    OBVIOUS
  <2>. QED
    BY <1>1, <2>1, TrimProperties
<1>. HIDE DEF u
<1>4. Len(u) \in 1..n
  BY <1>1, <1>2
<1>5. Len(u) \in 1..Len(u) /\ Len(u) + Len(t) - Len(u) = Len(t)
  BY <1>1, <1>4
<1>3. u[Len(u)] = t[Len(t)]
  BY <1>2, <1>5
<1>. QED
  BY <1>1, <1>2, <1>3, <1>4 DEF t, u

(* Put and Without on the maps of the store. *)
LEMMA MapProperties ==
    ASSUME NEW f, NEW k, NEW v, NEW S
    PROVE  /\ DOMAIN Put(f, k, v) = DOMAIN f \cup {k}
           /\ \A x \in DOMAIN f \cup {k} : Put(f, k, v)[x] = IF x = k THEN v ELSE f[x]
           /\ DOMAIN Without(f, S) = DOMAIN f \ S
           /\ \A x \in DOMAIN f \ S : Without(f, S)[x] = f[x]
BY DEF Put, Without

(* A map from K to V keeps that type through Put and Without. *)
MapOf(f, K, V) == DOMAIN f \subseteq K /\ \A x \in DOMAIN f : f[x] \in V

LEMMA MapTypes ==
    ASSUME NEW f, NEW K, NEW V, MapOf(f, K, V)
    PROVE  /\ \A k \in K, v \in V : MapOf(Put(f, k, v), K, V)
           /\ \A S : MapOf(Without(f, S), K, V)
<1>1. ASSUME NEW k \in K, NEW v \in V PROVE MapOf(Put(f, k, v), K, V)
  BY DEF MapOf, Put, Without
<1>2. ASSUME NEW S PROVE MapOf(Without(f, S), K, V)
  BY DEF MapOf, Put, Without
<1>. QED
  BY <1>1, <1>2

-----------------------------------------------------------------------------
(* Type correctness.  LocalOK is what makes it inductive: a call that will *)
(* record a task has named it and has begun its transitions.               *)
LocalOK ==
    \A c \in Calls : pc[c] \in {"hitl", "executing", "recording", "recorded"} =>
        loc[c].id # NoTask /\ Len(loc[c].transitions) > 0

TypeInv == TypeOK /\ LocalOK

LEMMA ExistingType ==
    ASSUME TypeOK, NEW ctx
    PROVE  Existing(ctx) # NoTask =>
              /\ Existing(ctx) \in DOMAIN tasks
              /\ Existing(ctx) \in TaskIds
              /\ tasks[Existing(ctx)] \in Task
BY DEF Existing, TypeOK, TaskIds, NoTask

LEMMA SnapshotType ==
    ASSUME TypeOK, NEW c \in Calls, NEW m \in Message
    PROVE  /\ Snapshot(c, m) \in Local
           /\ Snapshot(c, m).id # NoTask
           /\ Len(Snapshot(c, m).transitions) > 0
<1>. DEFINE t == Existing(m.ctx)
            new == CASE t # NoTask -> t
                     [] t = NoTask /\ NamedID(c, m) # NoTask -> NamedID(c, m)
                     [] OTHER -> NextId
<1>0. NamedID(c, m) \in Nat
  BY DEF NamedID, TypeOK, Message
<1>1. new \in Nat /\ new # NoTask
  BY <1>0, ExistingType DEF TypeOK, TaskIds, NoTask, NextId
<1>2. CASE t = NoTask
  <2>1. <<c>> \in Seq(Calls) /\ <<Step(NoStatus, "working")>> \in Seq(Transition)
        /\ Len(<<Step(NoStatus, "working")>>) > 0
    BY DEF Step, Transition, NoStatus, Statuses
  <2>2. Snapshot(c, m) = [id |-> new, seen |-> NoStatus, history |-> <<c>>,
                          transitions |-> <<Step(NoStatus, "working")>>,
                          lastActivity |-> now, callback |-> m.callback]
    BY <1>2 DEF Snapshot
  <2>3. now \in Nat /\ m.callback \in Callbacks \cup {NoCallback}
    BY DEF TypeOK, Message
  <2>. QED
    BY <1>1, <2>1, <2>2, <2>3 DEF Local
<1>3. CASE t # NoTask
  <2>. DEFINE old == tasks[t]
              h == Trim(Append(old.history, c), MaxHistory)
              s == Append(old.transitions, Step(old.status, "working"))
              cb == IF m.callback = NoCallback THEN old.callback ELSE m.callback
  <2>1. old \in Task
    BY <1>3, ExistingType
  <2>2. old.history \in Seq(Calls) /\ old.transitions \in Seq(Transition)
        /\ old.status \in Statuses /\ old.callback \in Callbacks \cup {NoCallback}
    BY <2>1 DEF Task
  <2>3. Step(old.status, "working") \in Transition
    BY <2>2 DEF Step, Transition, Statuses
  <2>4. s \in Seq(Transition) /\ Len(s) > 0
    BY <2>2, <2>3
  <2>5. h \in Seq(Calls)
    BY <2>2, AppendTrim, BoundsAssumption
  <2>6. now \in Nat /\ cb \in Callbacks \cup {NoCallback}
    BY <2>2 DEF TypeOK, Message
  <2>7. Snapshot(c, m) = [id |-> new, seen |-> old.status, history |-> h,
                          transitions |-> s, lastActivity |-> now, callback |-> cb]
    BY <1>3 DEF Snapshot
  <2>. HIDE DEF h, s, cb, new, old
  <2>. QED
    BY <1>1, <2>2, <2>4, <2>5, <2>6, <2>7 DEF Local
<1>. QED
  BY <1>2, <1>3

LEMMA HitlTaskType ==
    ASSUME TypeOK, NEW c \in Calls, NEW from \in Statuses, NEW to \in Statuses
    PROVE  HitlTask(c, from, to) \in Task
<1>1. loc[c] \in Local /\ req[c] \in Message /\ now \in Nat
  BY DEF TypeOK
<1>2. Step(from, to) \in Transition
  BY DEF Step, Transition
<1>3. loc[c].history \in Seq(Calls) /\ loc[c].transitions \in Seq(Transition)
      /\ loc[c].callback \in Callbacks \cup {NoCallback}
  BY <1>1 DEF Local
<1>4. Append(loc[c].history, c) \in Seq(Calls)
  BY <1>3
<1>5. Trim(Append(loc[c].transitions, Step(from, to)), MaxTransitions) \in Seq(Transition)
  BY <1>2, <1>3, AppendTrim, BoundsAssumption
<1>6. req[c].ctx \in Keys \cup {NoContext}
  BY <1>1 DEF Message
<1>. QED
  BY <1>1, <1>3, <1>4, <1>5, <1>6 DEF HitlTask, Task

LEMMA EffectiveType ==
    ASSUME TypeOK, NEW c \in Calls
    PROVE  Effective(c) \in Calls
BY DEF TypeOK, Effective

LEMMA FinalTaskType ==
    ASSUME TypeInv, NEW c \in Calls, pc[c] \in {"recording", "recorded"}
    PROVE  FinalTask(c) \in Task
<1>1. loc[c] \in Local /\ req[Effective(c)] \in Message
  BY EffectiveType DEF TypeInv, TypeOK
<1>2. loc[c].history \in Seq(Calls) /\ loc[c].transitions \in Seq(Transition)
      /\ loc[c].callback \in Callbacks \cup {NoCallback} /\ loc[c].lastActivity \in Nat
  BY <1>1 DEF Local
<1>3. Len(loc[c].transitions) \in Nat /\ Len(loc[c].transitions) > 0
  BY <1>2 DEF TypeInv, LocalOK
<1>4. loc[c].transitions[Len(loc[c].transitions)] \in Transition
  BY <1>2, <1>3
<1>5. loc[c].transitions[Len(loc[c].transitions)].to \in Statuses
  BY <1>4 DEF Transition
<1>6. req[Effective(c)].ctx \in Keys \cup {NoContext}
  BY <1>1 DEF Message
<1>. QED
  BY <1>2, <1>5, <1>6 DEF FinalTask, Task

(* Recording a task keeps the two maps of the store well typed. *)
LEMMA RecordTaskType ==
    ASSUME TypeOK, NEW id \in TaskIds, NEW task \in Task, RecordTask(id, task)
    PROVE  MapOf(tasks', TaskIds, Task) /\ MapOf(tasksByContext', Keys, TaskIds)
<1>1. MapOf(tasks, TaskIds, Task) /\ MapOf(tasksByContext, Keys, TaskIds)
  BY DEF TypeOK, MapOf
<1>2. MapOf(tasks', TaskIds, Task)
  BY <1>1, MapTypes DEF RecordTask
<1>3. CASE task.ctx = NoContext
  BY <1>1, <1>2, <1>3 DEF RecordTask
<1>4. CASE task.ctx # NoContext
  <2>1. task.ctx \in Keys
    BY <1>4 DEF Task
  <2>. QED
    BY <1>1, <1>2, <1>4, <2>1, MapTypes DEF RecordTask
<1>. QED
  BY <1>3, <1>4

LEMMA MapsTyped ==
    ASSUME TypeOK
    PROVE  /\ MapOf(tasks, TaskIds, Task)
           /\ MapOf(tasksByContext, Keys, TaskIds)
           /\ MapOf(pendingApprovals, Keys, [msg : Calls, createdAt : Nat])
BY DEF TypeOK, MapOf

LEMMA ReturnType ==
    ASSUME TypeOK, LocalOK, NEW c \in Calls,
           NEW phase \in {"finished", "paused", "rejected", "refused"}, Return(c, phase)
    PROVE  /\ pc' \in [Calls -> Phases]
           /\ loc' \in [Calls -> Local]
           /\ LocalOK'
<1>1. loc[c].id \in Nat /\ loc[c].seen \in Statuses \cup {NoStatus}
  BY DEF TypeOK, Local
<1>2. <<>> \in Seq(Calls) /\ <<>> \in Seq(Transition)
  OBVIOUS
<1>3. [NoLocal EXCEPT !.id = loc[c].id, !.seen = loc[c].seen] \in Local
  BY <1>1, <1>2 DEF Local, NoLocal
<1>. QED
  BY <1>3 DEF Return, TypeOK, LocalOK, Phases

LEMMA ApprovalKeyType ==
    ASSUME TypeInv, NEW c \in Calls, pc[c] = "hitl"
    PROVE  ApprovalKey(c) \in Keys
BY DEF TypeInv, TypeOK, LocalOK, ApprovalKey, Message, Local, Keys, TaskIds, NoTask

LEMMA TypeInit == Init => TypeInv
<1>1. <<>> \in Seq(Calls) /\ <<>> \in Seq(Transition)
  OBVIOUS
<1>2. NoLocal \in Local
  BY <1>1 DEF NoLocal, Local, NoTask
<1>3. NoMessage \in Message
  BY DEF NoMessage, Message, Texts, NoTask
<1>4. DOMAIN <<>> = {}
  OBVIOUS
<1>. QED
  BY <1>2, <1>3, <1>4 DEF Init, TypeInv, TypeOK, LocalOK, Phases, NoTask

(* One step per action. *)
LEMMA TypeNext == TypeInv /\ [Next]_vars => TypeInv'
<1>. SUFFICES ASSUME TypeInv, [Next]_vars PROVE TypeInv'
  OBVIOUS
<1>. USE DEF TypeInv
<1>1. ASSUME NEW c \in Calls, NEW m \in Requests, OpenStream(c, m) PROVE TypeInv'
  <2>1. m \in Message
    BY RequestsAssumption
  <2>2. StreamTask(m.ctx) \in Nat
    BY DEF StreamTask, TypeOK, TaskIds, NoTask
  <2>3. preID' \in [Calls -> Nat] /\ taskSeq' \in Nat
    BY <1>1, <2>2 DEF OpenStream, NextId, TypeOK
  <2>. QED
    BY <1>1, <2>1, <2>3 DEF OpenStream, TypeOK, LocalOK, Phases
<1>2. ASSUME NEW c \in Calls, NEW m \in Requests, RefuseRole(c, m) PROVE TypeInv'
  BY <1>2, RequestsAssumption DEF RefuseRole, shared, TypeOK, LocalOK, Phases
<1>3. ASSUME NEW c \in Calls, NEW m \in Requests, Prepare(c, m) PROVE TypeInv'
  <2>1. m \in Message
    BY RequestsAssumption
  <2>. DEFINE l == Snapshot(c, m)
  <2>2. l \in Local /\ l.id # NoTask /\ Len(l.transitions) > 0
    BY <2>1, SnapshotType
  <2>3. loc' = [loc EXCEPT ![c] = l]
    BY <1>3 DEF Prepare
  <2>. HIDE DEF l
  <2>. QED
    BY <1>3, <2>1, <2>2, <2>3 DEF Prepare, NextId, TypeOK, LocalOK, Phases
<1>4. ASSUME NEW c \in Calls, Approve(c) PROVE TypeInv'
  <2>1. pendingApprovals[ApprovalKey(c)].msg \in Calls
    BY <1>4 DEF Approve, IsPending, TypeOK
  <2>2. took' \in [Calls -> Calls \cup {NoCall}]
    BY <1>4, <2>1 DEF Approve, TypeOK
  <2>3. MapOf(pendingApprovals', Keys, [msg : Calls, createdAt : Nat])
    BY <1>4, MapsTyped, MapTypes DEF Approve
  <2>. QED
    BY <1>4, <2>2, <2>3 DEF Approve, TypeOK, LocalOK, Phases, MapOf
<1>5. ASSUME NEW c \in Calls, Reject(c) PROVE TypeInv'
  <2>1. pendingApprovals[ApprovalKey(c)].msg \in Calls
    BY <1>5 DEF Reject, IsPending, TypeOK
  <2>2. took' \in [Calls -> Calls \cup {NoCall}]
    BY <1>5, <2>1 DEF Reject, TypeOK
  <2>3. MapOf(pendingApprovals', Keys, [msg : Calls, createdAt : Nat])
    BY <1>5, MapsTyped, MapTypes DEF Reject
  <2>4. HitlTask(c, "input-required", "rejected") \in Task
    BY HitlTaskType DEF Statuses
  <2>5. loc[c].id \in TaskIds
    BY <1>5 DEF Reject, TypeOK, LocalOK, Local, TaskIds, NoTask
  <2>6. MapOf(tasks', TaskIds, Task) /\ MapOf(tasksByContext', Keys, TaskIds)
    BY <1>5, <2>4, <2>5, RecordTaskType DEF Reject
  <2>7. pc' \in [Calls -> Phases] /\ loc' \in [Calls -> Local] /\ LocalOK'
    BY <1>5, ReturnType DEF Reject, Phases
  <2>. QED
    BY <1>5, <2>2, <2>3, <2>6, <2>7 DEF Reject, TypeOK, MapOf
<1>6. ASSUME NEW c \in Calls, RefuseUndecided(c) \/ RefuseAnswer(c) \/ RefuseExpired(c)
      PROVE TypeInv'
  <2>1. Return(c, "refused") /\ UNCHANGED <<shared, req, preID, took>>
    BY <1>6 DEF RefuseUndecided, RefuseAnswer, RefuseExpired
  <2>2. pc' \in [Calls -> Phases] /\ loc' \in [Calls -> Local] /\ LocalOK'
    BY <2>1, ReturnType DEF Phases
  <2>. QED
    BY <2>1, <2>2 DEF shared, TypeOK
<1>7. ASSUME NEW c \in Calls, Pause(c) PROVE TypeInv'
  <2>1. ApprovalKey(c) \in Keys
    BY <1>7, ApprovalKeyType DEF Pause
  <2>2. MapOf(pendingApprovals', Keys, [msg : Calls, createdAt : Nat])
    <3>1. [msg |-> c, createdAt |-> now] \in [msg : Calls, createdAt : Nat]
      BY DEF TypeOK
    <3>. QED
      BY <1>7, <2>1, <3>1, MapsTyped, MapTypes DEF Pause
  <2>3. HitlTask(c, "working", "input-required") \in Task
    BY HitlTaskType DEF Statuses
  <2>4. loc[c].id \in TaskIds
    BY <1>7 DEF Pause, TypeOK, LocalOK, Local, TaskIds, NoTask
  <2>5. MapOf(tasks', TaskIds, Task) /\ MapOf(tasksByContext', Keys, TaskIds)
    BY <1>7, <2>3, <2>4, RecordTaskType DEF Pause
  <2>6. pc' \in [Calls -> Phases] /\ loc' \in [Calls -> Local] /\ LocalOK'
    BY <1>7, ReturnType DEF Pause, Phases
  <2>. QED
    BY <1>7, <2>2, <2>5, <2>6 DEF Pause, TypeOK, MapOf
<1>8. ASSUME NEW c \in Calls, Proceed(c) PROVE TypeInv'
  BY <1>8 DEF Proceed, shared, TypeOK, LocalOK, Phases
<1>9. ASSUME NEW c \in Calls, NEW final \in Outcomes, Execute(c, final) PROVE TypeInv'
  <2>. DEFINE s == Trim(Append(loc[c].transitions, Step("working", final)), MaxTransitions)
  <2>1. loc[c] \in Local /\ now \in Nat
    BY DEF TypeOK
  <2>2. Step("working", final) \in Transition /\ loc[c].transitions \in Seq(Transition)
    BY <2>1, OutcomesAssumption DEF Step, Transition, Statuses, Local
  <2>3. s \in Seq(Transition) /\ Len(s) > 0
    <3>1. s \in Seq(Transition) /\ Len(s) \in 1..MaxTransitions
      BY <2>2, AppendTrim, BoundsAssumption
    <3>. HIDE DEF s
    <3>. QED
      BY <3>1
  <2>4. loc' = [loc EXCEPT ![c] = [loc[c] EXCEPT !.transitions = s, !.lastActivity = now]]
    BY <1>9, <2>1 DEF Execute, TypeOK
  <2>. HIDE DEF s
  <2>5. [loc[c] EXCEPT !.transitions = s, !.lastActivity = now] \in Local
    BY <2>1, <2>3 DEF Local
  <2>6. loc' \in [Calls -> Local]
    BY <2>4, <2>5 DEF TypeOK
  <2>7. LocalOK'
    <3>1. pc[c] = "executing" /\ pc' = [pc EXCEPT ![c] = "recording"]
      BY <1>9 DEF Execute
    <3>2. loc[c].id # NoTask
      BY <3>1 DEF LocalOK
    <3>3. loc'[c] = [loc[c] EXCEPT !.transitions = s, !.lastActivity = now]
      BY <2>4 DEF TypeOK
    <3>4. loc'[c].id = loc[c].id /\ loc'[c].transitions = s
      BY <2>1, <3>3 DEF Local
    <3>5. \A d \in Calls \ {c} : loc'[d] = loc[d] /\ pc'[d] = pc[d]
      BY <2>4, <3>1 DEF TypeOK
    <3>. QED
      BY <2>3, <3>2, <3>4, <3>5 DEF LocalOK
  <2>. QED
    BY <1>9, <2>6, <2>7 DEF Execute, shared, TypeOK, Phases
<1>10. ASSUME NEW c \in Calls, Record(c) PROVE TypeInv'
  <2>1. FinalTask(c) \in Task
    BY <1>10, FinalTaskType DEF Record
  <2>2. loc[c].id \in TaskIds /\ loc[c].callback \in Callbacks \cup {NoCallback}
    BY <1>10 DEF Record, TypeOK, LocalOK, Local, TaskIds, NoTask
  <2>3. MapOf(tasks', TaskIds, Task) /\ MapOf(tasksByContext', Keys, TaskIds)
    BY <1>10, <2>1, <2>2, RecordTaskType DEF Record
  <2>4. ASSUME Return(c, "finished")
        PROVE  pc' \in [Calls -> Phases] /\ loc' \in [Calls -> Local] /\ LocalOK'
    BY <2>4, ReturnType
  <2>5. ASSUME pc' = [pc EXCEPT ![c] = "recorded"], loc' = loc
        PROVE  pc' \in [Calls -> Phases] /\ loc' \in [Calls -> Local] /\ LocalOK'
    BY <1>10, <2>5 DEF Record, TypeOK, Phases, LocalOK
  <2>6. pc' \in [Calls -> Phases] /\ loc' \in [Calls -> Local] /\ LocalOK'
    BY <1>10, <2>4, <2>5 DEF Record
  <2>. QED
    BY <1>10, <2>3, <2>6 DEF Record, TypeOK, MapOf
<1>15. ASSUME NEW c \in Calls, Announce(c) PROVE TypeInv'
  <2>1. FinalTask(c).status \in Statuses
    BY <1>15, FinalTaskType DEF Announce, Task
  <2>2. loc[c].id \in TaskIds /\ loc[c].callback \in Callbacks \cup {NoCallback}
    BY <1>15 DEF Announce, TypeOK, LocalOK, Local, TaskIds, NoTask
  <2>3. hooks' \subseteq [url : Callbacks, id : TaskIds, status : Statuses]
    BY <1>15, <2>1, <2>2 DEF Announce, Launch, TypeOK
  <2>4. pc' \in [Calls -> Phases] /\ loc' \in [Calls -> Local] /\ LocalOK'
    BY <1>15, ReturnType DEF Announce
  <2>. QED
    BY <1>15, <2>3, <2>4 DEF Announce, TypeOK
<1>11. ASSUME NEW id \in DOMAIN tasks, Cancel(id) PROVE TypeInv'
  <2>. DEFINE s == Trim(Append(tasks[id].transitions, Step(tasks[id].status, "canceled")),
                        MaxTransitions)
              new == [tasks[id] EXCEPT !.transitions = s, !.lastActivity = now,
                                       !.status = "canceled"]
  <2>1. tasks[id] \in Task /\ now \in Nat /\ id \in TaskIds
    BY DEF TypeOK
  <2>2. tasks[id].transitions \in Seq(Transition) /\ tasks[id].status \in Statuses
        /\ tasks[id].callback \in Callbacks \cup {NoCallback}
    BY <2>1 DEF Task
  <2>3. Step(tasks[id].status, "canceled") \in Transition
    BY <2>2 DEF Step, Transition, Statuses
  <2>4. s \in Seq(Transition)
    BY <2>2, <2>3, AppendTrim, BoundsAssumption
  <2>5. tasks' = [tasks EXCEPT ![id] = new]
    BY <1>11, <2>1 DEF Cancel
  <2>. HIDE DEF s
  <2>6. new \in Task
    BY <2>1, <2>4 DEF Task, Statuses
  <2>. HIDE DEF new
  <2>7. MapOf(tasks', TaskIds, Task)
    BY <2>5, <2>6 DEF TypeOK, MapOf
  <2>8. hooks' \subseteq [url : Callbacks, id : TaskIds, status : Statuses]
    BY <1>11, <2>1, <2>2 DEF Cancel, Launch, TypeOK, Statuses
  <2>. QED
    BY <1>11, <2>7, <2>8 DEF Cancel, TypeOK, LocalOK, MapOf
<1>12. ASSUME NEW tick \in Times, tick <= now, Sweep(tick) PROVE TypeInv'
  <2>1. MapOf(tasks', TaskIds, Task) /\ MapOf(tasksByContext', Keys, TaskIds)
        /\ MapOf(pendingApprovals', Keys, [msg : Calls, createdAt : Nat])
    BY <1>12, MapsTyped, MapTypes DEF Sweep
  <2>. QED
    BY <1>12, <2>1 DEF Sweep, TypeOK, LocalOK, MapOf
<1>13. CASE Tick
  BY <1>13, BoundsAssumption DEF Tick, TypeOK, LocalOK
<1>14. CASE UNCHANGED vars
  BY <1>14 DEF vars, TypeOK, LocalOK
<1>. QED
  BY <1>1, <1>2, <1>3, <1>4, <1>5, <1>6, <1>7, <1>8, <1>9, <1>10, <1>11, <1>12, <1>13, <1>14, <1>15
     DEF Next, Send, Hitl

(* Every reachable state of the store is well typed, for every number of   *)
(* calls, contexts and roles and every interleaving of the operations.     *)
THEOREM TypeCorrect == Spec => []TypeOK
<1>1. Spec => []TypeInv
  BY TypeInit, TypeNext, PTL DEF Spec
<1>2. TypeInv => TypeOK
  BY DEF TypeInv
<1>. QED
  BY <1>1, <1>2, PTL

-----------------------------------------------------------------------------
(* What a step leaves alone of a call: its message once it has one, its    *)
(* task id while Send runs, all of it once Send has returned.  A call that *)
(* has written the store for the last time is done with it.                *)
Done == {"recorded", "finished", "paused", "rejected", "refused"}
InSend == {"hitl", "executing", "recording"}

CallGoesOn(c) ==
    /\ pc[c] # "idle" => pc'[c] # "idle" /\ req'[c] = req[c] /\ preID'[c] = preID[c]
    /\ pc[c] \in InSend =>
          pc'[c] \in InSend \cup Done /\ loc'[c].id = loc[c].id
    /\ pc[c] \in Done =>
          pc'[c] \in Done /\ loc'[c].id = loc[c].id /\ took'[c] = took[c]
    /\ pc[c] = "recorded" => pc'[c] \in {"recorded", "finished"}
    /\ pc[c] \in Done \ {"recorded"} => pc'[c] = pc[c] /\ loc'[c] = loc[c]

LEMMA CallFrame == TypeInv /\ [Next]_vars => \A c \in Calls : CallGoesOn(c)
<1>. SUFFICES ASSUME TypeInv, [Next]_vars, NEW x \in Calls PROVE CallGoesOn(x)
  OBVIOUS
<1>. USE DEF CallGoesOn, Done, InSend
<1>0. /\ pc \in [Calls -> Phases] /\ req \in [Calls -> Message] /\ loc \in [Calls -> Local]
      /\ preID \in [Calls -> Nat] /\ took \in [Calls -> Calls \cup {NoCall}]
  BY DEF TypeInv, TypeOK
<1>1. ASSUME NEW c \in Calls, NEW m \in Requests, OpenStream(c, m) PROVE CallGoesOn(x)
  BY <1>0, <1>1 DEF OpenStream
<1>2. ASSUME NEW c \in Calls, NEW m \in Requests, RefuseRole(c, m) \/ Prepare(c, m)
      PROVE CallGoesOn(x)
  BY <1>0, <1>2 DEF RefuseRole, Prepare, Starts, shared
<1>3. ASSUME NEW c \in Calls, Approve(c) \/ Proceed(c) PROVE CallGoesOn(x)
  BY <1>0, <1>3 DEF Approve, Proceed, shared
<1>4. ASSUME NEW c \in Calls, NEW phase \in Done, pc[c] \in InSend \cup {"recorded"},
             Return(c, phase), pc[c] = "recorded" => phase = "finished" /\ took' = took,
             UNCHANGED <<req, preID>>, took' = took \/ took' = [took EXCEPT ![c] = took'[c]]
      PROVE CallGoesOn(x)
  <2>1. loc'[c].id = loc[c].id
    BY <1>0, <1>4 DEF Return, NoLocal
  <2>. QED
    BY <1>0, <1>4, <2>1 DEF Return
<1>5. ASSUME NEW c \in Calls, Reject(c) PROVE CallGoesOn(x)
  BY <1>0, <1>4, <1>5 DEF Reject
<1>6. ASSUME NEW c \in Calls, RefuseUndecided(c) \/ RefuseAnswer(c) \/ RefuseExpired(c)
      PROVE CallGoesOn(x)
  BY <1>4, <1>6 DEF RefuseUndecided, RefuseAnswer, RefuseExpired
<1>7. ASSUME NEW c \in Calls, Pause(c) \/ Announce(c) PROVE CallGoesOn(x)
  BY <1>4, <1>7 DEF Pause, Announce
<1>10. ASSUME NEW c \in Calls, Record(c) PROVE CallGoesOn(x)
  <2>1. CASE Return(c, "finished")
    BY <1>4, <1>10, <2>1 DEF Record
  <2>2. CASE pc' = [pc EXCEPT ![c] = "recorded"] /\ loc' = loc
    BY <1>0, <1>10, <2>2 DEF Record
  <2>. QED
    BY <1>10, <2>1, <2>2 DEF Record
<1>8. ASSUME NEW c \in Calls, NEW final \in Outcomes, Execute(c, final) PROVE CallGoesOn(x)
  <2>1. /\ pc[c] = "executing" /\ pc' = [pc EXCEPT ![c] = "recording"]
        /\ UNCHANGED <<req, preID, took>>
    BY <1>8 DEF Execute
  <2>2. loc'[c].id = loc[c].id /\ \A y \in Calls \ {c} : loc'[y] = loc[y]
    BY <1>0, <1>8 DEF Execute, Local
  <2>. QED
    BY <1>0, <2>1, <2>2
<1>9. CASE (\E id \in DOMAIN tasks : Cancel(id)) \/ (\E tick \in Times : Sweep(tick))
           \/ Tick \/ UNCHANGED vars
  BY <1>9 DEF Cancel, Sweep, Tick, vars
<1>. QED
  BY <1>1, <1>2, <1>3, <1>5, <1>6, <1>7, <1>8, <1>9, <1>10 DEF Next, Send, Hitl

-----------------------------------------------------------------------------
(* The approval table.  A message in the table, or taken out of it, is one *)
(* whose Send has returned "paused"; it stands under one key or was taken  *)
(* by one call, never both.  That is inductive; ResolvedOnce and           *)
(* OnlyApprovedRun follow.                                                 *)
ApprovalInv ==
    /\ \A k \in DOMAIN pendingApprovals :
          /\ pc[pendingApprovals[k].msg] = "paused"
          /\ \A j \in DOMAIN pendingApprovals :
                pendingApprovals[j].msg = pendingApprovals[k].msg => j = k
    /\ \A c \in Calls : took[c] # NoCall =>
          /\ pc[took[c]] = "paused"
          /\ pc[c] \in Ran \cup {"rejected"}
          /\ pc[c] \in Ran => req[c].text = "approve"
    /\ ResolvedOnce
    /\ \A c \in Calls : pc[c] \in Ran /\ took[c] = NoCall => ~Guarded(c)
    /\ \A c \in Calls : pc[c] \in {"paused", "hitl"} => req[c].role \in HitlRoles
    /\ \A c \in Calls : pc[c] = "paused" => req[c].text = "trigger"
    /\ \A c \in Calls : pc[c] = "rejected" => took[c] # NoCall

(* Nothing is pending and nothing is taken before the first message. *)
LEMMA ApprovalInit == Init => ApprovalInv
<1>1. DOMAIN <<>> = {}
  OBVIOUS
<1>. QED
  BY <1>1 DEF Init, ApprovalInv, ResolvedOnce, Ran

LEMMA ApprovalNext == TypeInv /\ ApprovalInv /\ [Next]_vars => ApprovalInv'
<1>. SUFFICES ASSUME TypeInv, ApprovalInv, [Next]_vars PROVE ApprovalInv'
  OBVIOUS
<1>. USE DEF ApprovalInv, ResolvedOnce, Ran, Guarded
<1>0. /\ pc \in [Calls -> Phases] /\ req \in [Calls -> Message] /\ loc \in [Calls -> Local]
      /\ took \in [Calls -> Calls \cup {NoCall}]
      /\ \A k \in DOMAIN pendingApprovals : pendingApprovals[k].msg \in Calls
  BY DEF TypeInv, TypeOK
<1>1. ASSUME NEW c \in Calls, NEW m \in Requests, OpenStream(c, m) PROVE ApprovalInv'
  BY <1>0, <1>1 DEF OpenStream
<1>2. ASSUME NEW c \in Calls, NEW m \in Requests, RefuseRole(c, m) PROVE ApprovalInv'
  BY <1>0, <1>2 DEF RefuseRole, Starts, shared
<1>3. ASSUME NEW c \in Calls, NEW m \in Requests, Prepare(c, m) PROVE ApprovalInv'
  BY <1>0, <1>3, SentinelAssumption DEF Prepare, Starts
<1>4. ASSUME NEW c \in Calls, Approve(c) PROVE ApprovalInv'
  BY <1>0, <1>4, SentinelAssumption DEF Approve, IsPending, Without
<1>5. ASSUME NEW c \in Calls, Reject(c) PROVE ApprovalInv'
  BY <1>0, <1>5, SentinelAssumption DEF Reject, IsPending, Without, Return
<1>6. ASSUME NEW c \in Calls, RefuseUndecided(c) \/ RefuseAnswer(c) \/ RefuseExpired(c)
      PROVE ApprovalInv'
  BY <1>0, <1>6 DEF RefuseUndecided, RefuseAnswer, RefuseExpired, Return, shared
<1>7. ASSUME NEW c \in Calls, Pause(c) PROVE ApprovalInv'
  BY <1>0, <1>7 DEF Pause, IsPending, Put, Return
<1>8. ASSUME NEW c \in Calls, Proceed(c) PROVE ApprovalInv'
  BY <1>0, <1>8 DEF Proceed, shared
<1>9. ASSUME NEW c \in Calls, NEW final \in Outcomes, Execute(c, final) PROVE ApprovalInv'
  BY <1>0, <1>9 DEF Execute, shared
<1>10. ASSUME NEW c \in Calls, Record(c) \/ Announce(c) PROVE ApprovalInv'
  <2>1. PICK phase \in {"recorded", "finished"} : pc' = [pc EXCEPT ![c] = phase]
    BY <1>10 DEF Record, Announce, Return
  <2>2. /\ pc[c] \in {"recording", "recorded"} /\ UNCHANGED <<pendingApprovals, req, took>>
    BY <1>10 DEF Record, Announce
  <2>. QED
    BY <1>0, <2>1, <2>2
<1>11. ASSUME NEW id \in DOMAIN tasks, Cancel(id) PROVE ApprovalInv'
  BY <1>11 DEF Cancel
<1>12. ASSUME NEW tick \in Times, tick <= now, Sweep(tick) PROVE ApprovalInv'
  BY <1>12 DEF Sweep, Without
<1>13. CASE Tick
  BY <1>13 DEF Tick
<1>14. CASE UNCHANGED vars
  BY <1>14 DEF vars
<1>. QED
  BY <1>1, <1>2, <1>3, <1>4, <1>5, <1>6, <1>7, <1>8, <1>9, <1>10, <1>11, <1>12, <1>13, <1>14
     DEF Next, Send, Hitl

LEMMA Invariants == Spec => [](TypeInv /\ ApprovalInv)
<1>1. Init => TypeInv /\ ApprovalInv
  BY TypeInit, ApprovalInit
<1>2. TypeInv /\ ApprovalInv /\ [Next]_vars => (TypeInv /\ ApprovalInv)'
  BY TypeNext, ApprovalNext
<1>. QED
  BY <1>1, <1>2, PTL DEF Spec

(* However approvals, rejections, new pauses and the cleanup loop race, no *)
(* pause is answered twice.                                                *)
THEOREM PausesResolvedOnce == Spec => []ResolvedOnce
<1>1. ApprovalInv => ResolvedOnce
  BY DEF ApprovalInv
<1>. QED
  BY <1>1, Invariants, PTL

(* No trigger message of a guarded role is executed without an approval.   *)
THEOREM GuardedRunsAreApproved == Spec => []OnlyApprovedRun
<1>1. TypeInv /\ ApprovalInv => OnlyApprovedRun
  BY DEF ApprovalInv, OnlyApprovedRun, Guarded, TypeInv, TypeOK
<1>. QED
  BY <1>1, Invariants, PTL

-----------------------------------------------------------------------------
(* The records.  What a call carries from its snapshot is itself a story   *)
(* that stands at "working", and its history is trimmed: every record put  *)
(* together from it is bounded and ends at the task's status.              *)
Story(s, status) == Len(s) > 0 /\ s[Len(s)].to = status /\ Linked(s)

RecordOK(task) ==
    /\ Len(task.transitions) <= MaxTransitions
    /\ Len(task.history) <= MaxHistory + 1
    /\ Story(task.transitions, task.status)

LocalStory(c) ==
    /\ Len(loc[c].history) <= MaxHistory
    /\ pc[c] \in {"hitl", "executing"} => Story(loc[c].transitions, "working")
    /\ pc[c] = "recording" =>
          /\ Len(loc[c].transitions) \in 1..MaxTransitions
          /\ Linked(loc[c].transitions)

RecordInv ==
    /\ \A id \in DOMAIN tasks : RecordOK(tasks[id])
    /\ \A c \in Calls : LocalStory(c)

(* One more transition, from where the story stands (or the rejection of a *)
(* pause), keeps it a story; trimming it does too.                         *)
LEMMA StoryExtends ==
    ASSUME NEW s \in Seq(Transition), NEW at \in Statuses, Story(s, at),
           NEW from \in Statuses, NEW to \in Statuses,
           from = at \/ (at = "working" /\ from = "input-required" /\ to = "rejected")
    PROVE  /\ Story(Append(s, Step(from, to)), to)
           /\ Story(Trim(Append(s, Step(from, to)), MaxTransitions), to)
           /\ Len(Trim(Append(s, Step(from, to)), MaxTransitions)) <= MaxTransitions
<1>. DEFINE t == Append(s, Step(from, to))
            u == Trim(t, MaxTransitions)
<1>1. Step(from, to) \in Transition
  BY DEF Step, Transition
<1>2. /\ t \in Seq(Transition) /\ Len(t) = Len(s) + 1 /\ Len(s) \in Nat \ {0}
      /\ \A i \in 1..Len(s) : t[i] = s[i]
      /\ t[Len(t)] = Step(from, to)
  BY <1>1 DEF Story
<1>3. /\ Len(u) \in 1..MaxTransitions
      /\ u[Len(u)] = Step(from, to)
  <2>. DEFINE x == Step(from, to)
  <2>1. x \in Transition /\ MaxTransitions \in Nat \ {0}
    BY <1>1, BoundsAssumption
  <2>. HIDE DEF x
  <2>2. /\ Len(Trim(Append(s, x), MaxTransitions)) \in 1..MaxTransitions
        /\ Trim(Append(s, x), MaxTransitions)[Len(Trim(Append(s, x), MaxTransitions))] = x
    BY <2>1, AppendTrim
  <2>. QED
    BY <2>2 DEF x
<1>. HIDE DEF t
<1>4. /\ Len(u) = (IF Len(t) > MaxTransitions THEN MaxTransitions ELSE Len(t))
      /\ \A i \in 1..Len(u) : u[i] = t[i + Len(t) - Len(u)]
  <2>1. MaxTransitions \in Nat
    BY BoundsAssumption
  <2>. QED
    BY <1>2, <2>1, TrimProperties
<1>. HIDE DEF u
<1>5. Linked(t)
  <2>. SUFFICES ASSUME NEW i \in 1..(Len(t) - 1)
                PROVE \/ t[i + 1].from = t[i].to
                      \/ t[i].to = "working" /\ t[i + 1] = Step("input-required", "rejected")
    BY DEF Linked
  <2>1. CASE i < Len(s)
    <3>1. i \in 1..(Len(s) - 1) /\ i \in 1..Len(s) /\ i + 1 \in 1..Len(s)
      BY <1>2, <2>1
    <3>2. t[i] = s[i] /\ t[i + 1] = s[i + 1]
      BY <1>2, <3>1
    <3>. QED
      BY <3>1, <3>2 DEF Story, Linked
  <2>2. CASE i = Len(s)
    <3>1. t[i] = s[Len(s)] /\ t[i + 1] = Step(from, to) /\ s[Len(s)].to = at
      BY <1>2, <2>2 DEF Story
    <3>2. Step(from, to).from = from
      BY DEF Step
    <3>. QED
      BY <3>1, <3>2
  <2>. QED
    BY <1>2, <2>1, <2>2
<1>6. Linked(u)
  <2>. SUFFICES ASSUME NEW i \in 1..(Len(u) - 1)
                PROVE \/ u[i + 1].from = u[i].to
                      \/ u[i].to = "working" /\ u[i + 1] = Step("input-required", "rejected")
    BY DEF Linked
  <2>. DEFINE j == i + Len(t) - Len(u)
  <2>1. j \in 1..(Len(t) - 1) /\ j + 1 = (i + 1) + Len(t) - Len(u)
    BY <1>2, <1>3, <1>4
  <2>2. i \in 1..Len(u) /\ i + 1 \in 1..Len(u)
    BY <1>3
  <2>3. u[i] = t[j] /\ u[i + 1] = t[j + 1]
    BY <1>4, <2>1, <2>2
  <2>. HIDE DEF j
  <2>. QED
    BY <1>5, <2>1, <2>3 DEF Linked
<1>7. Step(from, to).to = to
  BY DEF Step
<1>8. Len(t) > 0 /\ Len(u) > 0 /\ Len(u) <= MaxTransitions
  BY <1>2, <1>3, BoundsAssumption
<1>9. Story(t, to) /\ Story(u, to)
  BY <1>2, <1>3, <1>5, <1>6, <1>7, <1>8 DEF Story
<1>. QED
  BY <1>8, <1>9 DEF t, u

(* The snapshot trims the history and ends its transitions at "working".   *)
LEMMA SnapshotStory ==
    ASSUME TypeOK, RecordInv, NEW c \in Calls, NEW m \in Message
    PROVE  /\ Len(Snapshot(c, m).history) <= MaxHistory
           /\ Story(Snapshot(c, m).transitions, "working")
<1>. DEFINE t == Existing(m.ctx)
<1>1. CASE t = NoTask
  <2>1. /\ Snapshot(c, m).history = <<c>>
        /\ Snapshot(c, m).transitions = <<Step(NoStatus, "working")>>
    BY <1>1 DEF Snapshot
  <2>2. Len(<<c>>) <= MaxHistory
    BY BoundsAssumption
  <2>3. Story(<<Step(NoStatus, "working")>>, "working")
    BY DEF Story, Linked, Step
  <2>. QED
    BY <2>1, <2>2, <2>3
<1>2. CASE t # NoTask
  <2>1. t \in DOMAIN tasks /\ tasks[t] \in Task /\ RecordOK(tasks[t])
    BY <1>2, ExistingType DEF RecordInv
  <2>2. /\ tasks[t].history \in Seq(Calls) /\ tasks[t].transitions \in Seq(Transition)
        /\ tasks[t].status \in Statuses
    BY <2>1 DEF Task
  <2>3. /\ Snapshot(c, m).history = Trim(Append(tasks[t].history, c), MaxHistory)
        /\ Snapshot(c, m).transitions =
              Append(tasks[t].transitions, Step(tasks[t].status, "working"))
    BY <1>2 DEF Snapshot
  <2>4. Len(Trim(Append(tasks[t].history, c), MaxHistory)) \in 1..MaxHistory
    BY <2>2, AppendTrim, BoundsAssumption
  <2>5. Story(Append(tasks[t].transitions, Step(tasks[t].status, "working")), "working")
    BY <2>1, <2>2, StoryExtends DEF RecordOK, Statuses
  <2>. QED
    BY <2>3, <2>4, <2>5, BoundsAssumption
<1>. QED
  BY <1>1, <1>2

(* What applyHITLState records for a pause and for a rejection.            *)
LEMMA HitlRecordOK ==
    ASSUME TypeOK, RecordInv, NEW c \in Calls, pc[c] = "hitl",
           NEW from \in Statuses, NEW to \in Statuses,
           from = "working" \/ (from = "input-required" /\ to = "rejected")
    PROVE  RecordOK(HitlTask(c, from, to))
<1>1. /\ loc[c].history \in Seq(Calls) /\ loc[c].transitions \in Seq(Transition)
      /\ Len(loc[c].history) <= MaxHistory
      /\ Story(loc[c].transitions, "working")
  BY DEF TypeOK, Local, RecordInv, LocalStory
<1>2. Len(Append(loc[c].history, c)) <= MaxHistory + 1
  BY <1>1, BoundsAssumption
<1>3. /\ Story(Trim(Append(loc[c].transitions, Step(from, to)), MaxTransitions), to)
      /\ Len(Trim(Append(loc[c].transitions, Step(from, to)), MaxTransitions)) <= MaxTransitions
  BY <1>1, StoryExtends DEF Statuses
<1>. QED
  BY <1>2, <1>3 DEF HitlTask, RecordOK

(* Recording a sound task, and returning, keep the records.                *)
LEMMA RecordReturns ==
    ASSUME TypeOK, RecordInv, NEW c \in Calls, NEW id, NEW task,
           RecordTask(id, task), RecordOK(task),
           NEW phase \in Phases \ {"hitl", "executing", "recording"},
           \/ Return(c, phase)
           \/ pc' = [pc EXCEPT ![c] = phase] /\ loc' = loc
    PROVE  RecordInv'
<1>1. \A i \in DOMAIN tasks' : RecordOK(tasks[i])'
  <2>1. /\ DOMAIN tasks' = DOMAIN tasks \cup {id}
        /\ \A x \in DOMAIN tasks' : tasks'[x] = IF x = id THEN task ELSE tasks[x]
    BY DEF RecordTask, Put
  <2>. QED
    BY <2>1 DEF RecordInv, RecordOK
<1>2. \A d \in Calls : LocalStory(d)'
  <2>1. /\ loc'[c].history \in {<<>>, loc[c].history} /\ pc'[c] = phase
        /\ \A d \in Calls \ {c} : loc'[d] = loc[d] /\ pc'[d] = pc[d]
    <3>1. CASE Return(c, phase)
      BY <3>1 DEF Return, TypeOK, NoLocal
    <3>2. CASE pc' = [pc EXCEPT ![c] = phase] /\ loc' = loc
      BY <3>2 DEF TypeOK
    <3>. QED
      BY <3>1, <3>2
  <2>2. LocalStory(c)'
    BY <2>1, BoundsAssumption DEF RecordInv, LocalStory
  <2>3. ASSUME NEW d \in Calls \ {c} PROVE LocalStory(d)'
    BY <2>1, <2>3 DEF RecordInv, LocalStory
  <2>. QED
    BY <2>2, <2>3
<1>. QED
  BY <1>1, <1>2 DEF RecordInv

LEMMA RecordInit == Init => RecordInv
<1>1. DOMAIN <<>> = {} /\ Len(<<>>) = 0
  OBVIOUS
<1>. QED
  BY <1>1, BoundsAssumption DEF Init, RecordInv, LocalStory, NoLocal

(* One step per action that records, carries or drops a record.            *)
LEMMA RecordNext == TypeInv /\ RecordInv /\ [Next]_vars => RecordInv'
<1>. SUFFICES ASSUME TypeInv, RecordInv, [Next]_vars PROVE RecordInv'
  OBVIOUS
<1>0. TypeOK /\ pc \in [Calls -> Phases] /\ loc \in [Calls -> Local]
  BY DEF TypeInv, TypeOK
<1>1. ASSUME NEW c \in Calls, NEW m \in Requests, OpenStream(c, m) PROVE RecordInv'
  BY <1>0, <1>1 DEF OpenStream, RecordInv, RecordOK, LocalStory
<1>2. ASSUME NEW c \in Calls, NEW m \in Requests, RefuseRole(c, m) PROVE RecordInv'
  BY <1>0, <1>2 DEF RefuseRole, shared, RecordInv, RecordOK, LocalStory
<1>3. ASSUME NEW c \in Calls, NEW m \in Requests, Prepare(c, m) PROVE RecordInv'
  <2>. DEFINE l == Snapshot(c, m)
  <2>1. /\ Len(l.history) <= MaxHistory
        /\ Story(l.transitions, "working")
    BY <1>0, SnapshotStory, RequestsAssumption
  <2>2. loc' = [loc EXCEPT ![c] = l] /\ tasks' = tasks
    BY <1>3 DEF Prepare
  <2>3. pc'[c] \in {"hitl", "executing"} /\ \A d \in Calls \ {c} : pc'[d] = pc[d]
    BY <1>0, <1>3 DEF Prepare
  <2>. HIDE DEF l
  <2>4. LocalStory(c)'
    BY <1>0, <2>1, <2>2, <2>3 DEF LocalStory
  <2>5. ASSUME NEW d \in Calls \ {c} PROVE LocalStory(d)'
    BY <1>0, <2>2, <2>3, <2>5 DEF RecordInv, LocalStory
  <2>6. \A id \in DOMAIN tasks' : RecordOK(tasks[id])'
    BY <2>2 DEF RecordInv, RecordOK
  <2>. QED
    BY <2>4, <2>5, <2>6 DEF RecordInv
<1>4. ASSUME NEW c \in Calls, Approve(c) \/ Proceed(c) PROVE RecordInv'
  <2>1. /\ pc[c] = "hitl" /\ pc' = [pc EXCEPT ![c] = "executing"]
        /\ loc' = loc /\ tasks' = tasks
    BY <1>4 DEF Approve, Proceed, shared
  <2>. QED
    BY <1>0, <2>1 DEF RecordInv, RecordOK, LocalStory
<1>5. ASSUME NEW c \in Calls, Reject(c) PROVE RecordInv'
  <2>1. RecordOK(HitlTask(c, "input-required", "rejected"))
    BY <1>0, <1>5, HitlRecordOK DEF Reject, Statuses
  <2>. QED
    BY <1>0, <1>5, <2>1, RecordReturns DEF Reject, Phases
<1>6. ASSUME NEW c \in Calls,
             RefuseUndecided(c) \/ RefuseAnswer(c) \/ RefuseExpired(c) \/ Announce(c)
      PROVE RecordInv'
  <2>1. PICK phase \in {"refused", "finished"} : Return(c, phase) /\ tasks' = tasks
    BY <1>6 DEF RefuseUndecided, RefuseAnswer, RefuseExpired, Announce, shared
  <2>2. /\ loc'[c].history = <<>> /\ pc'[c] = phase
        /\ \A d \in Calls \ {c} : loc'[d] = loc[d] /\ pc'[d] = pc[d]
    BY <1>0, <2>1 DEF Return, NoLocal
  <2>3. LocalStory(c)'
    BY <2>2, BoundsAssumption DEF LocalStory
  <2>4. ASSUME NEW d \in Calls \ {c} PROVE LocalStory(d)'
    BY <2>2, <2>4 DEF RecordInv, LocalStory
  <2>5. \A id \in DOMAIN tasks' : RecordOK(tasks[id])'
    BY <2>1 DEF RecordInv, RecordOK
  <2>. QED
    BY <2>3, <2>4, <2>5 DEF RecordInv
<1>7. ASSUME NEW c \in Calls, Pause(c) PROVE RecordInv'
  <2>1. RecordOK(HitlTask(c, "working", "input-required"))
    BY <1>0, <1>7, HitlRecordOK DEF Pause, Statuses
  <2>. QED
    BY <1>0, <1>7, <2>1, RecordReturns DEF Pause, Phases
<1>9. ASSUME NEW c \in Calls, NEW final \in Outcomes, Execute(c, final) PROVE RecordInv'
  <2>. DEFINE s == Trim(Append(loc[c].transitions, Step("working", final)), MaxTransitions)
  <2>1. /\ pc[c] = "executing" /\ pc' = [pc EXCEPT ![c] = "recording"] /\ tasks' = tasks
        /\ loc' = [loc EXCEPT ![c] = [loc[c] EXCEPT !.transitions = s, !.lastActivity = now]]
    BY <1>0, <1>9 DEF Execute, shared
  <2>2. /\ loc[c].transitions \in Seq(Transition) /\ Story(loc[c].transitions, "working")
        /\ Len(loc[c].history) <= MaxHistory
    BY <1>0, <2>1 DEF Local, RecordInv, LocalStory
  <2>3. Story(s, final) /\ Len(s) <= MaxTransitions
    BY <2>2, StoryExtends, OutcomesAssumption DEF Statuses
  <2>4. s \in Seq(Transition)
    <3>1. Step("working", final) \in Transition
      BY OutcomesAssumption DEF Step, Transition, Statuses
    <3>. QED
      BY <2>2, <3>1, AppendTrim, BoundsAssumption
  <2>. HIDE DEF s
  <2>5. Len(s) \in 1..MaxTransitions /\ Linked(s)
    BY <2>3, <2>4, BoundsAssumption DEF Story
  <2>6. /\ loc'[c].transitions = s /\ loc'[c].history = loc[c].history
        /\ pc'[c] = "recording"
        /\ \A d \in Calls \ {c} : loc'[d] = loc[d] /\ pc'[d] = pc[d]
    BY <1>0, <2>1 DEF Local
  <2>7. LocalStory(c)'
    BY <2>2, <2>5, <2>6 DEF LocalStory
  <2>8. ASSUME NEW d \in Calls \ {c} PROVE LocalStory(d)'
    BY <2>6, <2>8 DEF RecordInv, LocalStory
  <2>9. \A id \in DOMAIN tasks' : RecordOK(tasks[id])'
    BY <2>1 DEF RecordInv, RecordOK
  <2>. QED
    BY <2>7, <2>8, <2>9 DEF RecordInv
<1>10. ASSUME NEW c \in Calls, Record(c) PROVE RecordInv'
  <2>1. /\ Len(loc[c].history) <= MaxHistory /\ loc[c].history \in Seq(Calls)
        /\ Len(loc[c].transitions) \in 1..MaxTransitions
        /\ Linked(loc[c].transitions)
    BY <1>0, <1>10 DEF Record, RecordInv, LocalStory, Local
  <2>2. /\ FinalTask(c).transitions = loc[c].transitions
        /\ FinalTask(c).history = loc[c].history
        /\ FinalTask(c).status = loc[c].transitions[Len(loc[c].transitions)].to
    BY DEF FinalTask
  <2>3. Len(loc[c].history) <= MaxHistory + 1
    BY <2>1, BoundsAssumption
  <2>4. RecordOK(FinalTask(c))
    BY <2>1, <2>2, <2>3, BoundsAssumption DEF RecordOK, Story
  <2>5. CASE Return(c, "finished")
    BY <1>0, <1>10, <2>4, <2>5, RecordReturns DEF Record, Phases
  <2>6. CASE pc' = [pc EXCEPT ![c] = "recorded"] /\ loc' = loc
    BY <1>0, <1>10, <2>4, <2>6, RecordReturns DEF Record, Phases
  <2>. QED
    BY <1>10, <2>5, <2>6 DEF Record
<1>11. ASSUME NEW id \in DOMAIN tasks, Cancel(id) PROVE RecordInv'
  <2>. DEFINE s == Trim(Append(tasks[id].transitions, Step(tasks[id].status, "canceled")),
                        MaxTransitions)
  <2>1. tasks[id] \in Task /\ RecordOK(tasks[id])
    BY <1>0 DEF TypeOK, RecordInv
  <2>2. /\ tasks[id].transitions \in Seq(Transition) /\ tasks[id].status \in Statuses
        /\ Story(tasks[id].transitions, tasks[id].status)
        /\ Len(tasks[id].history) <= MaxHistory + 1
    BY <2>1 DEF Task, RecordOK
  <2>3. Story(s, "canceled") /\ Len(s) <= MaxTransitions
    BY <2>2, StoryExtends DEF Statuses
  <2>4. /\ tasks' = [tasks EXCEPT ![id] = [tasks[id] EXCEPT !.transitions = s,
                                             !.lastActivity = now, !.status = "canceled"]]
        /\ pc' = pc /\ loc' = loc
    BY <1>11 DEF Cancel
  <2>. HIDE DEF s
  <2>5. /\ tasks'[id].transitions = s /\ tasks'[id].status = "canceled"
        /\ tasks'[id].history = tasks[id].history
        /\ DOMAIN tasks' = DOMAIN tasks
        /\ \A x \in DOMAIN tasks \ {id} : tasks'[x] = tasks[x]
    BY <2>1, <2>4 DEF Task
  <2>6. RecordOK(tasks[id])'
    BY <2>2, <2>3, <2>5 DEF RecordOK
  <2>7. ASSUME NEW x \in DOMAIN tasks' \ {id} PROVE RecordOK(tasks[x])'
    BY <2>5, <2>7 DEF RecordInv, RecordOK
  <2>8. \A c \in Calls : LocalStory(c)'
    BY <2>4 DEF RecordInv, LocalStory
  <2>. QED
    BY <2>6, <2>7, <2>8 DEF RecordInv
<1>12. ASSUME NEW tick \in Times, tick <= now, Sweep(tick) PROVE RecordInv'
  BY <1>12 DEF Sweep, Without, RecordInv, RecordOK, LocalStory
<1>13. CASE Tick
  BY <1>13 DEF Tick, RecordInv, RecordOK, LocalStory
<1>14. CASE UNCHANGED vars
  BY <1>14 DEF vars, RecordInv, RecordOK, LocalStory
<1>. QED
  BY <1>1, <1>2, <1>3, <1>4, <1>5, <1>6, <1>7, <1>9, <1>10, <1>11, <1>12, <1>13, <1>14
     DEF Next, Send, Hitl

LEMMA RecordsKept == Spec => []RecordInv
<1>1. Init => TypeInv /\ RecordInv
  BY TypeInit, RecordInit
<1>2. TypeInv /\ RecordInv /\ [Next]_vars => (TypeInv /\ RecordInv)'
  BY TypeNext, RecordNext
<1>. QED
  BY <1>1, <1>2, PTL DEF Spec

(* The transitions of every stored task lead to its status, one after the  *)
(* other, although a snapshot, a Send and Cancel each write a part of them. *)
THEOREM TransitionsAreAStory == Spec => []TransitionsTellTheStatus
<1>1. RecordInv => TransitionsTellTheStatus
  BY DEF RecordInv, RecordOK, Story, TransitionsTellTheStatus
<1>. QED
  BY <1>1, RecordsKept, PTL

(* No exchange, however long, makes a record outgrow its bounds.           *)
THEOREM RecordsStayBounded == Spec => []RecordBounded
<1>1. RecordInv => RecordBounded
  BY DEF RecordInv, RecordOK, RecordBounded
<1>. QED
  BY <1>1, RecordsKept, PTL

-----------------------------------------------------------------------------
(* Webhooks: a step that stores an outcome launches its announcement, or   *)
(* leaves a Send about to do so; no other step lets that Send forget it,   *)
(* and no launch is taken back.                                            *)
LEMMA StillToAnnounce ==
    ASSUME TypeInv, [Next]_vars, NEW c \in Calls, pc[c] = "recorded", ~Announce(c)
    PROVE  pc'[c] = "recorded" /\ loc'[c] = loc[c]
<1>0. pc \in [Calls -> Phases] /\ loc \in [Calls -> Local]
  BY DEF TypeInv, TypeOK
<1>1. ASSUME NEW d \in Calls, Send(d) PROVE pc'[c] = "recorded" /\ loc'[c] = loc[c]
  BY <1>0, <1>1 DEF Send, Hitl, OpenStream, RefuseRole, Prepare, Starts, Approve, Reject,
         RefuseUndecided, RefuseAnswer, RefuseExpired, Pause, Proceed, Execute, Record,
         Announce, Return, shared
<1>2. ASSUME ~\E d \in Calls : Send(d) PROVE pc' = pc /\ loc' = loc
  BY <1>2 DEF Next, Cancel, Sweep, Tick, vars
<1>. QED
  BY <1>1, <1>2

(* What was announced, or about to be, is announced or about to be still.  *)
LEMMA AnnouncementsKept ==
    ASSUME TypeInv, [Next]_vars, NEW hook, hook.url # NoCallback,
           hook \in hooks \/ AboutToAnnounce(hook)
    PROVE  hook \in hooks' \/ AboutToAnnounce(hook)'
<1>1. hooks \subseteq hooks'
  BY DEF Next, Send, Hitl, OpenStream, RefuseRole, Prepare, Approve, Reject, RefuseUndecided,
         RefuseAnswer, RefuseExpired, Pause, Proceed, Execute, Record, Announce, Cancel,
         Launch, Sweep, Tick, vars, shared
<1>2. ASSUME NEW c \in Calls, pc[c] = "recorded",
             hook = [url |-> loc[c].callback, id |-> loc[c].id, status |-> FinalTask(c).status]
      PROVE  hook \in hooks' \/ AboutToAnnounce(hook)'
  <2>1. CASE Announce(c)
    BY <1>2, <2>1 DEF Announce, Launch
  <2>2. CASE ~Announce(c)
    <3>1. pc'[c] = "recorded" /\ loc'[c] = loc[c]
      BY <1>2, <2>2, StillToAnnounce
    <3>2. FinalTask(c).status' = FinalTask(c).status
      BY <3>1 DEF FinalTask
    <3>. QED
      BY <1>2, <3>1, <3>2 DEF AboutToAnnounce
  <2>. QED
    BY <2>1, <2>2
<1>. QED
  BY <1>1, <1>2 DEF AboutToAnnounce

LEMMA AnnouncedNext == TypeInv /\ OutcomeAnnounced /\ [Next]_vars => OutcomeAnnounced'
<1>. SUFFICES ASSUME TypeInv, OutcomeAnnounced, [Next]_vars,
                     NEW id \in DOMAIN tasks', tasks'[id].callback # NoCallback,
                     tasks'[id].status \in {"completed", "failed", "canceled"},
                     NEW hook, hook = [url |-> tasks'[id].callback, id |-> id,
                                       status |-> tasks'[id].status]
              PROVE  hook \in hooks' \/ AboutToAnnounce(hook)'
  BY DEF OutcomeAnnounced
<1>1. CASE id \in DOMAIN tasks /\ tasks'[id] = tasks[id]
  <2>1. hook.url # NoCallback /\ (hook \in hooks \/ AboutToAnnounce(hook))
    BY <1>1 DEF OutcomeAnnounced
  <2>. QED
    BY <2>1, AnnouncementsKept
<1>2. ASSUME NEW c \in Calls, Reject(c) \/ Pause(c)
      PROVE  id \in DOMAIN tasks /\ tasks'[id] = tasks[id]
  <2>. DEFINE task == IF req[c].text = "reject"
                      THEN HitlTask(c, "input-required", "rejected")
                      ELSE HitlTask(c, "working", "input-required")
  <2>1. RecordTask(loc[c].id, task)
    BY <1>2 DEF Reject, Pause
  <2>2. task.status \in {"rejected", "input-required"}
    BY DEF HitlTask
  <2>. HIDE DEF task
  <2>. QED
    BY <2>1, <2>2 DEF RecordTask, Put
<1>3. ASSUME NEW c \in Calls, Record(c), ~(id \in DOMAIN tasks /\ tasks'[id] = tasks[id])
      PROVE  AboutToAnnounce(hook)'
  <2>1. id = loc[c].id /\ tasks'[id] = FinalTask(c)
    BY <1>3 DEF Record, RecordTask, Put
  <2>2. FinalTask(c).callback = loc[c].callback
    BY DEF FinalTask
  <2>3. pc' = [pc EXCEPT ![c] = "recorded"] /\ loc' = loc
    BY <1>3, <2>1, <2>2 DEF Record
  <2>4. pc'[c] = "recorded" /\ FinalTask(c).status' = FinalTask(c).status
    BY <2>3 DEF FinalTask, TypeInv, TypeOK
  <2>. QED
    BY <2>1, <2>2, <2>3, <2>4 DEF AboutToAnnounce
<1>4. ASSUME NEW t \in DOMAIN tasks, Cancel(t), ~(id \in DOMAIN tasks /\ tasks'[id] = tasks[id])
      PROVE  hook \in hooks'
  <2>1. tasks[t] \in Task
    BY DEF TypeInv, TypeOK
  <2>2. /\ id = t /\ tasks'[id].callback = tasks[id].callback
        /\ tasks'[id].status = "canceled"
    BY <1>4, <2>1 DEF Cancel, Task
  <2>. QED
    BY <1>4, <2>2 DEF Cancel, Launch
<1>5. ASSUME NEW tick \in Times, Sweep(tick)
      PROVE  id \in DOMAIN tasks /\ tasks'[id] = tasks[id]
  BY <1>5 DEF Sweep, Without
<1>6. \/ \E c \in Calls : Reject(c) \/ Pause(c) \/ Record(c)
      \/ \E t \in DOMAIN tasks : Cancel(t)
      \/ \E tick \in Times : Sweep(tick)
      \/ tasks' = tasks
  BY DEF Next, Send, Hitl, OpenStream, RefuseRole, Prepare, Approve, RefuseUndecided,
         RefuseAnswer, RefuseExpired, Proceed, Execute, Announce, Tick, vars, shared
<1>. QED
  BY <1>1, <1>2, <1>3, <1>4, <1>5, <1>6

(* A stored outcome of a task with a callback has been announced, or the   *)
(* Send that stored it is about to, on every path that stores one and      *)
(* whatever comes between the storing and the announcing.                  *)
THEOREM OutcomesAreAnnounced == Spec => []OutcomeAnnounced
<1>1. Init => OutcomeAnnounced
  <2>1. DOMAIN <<>> = {}
    OBVIOUS
  <2>. QED
    BY <2>1 DEF Init, OutcomeAnnounced
<1>2. TypeInv /\ OutcomeAnnounced /\ [Next]_vars => (TypeInv /\ OutcomeAnnounced)'
  BY TypeNext, AnnouncedNext
<1>. QED
  BY <1>1, <1>2, TypeInit, PTL DEF Spec

-----------------------------------------------------------------------------
(* The refinement.  Where a message stands in the promise depends on what  *)
(* happened to its call and, once that is paused, on the table and on the  *)
(* call that took it; ApprovalInv makes these cases exclude each other.    *)
Waiting(c) == \E k \in DOMAIN pendingApprovals : pendingApprovals[k].msg = c
TakenBy(c, S) == \E d \in Calls : took[d] = c /\ pc[d] \in S

Stands(c) ==
    /\ pc[c] \in {"idle", "opened"} => PhaseOf(c) = "new"
    /\ pc[c] = "hitl" => PhaseOf(c) = "submitted" /\ took[c] = NoCall
    /\ pc[c] = "refused" => PhaseOf(c) = "refused"
    /\ pc[c] \in Ran /\ took[c] = NoCall => PhaseOf(c) = "running"
    /\ pc[c] \in Ran \cup {"rejected"} /\ took[c] # NoCall => PhaseOf(c) = "answer"
    /\ pc[c] = "rejected" => took[c] # NoCall
    /\ pc[c] = "paused" =>
          /\ Waiting(c) => PhaseOf(c) = "pending" /\ \A d \in Calls : took[d] # c
          /\ TakenBy(c, Ran) => PhaseOf(c) = "running"
          /\ TakenBy(c, {"rejected"}) => PhaseOf(c) = "rejected"
          /\ ~Waiting(c) /\ ~TakenBy(c, Ran \cup {"rejected"}) => PhaseOf(c) = "expired"

LEMMA PhaseCases == TypeInv /\ ApprovalInv => \A c \in Calls : Stands(c)
<1>. SUFFICES ASSUME TypeInv, ApprovalInv, NEW c \in Calls PROVE Stands(c)
  OBVIOUS
<1>1. CASE pc[c] \in {"idle", "opened"}
  BY <1>1 DEF Stands, PhaseOf, Ran
<1>2. CASE pc[c] = "hitl"
  BY <1>2 DEF Stands, PhaseOf, Ran, ApprovalInv
<1>3. CASE pc[c] = "refused"
  BY <1>3 DEF Stands, PhaseOf, Ran
<1>4. CASE pc[c] \in Ran
  BY <1>4 DEF Stands, PhaseOf, Ran
<1>5. CASE pc[c] = "rejected"
  BY <1>5 DEF Stands, PhaseOf, Ran, ApprovalInv
<1>6. CASE pc[c] = "paused"
  <2>1. PhaseOf(c) =
          CASE Waiting(c) -> "pending"
            [] TakenBy(c, Ran) -> "running"
            [] TakenBy(c, {"rejected"}) -> "rejected"
            [] OTHER -> "expired"
    BY <1>6 DEF PhaseOf, Ran, Waiting, TakenBy
  <2>2. Waiting(c) => \A d \in Calls : took[d] # c
    BY SentinelAssumption DEF Waiting, ApprovalInv, ResolvedOnce, TypeInv, TypeOK
  <2>3. ~(TakenBy(c, Ran) /\ TakenBy(c, {"rejected"}))
    BY SentinelAssumption DEF TakenBy, ApprovalInv, ResolvedOnce, Ran
  <2>4. TakenBy(c, Ran \cup {"rejected"}) <=> TakenBy(c, Ran) \/ TakenBy(c, {"rejected"})
    BY DEF TakenBy
  <2>5. TakenBy(c, Ran) \/ TakenBy(c, {"rejected"}) => ~Waiting(c)
    BY <2>2 DEF TakenBy
  <2>6. /\ Waiting(c) => PhaseOf(c) = "pending"
        /\ TakenBy(c, Ran) => PhaseOf(c) = "running"
        /\ TakenBy(c, {"rejected"}) => PhaseOf(c) = "rejected"
        /\ ~Waiting(c) /\ ~TakenBy(c, Ran \cup {"rejected"}) => PhaseOf(c) = "expired"
    BY <2>1, <2>3, <2>4, <2>5
  <2>. QED
    BY <1>6, <2>2, <2>6 DEF Stands, Ran
<1>. QED
  BY <1>1, <1>2, <1>3, <1>4, <1>5, <1>6 DEF TypeInv, TypeOK, Phases, Ran

LEMMA PhaseCasesNext == (TypeInv /\ ApprovalInv)' => (\A c \in Calls : Stands(c))'
BY PhaseCases, PTL

(* A message whose call, table entry and taker stay where they are stays   *)
(* where it is; from execution to recording nothing changes either.        *)
Still(c) ==
    /\ took'[c] = took[c]
    /\ pc'[c] = pc[c] \/ (pc[c] \in Ran /\ pc'[c] \in Ran)
    /\ pc[c] = "paused" =>
          /\ Waiting(c)' <=> Waiting(c)
          /\ TakenBy(c, Ran)' <=> TakenBy(c, Ran)
          /\ TakenBy(c, {"rejected"})' <=> TakenBy(c, {"rejected"})

LEMMA StillStands ==
    ASSUME TypeInv, TypeInv', NEW c \in Calls, Stands(c), Stands(c)', Still(c)
    PROVE  PhaseOf(c)' = PhaseOf(c)
<1>1. CASE pc[c] = "paused"
  <2>1. pc'[c] = "paused"
    BY <1>1 DEF Still, Ran
  <2>2. /\ Waiting(c) => PhaseOf(c) = "pending"
        /\ TakenBy(c, Ran) => PhaseOf(c) = "running"
        /\ TakenBy(c, {"rejected"}) => PhaseOf(c) = "rejected"
        /\ ~Waiting(c) /\ ~TakenBy(c, Ran) /\ ~TakenBy(c, {"rejected"})
              => PhaseOf(c) = "expired"
    BY <1>1 DEF Stands, TakenBy
  <2>3. /\ Waiting(c)' => PhaseOf(c)' = "pending"
        /\ TakenBy(c, Ran)' => PhaseOf(c)' = "running"
        /\ TakenBy(c, {"rejected"})' => PhaseOf(c)' = "rejected"
        /\ ~Waiting(c)' /\ ~TakenBy(c, Ran)' /\ ~TakenBy(c, {"rejected"})'
              => PhaseOf(c)' = "expired"
    BY <2>1 DEF Stands, TakenBy
  <2>. QED
    BY <1>1, <2>2, <2>3 DEF Still
<1>2. CASE pc[c] # "paused"
  <2>1. pc[c] \in Phases /\ (pc'[c] = pc[c] \/ (pc[c] \in Ran /\ pc'[c] \in Ran))
    BY DEF TypeInv, TypeOK, Still
  <2>2. took'[c] = took[c]
    BY DEF Still
  <2>. QED
    BY <1>2, <2>1, <2>2 DEF Stands, Phases, Ran
<1>. QED
  BY <1>1, <1>2

(* The promise's variables, as the store has them. *)
AbsPhase == [c \in Calls |-> PhaseOf(c)]
AbsGuarded == {c \in Calls : pc[c] \notin {"idle", "opened"} /\ Guarded(c)}

(* All messages but those of S stay where they are when pc, took and the   *)
(* table change for the calls of S only.                                   *)
LEMMA OthersStay ==
    ASSUME TypeInv, ApprovalInv, TypeInv', ApprovalInv', NEW c \in Calls, NEW m \in Calls,
           \A x \in Calls \ {c} : pc'[x] = pc[x] /\ took'[x] = took[x],
           \A x \in Calls \ {c, m} : Waiting(x)' <=> Waiting(x),
           took'[c] = took[c] \/ (took[c] = NoCall /\ took'[c] = m),
           took[c] # NoCall /\ took'[c] = took[c] => pc[c] \in Ran /\ pc'[c] \in Ran
    PROVE  \A x \in Calls \ {c, m} : PhaseOf(x)' = PhaseOf(x)
<1>. SUFFICES ASSUME NEW x \in Calls \ {c, m} PROVE PhaseOf(x)' = PhaseOf(x)
  OBVIOUS
<1>1. Stands(x) /\ Stands(x)'
  BY PhaseCases, PhaseCasesNext
<1>2. TakenBy(x, Ran)' <=> TakenBy(x, Ran)
  BY SentinelAssumption DEF TakenBy
<1>3. TakenBy(x, {"rejected"})' <=> TakenBy(x, {"rejected"})
  BY SentinelAssumption DEF TakenBy, Ran
<1>4. Still(x)
  BY <1>2, <1>3 DEF Still
<1>. QED
  BY <1>1, <1>4, StillStands

(* A step of a call that moves this message only. *)
LEMMA OneMoves ==
    ASSUME TypeInv, ApprovalInv, TypeInv', ApprovalInv', NEW c \in Calls,
           \A x \in Calls \ {c} : pc'[x] = pc[x],
           took' = took, took[c] = NoCall, pc[c] # "paused",
           \A x \in Calls \ {c} : Waiting(x)' <=> Waiting(x)
    PROVE  AbsPhase' = [AbsPhase EXCEPT ![c] = PhaseOf(c)']
<1>1. \A x \in Calls \ {c} : PhaseOf(x)' = PhaseOf(x)
  BY OthersStay
<1>. QED
  BY <1>1 DEF AbsPhase

(* Every step of the store is a step of the promise, or none.              *)
LEMMA PromiseStep ==
    ASSUME TypeInv, ApprovalInv, TypeInv', ApprovalInv', [Next]_vars
    PROVE  [Promise!Next]_(Promise!vars)
<1>. DEFINE Stutters == AbsPhase' = AbsPhase /\ AbsGuarded' = AbsGuarded
<1>0. /\ pc \in [Calls -> Phases] /\ req \in [Calls -> Message] /\ loc \in [Calls -> Local]
      /\ took \in [Calls -> Calls \cup {NoCall}]
      /\ \A k \in DOMAIN pendingApprovals : pendingApprovals[k].msg \in Calls
      /\ \A x \in Calls : Stands(x)
      /\ (\A x \in Calls : Stands(x))'
  BY PhaseCases, PhaseCasesNext DEF TypeInv, TypeOK
<1>1. Stutters => [Promise!Next]_(Promise!vars)
  BY DEF Promise!vars, AbsPhase, AbsGuarded
<1>2. ASSUME NEW c \in Calls, NEW m \in Requests, OpenStream(c, m) PROVE Stutters
  <2>1. /\ pc[c] = "idle" /\ pc' = [pc EXCEPT ![c] = "opened"]
        /\ took' = took /\ pendingApprovals' = pendingApprovals
        /\ req' = [req EXCEPT ![c] = m]
    BY <1>2 DEF OpenStream
  <2>2. AbsPhase' = [AbsPhase EXCEPT ![c] = PhaseOf(c)']
    BY <1>0, <2>1, OneMoves DEF Waiting, ApprovalInv, Ran
  <2>3. PhaseOf(c)' = "new" /\ PhaseOf(c) = "new"
    BY <1>0, <2>1 DEF Stands
  <2>4. AbsGuarded' = AbsGuarded
    BY <1>0, <2>1 DEF AbsGuarded, Guarded
  <2>. QED
    BY <2>2, <2>3, <2>4 DEF AbsPhase
<1>3. ASSUME NEW c \in Calls, NEW m \in Requests, RefuseRole(c, m)
      PROVE Promise!Refuse(c)
  <2>1. /\ pc[c] \in {"idle", "opened"} /\ pc' = [pc EXCEPT ![c] = "refused"]
        /\ took' = took /\ pendingApprovals' = pendingApprovals
        /\ req' = [req EXCEPT ![c] = m] /\ m.role \notin HitlRoles
    BY <1>3 DEF RefuseRole, Starts, shared
  <2>2. AbsPhase' = [AbsPhase EXCEPT ![c] = PhaseOf(c)']
    BY <1>0, <2>1, OneMoves DEF Waiting, ApprovalInv, Ran
  <2>3. PhaseOf(c)' = "refused" /\ PhaseOf(c) = "new"
    BY <1>0, <2>1 DEF Stands
  <2>4. AbsGuarded' = AbsGuarded
    BY <1>0, <2>1 DEF AbsGuarded, Guarded
  <2>. QED
    BY <2>2, <2>3, <2>4 DEF AbsPhase, AbsGuarded, Promise!Refuse
<1>4. ASSUME NEW c \in Calls, NEW m \in Requests, Prepare(c, m)
      PROVE Promise!Start(c) \/ \E g \in BOOLEAN : Promise!Submit(c, g)
  <2>1. /\ pc[c] \in {"idle", "opened"}
        /\ pc' = [pc EXCEPT ![c] = IF m.role \in HitlRoles THEN "hitl" ELSE "executing"]
        /\ took' = took /\ pendingApprovals' = pendingApprovals
        /\ req' = [req EXCEPT ![c] = m]
    BY <1>4 DEF Prepare, Starts
  <2>2. took[c] = NoCall
    BY <2>1 DEF ApprovalInv, Ran
  <2>3. AbsPhase' = [AbsPhase EXCEPT ![c] = PhaseOf(c)']
    BY <1>0, <2>1, <2>2, OneMoves DEF Waiting
  <2>4. PhaseOf(c) = "new"
    BY <1>0, <2>1 DEF Stands
  <2>5. CASE m.role \in HitlRoles
    <3>1. PhaseOf(c)' = "submitted"
      BY <1>0, <2>1, <2>5 DEF Stands
    <3>2. AbsGuarded' = IF m.text = "trigger" THEN AbsGuarded \cup {c} ELSE AbsGuarded
      BY <1>0, <2>1, <2>5 DEF AbsGuarded, Guarded
    <3>3. Promise!Submit(c, m.text = "trigger")
      BY <2>3, <2>4, <3>1, <3>2 DEF AbsPhase, AbsGuarded, Promise!Submit
    <3>. QED
      BY <3>3
  <2>6. CASE m.role \notin HitlRoles
    <3>1. PhaseOf(c)' = "running"
      BY <1>0, <2>1, <2>2, <2>6 DEF Stands, Ran
    <3>2. AbsGuarded' = AbsGuarded /\ c \notin AbsGuarded
      BY <1>0, <2>1, <2>6 DEF AbsGuarded, Guarded
    <3>. QED
      BY <2>3, <2>4, <3>1, <3>2 DEF AbsPhase, AbsGuarded, Promise!Start
  <2>. QED
    BY <2>5, <2>6
<1>5. ASSUME NEW c \in Calls, Approve(c) \/ Reject(c)
      PROVE \E m \in Calls, verdict \in {"running", "rejected"} : Promise!Answer(c, m, verdict)
  <2>0. PICK m \in Calls : m = pendingApprovals[ApprovalKey(c)].msg
    BY <1>0, <1>5 DEF Approve, Reject, IsPending
  <2>1. /\ pc[c] = "hitl" /\ pc[m] = "paused" /\ m # c /\ Waiting(m)
        /\ took' = [took EXCEPT ![c] = m] /\ took[c] = NoCall /\ req' = req
        /\ pendingApprovals' = Without(pendingApprovals, {ApprovalKey(c)})
        /\ ApprovalKey(c) \in DOMAIN pendingApprovals
    BY <1>0, <1>5, <2>0 DEF Approve, Reject, IsPending, ApprovalInv, Waiting, Ran
  <2>2. \A k \in DOMAIN pendingApprovals :
           pendingApprovals[k].msg = m => k = ApprovalKey(c)
    BY <2>0, <2>1 DEF ApprovalInv
  <2>3. PICK phase \in {"executing", "rejected"} : pc' = [pc EXCEPT ![c] = phase]
    BY <1>5 DEF Approve, Reject, Return
  <2>4. \A x \in Calls \ {c, m} : Waiting(x)' <=> Waiting(x)
    BY <2>0, <2>1, <2>2 DEF Waiting, Without
  <2>5. \A x \in Calls \ {c, m} : PhaseOf(x)' = PhaseOf(x)
    BY <1>0, <2>1, <2>3, <2>4, OthersStay
  <2>6. PhaseOf(c) = "submitted" /\ PhaseOf(m) = "pending"
    BY <1>0, <2>1 DEF Stands
  <2>7. took'[c] = m /\ pc'[c] = phase /\ m # NoCall /\ pc'[m] = "paused"
    BY <1>0, <2>1, <2>3, SentinelAssumption
  <2>8. PhaseOf(c)' = "answer"
    BY <1>0, <2>3, <2>7 DEF Stands, Ran
  <2>9. PICK verdict \in {"running", "rejected"} : PhaseOf(m)' = verdict
    <3>1. CASE phase = "executing"
      <4>1. TakenBy(m, Ran)'
        BY <2>7, <3>1 DEF TakenBy, Ran
      <4>. QED
        BY <1>0, <2>1, <2>7, <4>1 DEF Stands
    <3>2. CASE phase = "rejected"
      <4>1. TakenBy(m, {"rejected"})'
        BY <2>7, <3>2 DEF TakenBy
      <4>. QED
        BY <1>0, <2>1, <2>7, <4>1 DEF Stands
    <3>. QED
      BY <3>1, <3>2
  <2>10. AbsGuarded' = AbsGuarded
    BY <1>0, <2>1, <2>3 DEF AbsGuarded, Guarded
  <2>11. AbsPhase' = [AbsPhase EXCEPT ![c] = "answer", ![m] = verdict]
    BY <2>1, <2>5, <2>8, <2>9 DEF AbsPhase
  <2>12. Promise!Answer(c, m, verdict)
    BY <2>1, <2>6, <2>10, <2>11 DEF AbsPhase, AbsGuarded, Promise!Answer
  <2>. QED
    BY <2>1, <2>12
<1>6. ASSUME NEW c \in Calls, RefuseUndecided(c) \/ RefuseAnswer(c) \/ RefuseExpired(c)
      PROVE Promise!Refuse(c)
  <2>1. /\ pc[c] = "hitl" /\ pc' = [pc EXCEPT ![c] = "refused"]
        /\ took' = took /\ pendingApprovals' = pendingApprovals /\ req' = req
    BY <1>6 DEF RefuseUndecided, RefuseAnswer, RefuseExpired, Return, shared
  <2>2. AbsPhase' = [AbsPhase EXCEPT ![c] = PhaseOf(c)']
    BY <1>0, <2>1, OneMoves DEF Waiting, Stands
  <2>3. PhaseOf(c)' = "refused" /\ PhaseOf(c) = "submitted"
    BY <1>0, <2>1 DEF Stands
  <2>4. AbsGuarded' = AbsGuarded
    BY <1>0, <2>1 DEF AbsGuarded, Guarded
  <2>. QED
    BY <2>2, <2>3, <2>4 DEF AbsPhase, AbsGuarded, Promise!Refuse
<1>7. ASSUME NEW c \in Calls, Pause(c) PROVE Promise!Pause(c)
  <2>1. /\ pc[c] = "hitl" /\ pc' = [pc EXCEPT ![c] = "paused"]
        /\ took' = took /\ req' = req /\ Guarded(c)
        /\ ApprovalKey(c) \notin DOMAIN pendingApprovals
        /\ pendingApprovals' = Put(pendingApprovals, ApprovalKey(c),
                                   [msg |-> c, createdAt |-> now])
    BY <1>7 DEF Pause, Return, IsPending, Guarded, ApprovalInv
  <2>2. \A x \in Calls \ {c} : Waiting(x)' <=> Waiting(x)
    BY <2>1 DEF Waiting, Put
  <2>3. Waiting(c)'
    BY <2>1 DEF Waiting, Put
  <2>4. AbsPhase' = [AbsPhase EXCEPT ![c] = PhaseOf(c)']
    BY <1>0, <2>1, <2>2, OneMoves DEF Stands
  <2>5. PhaseOf(c)' = "pending" /\ PhaseOf(c) = "submitted"
    BY <1>0, <2>1, <2>3 DEF Stands
  <2>6. AbsGuarded' = AbsGuarded /\ c \in AbsGuarded
    BY <1>0, <2>1 DEF AbsGuarded, Guarded
  <2>. QED
    BY <2>4, <2>5, <2>6 DEF AbsPhase, AbsGuarded, Promise!Pause
<1>8. ASSUME NEW c \in Calls, Proceed(c) PROVE Promise!Start(c)
  <2>1. /\ pc[c] = "hitl" /\ pc' = [pc EXCEPT ![c] = "executing"]
        /\ took' = took /\ pendingApprovals' = pendingApprovals /\ req' = req
        /\ req[c].text = "other"
    BY <1>8 DEF Proceed, shared
  <2>2. AbsPhase' = [AbsPhase EXCEPT ![c] = PhaseOf(c)']
    BY <1>0, <2>1, OneMoves DEF Waiting, Stands
  <2>3. PhaseOf(c)' = "running" /\ PhaseOf(c) = "submitted"
    BY <1>0, <2>1 DEF Stands, Ran
  <2>4. AbsGuarded' = AbsGuarded /\ c \notin AbsGuarded
    BY <1>0, <2>1 DEF AbsGuarded, Guarded
  <2>. QED
    BY <2>2, <2>3, <2>4 DEF AbsPhase, AbsGuarded, Promise!Start
<1>9. ASSUME NEW c \in Calls,
             Record(c) \/ Announce(c) \/ \E final \in Outcomes : Execute(c, final)
      PROVE Stutters
  <2>1. PICK phase \in {"recording", "recorded", "finished"} : pc' = [pc EXCEPT ![c] = phase]
    BY <1>9 DEF Record, Announce, Execute, Return
  <2>2. /\ pc[c] \in Ran /\ took' = took /\ req' = req
        /\ pendingApprovals' = pendingApprovals
    BY <1>9 DEF Record, Announce, Execute, Ran, shared
  <2>3. \A x \in Calls \ {c} : PhaseOf(x)' = PhaseOf(x)
    <3>1. \A x \in Calls \ {c, c} : PhaseOf(x)' = PhaseOf(x)
      BY <1>0, <2>1, <2>2, OthersStay DEF Waiting, Ran
    <3>. QED
      BY <3>1
  <2>4. PhaseOf(c)' = PhaseOf(c)
    BY <1>0, <2>1, <2>2 DEF Stands, Ran
  <2>5. AbsGuarded' = AbsGuarded
    BY <1>0, <2>1, <2>2 DEF AbsGuarded, Guarded, Ran
  <2>. QED
    BY <2>3, <2>4, <2>5 DEF AbsPhase
<1>10. ASSUME NEW tick \in Times, tick <= now, Sweep(tick)
      PROVE \E S \in SUBSET Calls : Promise!Expire(S)
  <2>. DEFINE S == {x \in Calls : Waiting(x) /\ ~Waiting(x)'}
  <2>1. /\ pc' = pc /\ took' = took /\ req' = req
        /\ \A x \in Calls : Waiting(x)' => Waiting(x)
    BY <1>10 DEF Sweep, Waiting, Without
  <2>2. \A x \in S : pc[x] = "paused" /\ PhaseOf(x) = "pending" /\ PhaseOf(x)' = "expired"
    <3>. SUFFICES ASSUME NEW x \in S
                  PROVE pc[x] = "paused" /\ PhaseOf(x) = "pending" /\ PhaseOf(x)' = "expired"
      OBVIOUS
    <3>1. x \in Calls /\ Waiting(x) /\ ~Waiting(x)'
      OBVIOUS
    <3>2. pc[x] = "paused"
      BY <3>1 DEF Waiting, ApprovalInv
    <3>3. PhaseOf(x) = "pending" /\ \A d \in Calls : took[d] # x
      BY <1>0, <3>1, <3>2 DEF Stands
    <3>4. ~TakenBy(x, Ran \cup {"rejected"})'
      BY <2>1, <3>3 DEF TakenBy
    <3>. QED
      BY <1>0, <2>1, <3>1, <3>2, <3>3, <3>4 DEF Stands
  <2>3. \A x \in Calls \ S : PhaseOf(x)' = PhaseOf(x)
    <3>. SUFFICES ASSUME NEW x \in Calls \ S PROVE PhaseOf(x)' = PhaseOf(x)
      OBVIOUS
    <3>1. Still(x)
      BY <2>1 DEF Still, TakenBy
    <3>. QED
      BY <1>0, <3>1, StillStands
  <2>4. AbsGuarded' = AbsGuarded
    BY <2>1 DEF AbsGuarded, Guarded
  <2>5. S \in SUBSET Calls
    OBVIOUS
  <2>. HIDE DEF S
  <2>6. Promise!Expire(S)
    BY <2>2, <2>3, <2>4, <2>5 DEF AbsPhase, AbsGuarded, Promise!Expire
  <2>. QED
    BY <2>5, <2>6
<1>11. CASE Tick \/ (\E id \in DOMAIN tasks : Cancel(id)) \/ UNCHANGED vars
  <2>1. UNCHANGED <<pc, req, took, pendingApprovals>>
    BY <1>11 DEF Tick, Cancel, vars
  <2>2. Stutters
    BY <2>1 DEF AbsPhase, AbsGuarded, PhaseOf, Guarded
  <2>. QED
    BY <1>1, <2>2
<1>. QED
  BY <1>1, <1>2, <1>3, <1>4, <1>5, <1>6, <1>7, <1>8, <1>9, <1>10, <1>11
     DEF Next, Send, Hitl, Promise!Next

(* The whole protocol of approvals, message by message: no interleaving of *)
(* snapshots, locks, cancellations and sweeps lets a message stand where   *)
(* the promise does not lead.                                              *)
THEOREM StoreKeepsThePromise == Spec => ImplementsApprovals
<1>1. Init => Promise!Init
  <2>. SUFFICES ASSUME Init PROVE Promise!Init
    OBVIOUS
  <2>1. \A c \in Calls : pc[c] = "idle"
    BY DEF Init
  <2>2. \A c \in Calls : PhaseOf(c) = "new"
    BY <2>1 DEF PhaseOf, Ran
  <2>. QED
    BY <2>1, <2>2 DEF Promise!Init
<1>. QED
  BY <1>1, PromiseStep, Invariants, PTL DEF Spec, ImplementsApprovals, Promise!Spec

-----------------------------------------------------------------------------
(* Steps, as the records see them.  Most change no context and no history; *)
(* the others open a stream, take a snapshot, or store what a call carries.*)
Messages(s) == {s[i] : i \in 1..Len(s)}

LEMMA MessagesOf ==
    ASSUME NEW S, NEW s \in Seq(S), NEW x \in S, NEW n \in Nat \ {0}
    PROVE  /\ Messages(s) \subseteq S
           /\ Messages(Append(s, x)) \subseteq Messages(s) \cup {x}
           /\ Messages(Trim(Append(s, x), n)) \subseteq Messages(s) \cup {x}
<1>. DEFINE t == Append(s, x)
            u == Trim(t, n)
<1>1. /\ t \in Seq(S) /\ Len(t) = Len(s) + 1 /\ Len(s) \in Nat
      /\ \A i \in 1..Len(s) : t[i] = s[i]
      /\ t[Len(s) + 1] = x
  OBVIOUS
<1>. HIDE DEF t
<1>2. /\ Len(u) = (IF Len(t) > n THEN n ELSE Len(t))
      /\ \A i \in 1..Len(u) : u[i] = t[i + Len(t) - Len(u)]
  <2>1. n \in Nat
    OBVIOUS
  <2>. QED
    BY <1>1, <2>1, TrimProperties
<1>. HIDE DEF u
<1>3. Messages(t) \subseteq Messages(s) \cup {x}
  <2>. SUFFICES ASSUME NEW i \in 1..Len(t) PROVE t[i] \in Messages(s) \cup {x}
    BY DEF Messages
  <2>1. i \in 1..Len(s) \/ i = Len(s) + 1
    BY <1>1
  <2>. QED
    BY <1>1, <2>1 DEF Messages
<1>4. Messages(u) \subseteq Messages(t)
  <2>. SUFFICES ASSUME NEW i \in 1..Len(u) PROVE u[i] \in Messages(t)
    BY DEF Messages
  <2>1. i + Len(t) - Len(u) \in 1..Len(t)
    BY <1>1, <1>2
  <2>. QED
    BY <1>2, <2>1 DEF Messages
<1>5. Messages(s) \subseteq S
  BY DEF Messages
<1>. QED
  BY <1>3, <1>4, <1>5 DEF t, u

QuietStep ==
    /\ taskSeq' = taskSeq /\ now' >= now
    /\ \A id \in DOMAIN tasks' :
          /\ id \in DOMAIN tasks
          /\ tasks'[id].ctx = tasks[id].ctx /\ tasks'[id].history = tasks[id].history
          /\ \/ tasks'[id] = tasks[id]
             \/ tasks'[id].status = "canceled" /\ tasks'[id].lastActivity = now
    /\ \A k \in DOMAIN tasksByContext' :
          k \in DOMAIN tasksByContext /\ tasksByContext'[k] = tasksByContext[k]
    /\ \A id \in DOMAIN tasks \ DOMAIN tasks' :
          tasks[id].ctx # NoContext => tasks[id].ctx \notin DOMAIN tasksByContext'
    /\ \A k \in DOMAIN tasksByContext \ DOMAIN tasksByContext' :
          \E id \in DOMAIN tasks \ DOMAIN tasks' : tasks[id].ctx = k
    /\ \A k \in DOMAIN pendingApprovals' :
          /\ k \in DOMAIN pendingApprovals /\ pendingApprovals'[k] = pendingApprovals[k]
          /\ k \in DOMAIN tasksByContext => k \in DOMAIN tasksByContext'
          /\ \A id \in DOMAIN tasks :
                tasks[id].lastActivity >= pendingApprovals[k].createdAt => id \in DOMAIN tasks'
    /\ \A k \in DOMAIN pendingApprovals \ DOMAIN pendingApprovals' :
          \/ \E c \in Calls : /\ pc[c] = "hitl" /\ k = ApprovalKey(c) /\ pc'[c] \in InSend
                              /\ took'[c] = pendingApprovals[k].msg
          \/ \E id \in DOMAIN tasks \ DOMAIN tasks' : tasks[id].ctx = k
          \/ \A id \in DOMAIN tasks' : tasks[id].lastActivity > pendingApprovals[k].createdAt
    /\ \A c \in Calls :
          /\ pc[c] \in {"executing", "recording"} => pc'[c] \in InSend /\ took'[c] = took[c]
          /\ pc'[c] = "opened" => pc[c] = "opened"
          /\ pc'[c] \in InSend =>
                /\ pc[c] \in InSend
                /\ loc'[c].id = loc[c].id /\ loc'[c].history = loc[c].history
                /\ loc'[c].lastActivity \in {loc[c].lastActivity, now}

(* The call is done with the store. *)
Leaves(c) ==
    /\ \E phase \in Done : pc' = [pc EXCEPT ![c] = phase]
    /\ loc' = [loc EXCEPT ![c] = loc'[c]]

RecordStep(c, task) ==
    /\ taskSeq' = taskSeq /\ now' = now
    /\ pc[c] \in InSend
    /\ RecordTask(loc[c].id, task)
    /\ Leaves(c)
    /\ task.ctx \in {req[c].ctx, req[Effective(c)].ctx}
    /\ pc[c] = "hitl" => task.ctx = req[c].ctx
    /\ task.lastActivity \in {loc[c].lastActivity, now}
    /\ \A k \in DOMAIN pendingApprovals' :
          \/ k \in DOMAIN pendingApprovals /\ pendingApprovals'[k] = pendingApprovals[k]
          \/ /\ k = ApprovalKey(c) /\ pendingApprovals'[k] = [msg |-> c, createdAt |-> now]
             /\ task.ctx = req[c].ctx /\ task.lastActivity = now
    /\ DOMAIN pendingApprovals \ DOMAIN pendingApprovals' \subseteq {ApprovalKey(c)}
    /\ \/ task.status = "rejected"
       \/ task.status = "input-required" /\ ApprovalKey(c) \in DOMAIN pendingApprovals'
          /\ ApprovalKey(c) \notin DOMAIN pendingApprovals
       \/ pc[c] = "recording" /\ task.status = loc[c].transitions[Len(loc[c].transitions)].to
    /\ Messages(task.history) \subseteq Messages(loc[c].history) \cup {c}

LEMMA StepKinds ==
    ASSUME TypeInv, [Next]_vars
    PROVE  \/ QuietStep
           \/ \E c \in Calls, m \in Requests : OpenStream(c, m) \/ Prepare(c, m)
           \/ \E c \in Calls, task \in Task : RecordStep(c, task)
<1>0. /\ TypeOK /\ pc \in [Calls -> Phases] /\ loc \in [Calls -> Local]
      /\ \A id \in DOMAIN tasks : tasks[id] \in Task
      /\ now \in Nat /\ took \in [Calls -> Calls \cup {NoCall}]
  BY DEF TypeInv, TypeOK
<1>. USE DEF InSend
<1>1. ASSUME NEW c \in Calls, NEW m \in Requests, RefuseRole(c, m) PROVE QuietStep
  BY <1>0, <1>1 DEF RefuseRole, Starts, shared, QuietStep
<1>2. ASSUME NEW c \in Calls, Approve(c) \/ Proceed(c) PROVE QuietStep
  <2>1. CASE Approve(c)
    <3>1. /\ pc[c] = "hitl" /\ pc' = [pc EXCEPT ![c] = "executing"]
          /\ pendingApprovals' = Without(pendingApprovals, {ApprovalKey(c)})
          /\ took' = [took EXCEPT ![c] = pendingApprovals[ApprovalKey(c)].msg]
          /\ UNCHANGED <<taskSeq, tasks, tasksByContext, now, loc>>
      BY <2>1 DEF Approve
    <3>2. \A k \in DOMAIN pendingApprovals \ DOMAIN pendingApprovals' :
             /\ k = ApprovalKey(c) /\ pc'[c] \in InSend
             /\ took'[c] = pendingApprovals[k].msg
      BY <1>0, <3>1 DEF Without
    <3>3. \A k \in DOMAIN pendingApprovals' :
             k \in DOMAIN pendingApprovals /\ pendingApprovals'[k] = pendingApprovals[k]
      BY <3>1 DEF Without
    <3>4. \A d \in Calls :
             /\ pc[d] \in {"executing", "recording"} => pc'[d] \in InSend /\ took'[d] = took[d]
             /\ pc'[d] = "opened" => pc[d] = "opened"
             /\ pc'[d] \in InSend => pc[d] \in InSend /\ loc'[d] = loc[d]
      BY <1>0, <3>1
    <3>5. \A k \in DOMAIN pendingApprovals \ DOMAIN pendingApprovals' :
             \E d \in Calls : /\ pc[d] = "hitl" /\ k = ApprovalKey(d) /\ pc'[d] \in InSend
                              /\ took'[d] = pendingApprovals[k].msg
      BY <3>1, <3>2
    <3>6. now' >= now /\ UNCHANGED <<taskSeq, tasks, tasksByContext>>
      BY <1>0, <3>1
    <3>. QED
      BY <3>3, <3>4, <3>5, <3>6 DEF QuietStep
  <2>2. CASE Proceed(c)
    BY <1>0, <2>2 DEF Proceed, shared, QuietStep
  <2>. QED
    BY <1>2, <2>1, <2>2
<1>3. ASSUME NEW c \in Calls,
             RefuseUndecided(c) \/ RefuseAnswer(c) \/ RefuseExpired(c) \/ Announce(c)
      PROVE  QuietStep
  <2>1. /\ pc[c] \in {"hitl", "recorded"} /\ \E phase \in {"refused", "finished"} : Return(c, phase)
        /\ UNCHANGED <<took, taskSeq, now, tasks, tasksByContext, pendingApprovals>>
    BY <1>3 DEF RefuseUndecided, RefuseAnswer, RefuseExpired, Announce, shared
  <2>. QED
    BY <1>0, <2>1 DEF Return, QuietStep
<1>4. ASSUME NEW c \in Calls, NEW final \in Outcomes, Execute(c, final) PROVE QuietStep
  <2>1. pc[c] = "executing" /\ pc' = [pc EXCEPT ![c] = "recording"]
        /\ UNCHANGED <<took, taskSeq, now, tasks, tasksByContext, pendingApprovals>>
    BY <1>4 DEF Execute, shared
  <2>2. /\ loc'[c].id = loc[c].id /\ loc'[c].history = loc[c].history
        /\ loc'[c].lastActivity = now
        /\ \A d \in Calls \ {c} : loc'[d] = loc[d]
    BY <1>0, <1>4 DEF Execute, Local
  <2>. QED
    BY <1>0, <2>1, <2>2 DEF QuietStep
<1>5. ASSUME NEW id \in DOMAIN tasks, Cancel(id) PROVE QuietStep
  <2>1. /\ DOMAIN tasks' = DOMAIN tasks
        /\ \A i \in DOMAIN tasks : tasks'[i].ctx = tasks[i].ctx /\ tasks'[i].history = tasks[i].history
    BY <1>0, <1>5 DEF Cancel, Task
  <2>2. /\ \A i \in DOMAIN tasks \ {id} : tasks'[i] = tasks[i]
        /\ tasks'[id].status = "canceled" /\ tasks'[id].lastActivity = now
    BY <1>0, <1>5 DEF Cancel, Task
  <2>. QED
    BY <1>0, <1>5, <2>1, <2>2 DEF Cancel, QuietStep
<1>6. ASSUME NEW tick \in Times, Sweep(tick) PROVE QuietStep
  <2>1. /\ \A id \in DOMAIN tasks : tasks[id].lastActivity \in Nat
        /\ \A k \in DOMAIN pendingApprovals : pendingApprovals[k].createdAt \in Nat
        /\ tick \in Nat /\ TTL \in Nat
    BY <1>0, BoundsAssumption DEF TypeOK, Task
  <2>2. ASSUME NEW k \in DOMAIN pendingApprovals', NEW id \in DOMAIN tasks,
               tasks[id].lastActivity >= pendingApprovals[k].createdAt
        PROVE  id \in DOMAIN tasks'
    <3>1. k \in DOMAIN pendingApprovals /\ ~(tick - pendingApprovals[k].createdAt > TTL)
      BY <1>6, <2>2 DEF Sweep, Without, ExpiredApprovals
    <3>2. ~(tick - tasks[id].lastActivity > TTL)
      BY <2>1, <2>2, <3>1
    <3>. QED
      BY <1>6, <3>2 DEF Sweep, Without, Expired
  <2>3. ASSUME NEW k \in DOMAIN pendingApprovals \ DOMAIN pendingApprovals'
        PROVE  \/ \E id \in DOMAIN tasks \ DOMAIN tasks' : tasks[id].ctx = k
               \/ \A id \in DOMAIN tasks' : tasks[id].lastActivity > pendingApprovals[k].createdAt
    <3>1. k \in ExpiredContexts(tick) \cup ExpiredApprovals(tick)
      BY <1>6 DEF Sweep, Without
    <3>2. CASE k \in ExpiredContexts(tick)
      BY <1>6, <3>2 DEF Sweep, Without, ExpiredContexts, Expired
    <3>3. CASE k \in ExpiredApprovals(tick)
      <4>1. tick - pendingApprovals[k].createdAt > TTL
        BY <3>3 DEF ExpiredApprovals
      <4>2. \A id \in DOMAIN tasks' : id \in DOMAIN tasks /\ ~(tick - tasks[id].lastActivity > TTL)
        BY <1>6 DEF Sweep, Without, Expired
      <4>. QED
        BY <2>1, <4>1, <4>2
    <3>. QED
      BY <3>1, <3>2, <3>3
  <2>. QED
    BY <1>0, <1>6, <2>2, <2>3 DEF Sweep, Without, ExpiredContexts, Expired, QuietStep
<1>7. CASE Tick \/ UNCHANGED vars
  BY <1>0, <1>7, BoundsAssumption DEF Tick, vars, QuietStep
<1>8. ASSUME NEW c \in Calls, Reject(c) \/ Pause(c)
      PROVE  \E task \in Task : RecordStep(c, task)
  <2>1. PICK from \in {"working", "input-required"}, to \in {"rejected", "input-required"} :
           /\ RecordTask(loc[c].id, HitlTask(c, from, to))
           /\ to = "input-required" => Pause(c)
    BY <1>8 DEF Reject, Pause
  <2>2. from \in Statuses /\ to \in Statuses
    BY DEF Statuses
  <2>3. HitlTask(c, from, to) \in Task
    BY <1>0, <2>2, HitlTaskType
  <2>4. Messages(HitlTask(c, from, to).history) \subseteq Messages(loc[c].history) \cup {c}
    <3>1. loc[c].history \in Seq(Calls) /\ HitlTask(c, from, to).history = Append(loc[c].history, c)
      BY <1>0 DEF Local, HitlTask
    <3>. QED
      BY <3>1, MessagesOf, BoundsAssumption
  <2>5. HitlTask(c, from, to).ctx = req[c].ctx /\ HitlTask(c, from, to).lastActivity = now
    BY DEF HitlTask
  <2>6. taskSeq' = taskSeq /\ now' = now /\ pc[c] = "hitl" /\ Leaves(c)
    BY <1>8 DEF Reject, Pause, Return, Leaves, Done, TypeOK
  <2>7. \A k \in DOMAIN pendingApprovals' :
           \/ k \in DOMAIN pendingApprovals /\ pendingApprovals'[k] = pendingApprovals[k]
           \/ k = ApprovalKey(c) /\ pendingApprovals'[k] = [msg |-> c, createdAt |-> now]
    BY <1>8 DEF Reject, Pause, Without, Put
  <2>8. /\ DOMAIN pendingApprovals \ DOMAIN pendingApprovals' \subseteq {ApprovalKey(c)}
        /\ Pause(c) => /\ ApprovalKey(c) \in DOMAIN pendingApprovals'
                       /\ ApprovalKey(c) \notin DOMAIN pendingApprovals
    BY <1>8 DEF Reject, Pause, IsPending, Without, Put
  <2>9. HitlTask(c, from, to).status = to
    BY DEF HitlTask
  <2>. QED
    BY <2>1, <2>3, <2>4, <2>5, <2>6, <2>7, <2>8, <2>9 DEF RecordStep
<1>9. ASSUME NEW c \in Calls, Record(c) PROVE \E task \in Task : RecordStep(c, task)
  <2>1. FinalTask(c) \in Task
    BY <1>9, FinalTaskType DEF Record
  <2>2. FinalTask(c).ctx = req[Effective(c)].ctx /\ FinalTask(c).history = loc[c].history
        /\ FinalTask(c).lastActivity = loc[c].lastActivity
        /\ FinalTask(c).status = loc[c].transitions[Len(loc[c].transitions)].to
    BY DEF FinalTask
  <2>3. /\ taskSeq' = taskSeq /\ now' = now /\ pendingApprovals' = pendingApprovals
        /\ pc[c] = "recording" /\ RecordTask(loc[c].id, FinalTask(c))
        /\ Leaves(c)
    BY <1>0, <1>9 DEF Record, Return, Leaves, Done
  <2>. QED
    BY <2>1, <2>2, <2>3 DEF RecordStep
<1>. QED
  BY <1>1, <1>2, <1>3, <1>4, <1>5, <1>6, <1>7, <1>8, <1>9 DEF Next, Send, Hitl

(* What a step does to the table: an entry stays or is new, and what a     *)
(* call takes is what stood under its key.                                 *)
LEMMA TableSteps ==
    ASSUME TypeInv, [Next]_vars
    PROVE  /\ \A k \in DOMAIN pendingApprovals' :
                 \/ k \in DOMAIN pendingApprovals /\ pendingApprovals'[k] = pendingApprovals[k]
                 \/ \E c \in Calls : /\ pc[c] = "hitl" /\ k = ApprovalKey(c)
                                     /\ pendingApprovals'[k].msg = c
           /\ \A c \in Calls :
                 \/ took'[c] = took[c]
                 \/ /\ pc[c] = "hitl" /\ ApprovalKey(c) \in DOMAIN pendingApprovals
                    /\ took'[c] = pendingApprovals[ApprovalKey(c)].msg
<1>0. took \in [Calls -> Calls \cup {NoCall}]
  BY DEF TypeInv, TypeOK
<1>1. ASSUME NEW k \in DOMAIN pendingApprovals'
      PROVE  \/ k \in DOMAIN pendingApprovals /\ pendingApprovals'[k] = pendingApprovals[k]
             \/ \E c \in Calls : /\ pc[c] = "hitl" /\ k = ApprovalKey(c)
                                 /\ pendingApprovals'[k].msg = c
  <2>1. ASSUME NEW c \in Calls, Approve(c) \/ Reject(c)
        PROVE  k \in DOMAIN pendingApprovals /\ pendingApprovals'[k] = pendingApprovals[k]
    BY <1>1, <2>1 DEF Approve, Reject, Without
  <2>2. ASSUME NEW c \in Calls, Pause(c)
        PROVE  \/ k \in DOMAIN pendingApprovals /\ pendingApprovals'[k] = pendingApprovals[k]
               \/ pc[c] = "hitl" /\ k = ApprovalKey(c) /\ pendingApprovals'[k].msg = c
    BY <1>1, <2>2 DEF Pause, Put
  <2>3. ASSUME NEW tick \in Times, Sweep(tick)
        PROVE  k \in DOMAIN pendingApprovals /\ pendingApprovals'[k] = pendingApprovals[k]
    BY <1>1, <2>3 DEF Sweep, Without
  <2>4. \/ \E c \in Calls : Approve(c) \/ Reject(c) \/ Pause(c)
        \/ \E tick \in Times : Sweep(tick)
        \/ UNCHANGED pendingApprovals
    BY DEF Next, Send, Hitl, OpenStream, RefuseRole, Prepare, RefuseUndecided, RefuseAnswer,
           RefuseExpired, Proceed, Execute, Record, Announce, Cancel, Tick, vars, shared
  <2>. QED
    BY <1>1, <2>1, <2>2, <2>3, <2>4
<1>2. ASSUME NEW c \in Calls
      PROVE  \/ took'[c] = took[c]
             \/ /\ pc[c] = "hitl" /\ ApprovalKey(c) \in DOMAIN pendingApprovals
                /\ took'[c] = pendingApprovals[ApprovalKey(c)].msg
  <2>1. \/ \E d \in Calls : Approve(d) \/ Reject(d)
        \/ UNCHANGED took
    BY DEF Next, Send, Hitl, OpenStream, RefuseRole, Prepare, RefuseUndecided, RefuseAnswer,
           RefuseExpired, Pause, Proceed, Execute, Record, Announce, Cancel, Sweep, Tick, vars, shared
  <2>. QED
    BY <1>0, <2>1 DEF Approve, Reject, IsPending
<1>. QED
  BY <1>1, <1>2

(* The table of approvals is keyed by what the messages in it are keyed by,*)
(* and an answer has the key of the message it took.                       *)
KeyInv ==
    /\ \A k \in DOMAIN pendingApprovals : ApprovalKey(pendingApprovals[k].msg) = k
    /\ \A c \in Calls : took[c] # NoCall => ApprovalKey(took[c]) = ApprovalKey(c)

LEMMA KeyNext ==
    ASSUME TypeInv, ApprovalInv, KeyInv, [Next]_vars
    PROVE  KeyInv'
<1>0. /\ \A c \in Calls : CallGoesOn(c)
      /\ took \in [Calls -> Calls \cup {NoCall}]
      /\ \A k \in DOMAIN pendingApprovals : pendingApprovals[k].msg \in Calls
  BY CallFrame DEF TypeInv, TypeOK
<1>1. ASSUME NEW c \in Calls, pc[c] \in InSend \cup Done PROVE ApprovalKey(c)' = ApprovalKey(c)
  BY <1>0, <1>1 DEF CallGoesOn, ApprovalKey, InSend, Done
<1>4. ASSUME NEW k \in DOMAIN pendingApprovals', k \in DOMAIN pendingApprovals,
             pendingApprovals'[k] = pendingApprovals[k]
      PROVE  ApprovalKey(pendingApprovals[k].msg)' = k
  <2>1. PICK m \in Calls : m = pendingApprovals[k].msg /\ m = pendingApprovals'[k].msg
    BY <1>0, <1>4
  <2>2. pc[m] = "paused" /\ ApprovalKey(m) = k
    BY <1>4, <2>1 DEF ApprovalInv, KeyInv
  <2>3. ApprovalKey(m)' = k
    BY <1>1, <2>2 DEF Done
  <2>. QED
    BY <2>1, <2>3 DEF ApprovalKey
<1>5. /\ \A k \in DOMAIN pendingApprovals' :
            \/ k \in DOMAIN pendingApprovals /\ pendingApprovals'[k] = pendingApprovals[k]
            \/ \E c \in Calls : /\ pc[c] = "hitl" /\ k = ApprovalKey(c)
                                /\ pendingApprovals'[k].msg = c
      /\ \A c \in Calls :
            \/ took'[c] = took[c]
            \/ /\ pc[c] = "hitl" /\ ApprovalKey(c) \in DOMAIN pendingApprovals
               /\ took'[c] = pendingApprovals[ApprovalKey(c)].msg
  BY TableSteps
<1>7. ASSUME NEW k \in DOMAIN pendingApprovals'
      PROVE  (\A m : m = pendingApprovals[k].msg => ApprovalKey(m) = k)'
  <2>1. CASE k \in DOMAIN pendingApprovals /\ pendingApprovals'[k] = pendingApprovals[k]
    BY <1>4, <1>7, <2>1 DEF ApprovalKey
  <2>2. ASSUME NEW c \in Calls, pc[c] = "hitl", k = ApprovalKey(c), pendingApprovals'[k].msg = c
        PROVE  (\A m : m = pendingApprovals[k].msg => ApprovalKey(m) = k)'
    <3>1. ApprovalKey(c)' = k
      BY <1>1, <2>2 DEF InSend
    <3>. QED
      BY <2>2, <3>1 DEF ApprovalKey
  <2>. QED
    BY <1>5, <1>7, <2>1, <2>2
<1>8. ASSUME NEW c \in Calls, took'[c] # NoCall
      PROVE  (\A m : m = took[c] => ApprovalKey(m) = ApprovalKey(c))'
  <2>1. CASE took'[c] = took[c]
    <3>1. PICK m \in Calls : m = took[c]
      BY <1>0, <1>8, <2>1
    <3>2. pc[m] = "paused" /\ pc[c] \in Ran \cup {"rejected"} /\ ApprovalKey(m) = ApprovalKey(c)
      BY <1>8, <2>1, <3>1 DEF ApprovalInv, KeyInv
    <3>3. ApprovalKey(m)' = ApprovalKey(m) /\ ApprovalKey(c)' = ApprovalKey(c)
      BY <1>1, <3>2 DEF Ran, InSend, Done
    <3>. QED
      BY <2>1, <3>1, <3>2, <3>3 DEF ApprovalKey
  <2>2. CASE /\ pc[c] = "hitl" /\ ApprovalKey(c) \in DOMAIN pendingApprovals
             /\ took'[c] = pendingApprovals[ApprovalKey(c)].msg
    <3>1. PICK m \in Calls : m = pendingApprovals[ApprovalKey(c)].msg
      BY <1>0, <2>2
    <3>2. pc[m] = "paused" /\ ApprovalKey(m) = ApprovalKey(c)
      BY <2>2, <3>1 DEF ApprovalInv, KeyInv
    <3>3. ApprovalKey(m)' = ApprovalKey(m) /\ ApprovalKey(c)' = ApprovalKey(c)
      BY <1>1, <2>2, <3>2 DEF InSend, Done
    <3>. QED
      BY <2>2, <3>1, <3>2, <3>3 DEF ApprovalKey
  <2>. QED
    BY <1>5, <2>1, <2>2
<1>. QED
  BY <1>7, <1>8 DEF KeyInv, ApprovalKey

(* Every message kept anywhere has been sent, and every context indexed is *)
(* one that a message had.                                                 *)
Sent == {c \in Calls : pc[c] # "idle"}

SeenInv ==
    /\ \A c \in Calls : pc[c] = "idle" => req[c] = NoMessage
    /\ \A id \in DOMAIN tasks : Messages(tasks[id].history) \subseteq Sent
    /\ \A c \in Calls : pc[c] \in InSend => Messages(loc[c].history) \subseteq Sent
    /\ \A k \in DOMAIN tasksByContext : \E c \in Calls : req[c].ctx = k

LEMMA SnapshotMessages ==
    ASSUME TypeInv, NEW c \in Calls, NEW m \in Message
    PROVE  Messages(Snapshot(c, m).history) \subseteq {c} \cup
              (IF Existing(m.ctx) = NoTask THEN {}
               ELSE Messages(tasks[Existing(m.ctx)].history))
<1>. DEFINE t == Existing(m.ctx)
<1>1. CASE t = NoTask
  <2>1. Snapshot(c, m).history = <<c>>
    BY <1>1 DEF Snapshot
  <2>. QED
    BY <1>1, <2>1 DEF Messages
<1>2. CASE t # NoTask
  <2>1. Snapshot(c, m).history = Trim(Append(tasks[t].history, c), MaxHistory)
    BY <1>2 DEF Snapshot
  <2>2. tasks[t].history \in Seq(Calls)
    BY <1>2, ExistingType DEF Task, TypeInv
  <2>3. Messages(Trim(Append(tasks[t].history, c), MaxHistory))
           \subseteq Messages(tasks[t].history) \cup {c}
    BY <2>2, MessagesOf, BoundsAssumption
  <2>. QED
    BY <1>2, <2>1, <2>3
<1>. QED
  BY <1>1, <1>2

LEMMA RecordedMaps ==
    ASSUME TypeOK, NEW id, NEW task, RecordTask(id, task)
    PROVE  /\ DOMAIN tasks' = DOMAIN tasks \cup {id}
           /\ \A i \in DOMAIN tasks' : tasks'[i] = IF i = id THEN task ELSE tasks[i]
           /\ \A k \in DOMAIN tasksByContext' :
                 \/ k = task.ctx /\ k # NoContext /\ tasksByContext'[k] = id
                 \/ k # task.ctx /\ k \in DOMAIN tasksByContext /\ tasksByContext'[k] = tasksByContext[k]
<1>1. CASE task.ctx = NoContext
  BY <1>1, SentinelAssumption DEF RecordTask, Put, TypeOK
<1>2. CASE task.ctx # NoContext
  BY <1>2 DEF RecordTask, Put
<1>. QED
  BY <1>1, <1>2

LEMMA SeenNext ==
    ASSUME TypeInv, ApprovalInv, SeenInv, [Next]_vars
    PROVE  SeenInv'
<1>0. /\ TypeOK
      /\ \A c \in Calls : CallGoesOn(c)
      /\ pc \in [Calls -> Phases] /\ loc \in [Calls -> Local]
      /\ req \in [Calls -> Message]
  BY CallFrame DEF TypeInv, TypeOK
<1>1. Sent \subseteq Sent' /\ \A c \in Sent : req'[c] = req[c]
  BY <1>0 DEF CallGoesOn, Sent
<1>2. ASSUME NEW c \in Calls, pc'[c] = "idle" PROVE req'[c] = NoMessage
  <2>1. pc[c] = "idle"
    BY <1>0, <1>2 DEF CallGoesOn
  <2>2. ASSUME NEW d \in Calls, NEW m \in Requests,
               OpenStream(d, m) \/ RefuseRole(d, m) \/ Prepare(d, m)
        PROVE  req'[c] = req[c]
    <3>1. d # c
      BY <1>0, <1>2, <2>2 DEF OpenStream, RefuseRole, Prepare
    <3>. QED
      BY <1>0, <2>2, <3>1 DEF OpenStream, RefuseRole, Prepare
  <2>3. \/ \E d \in Calls, m \in Requests : OpenStream(d, m) \/ RefuseRole(d, m) \/ Prepare(d, m)
        \/ UNCHANGED req
    BY DEF Next, Send, Hitl, Approve, Reject, RefuseUndecided, RefuseAnswer,
           RefuseExpired, Pause, Proceed, Execute, Record, Announce, Cancel, Sweep, Tick, vars, shared
  <2>. QED
    BY <2>1, <2>2, <2>3 DEF SeenInv
<1>3. ASSUME NEW k \in DOMAIN tasksByContext PROVE \E c \in Calls : req'[c].ctx = k
  <2>1. PICK c \in Calls : req[c].ctx = k
    BY DEF SeenInv
  <2>2. k # NoContext
    BY <1>3, SentinelAssumption DEF TypeInv, TypeOK
  <2>3. c \in Sent
    BY <2>1, <2>2 DEF SeenInv, Sent, NoMessage
  <2>. QED
    BY <1>1, <2>1, <2>3
<1>4. CASE QuietStep
  <2>1. \A id \in DOMAIN tasks' : Messages(tasks'[id].history) \subseteq Sent
    BY <1>4 DEF QuietStep, SeenInv
  <2>2. \A c \in Calls : pc'[c] \in InSend => Messages(loc'[c].history) \subseteq Sent
    BY <1>4 DEF QuietStep, SeenInv
  <2>3. \A k \in DOMAIN tasksByContext' : \E c \in Calls : req'[c].ctx = k
    BY <1>3, <1>4 DEF QuietStep
  <2>. QED
    BY <1>1, <1>2, <2>1, <2>2, <2>3 DEF SeenInv
<1>5. ASSUME NEW c \in Calls, NEW m \in Requests, OpenStream(c, m) \/ Prepare(c, m)
      PROVE  SeenInv'
  <2>1. /\ UNCHANGED <<tasks, tasksByContext>> /\ c \in Sent'
        /\ \A d \in Calls \ {c} : loc'[d] = loc[d] /\ pc'[d] = pc[d]
    BY <1>0, <1>5 DEF OpenStream, Prepare, Sent
  <2>2. pc'[c] \in InSend => Messages(loc'[c].history) \subseteq Sent'
    <3>1. CASE OpenStream(c, m)
      BY <1>0, <3>1 DEF OpenStream, InSend
    <3>2. CASE Prepare(c, m)
      <4>1. loc'[c] = Snapshot(c, m) /\ m \in Message
        BY <1>0, <3>2, RequestsAssumption DEF Prepare
      <4>2. Existing(m.ctx) # NoTask => Messages(tasks[Existing(m.ctx)].history) \subseteq Sent
        BY <1>0, ExistingType DEF SeenInv
      <4>. QED
        BY <1>1, <2>1, <4>1, <4>2, SnapshotMessages
    <3>. QED
      BY <1>5, <3>1, <3>2
  <2>3. \A d \in Calls : pc'[d] \in InSend => Messages(loc'[d].history) \subseteq Sent'
    BY <1>1, <2>1, <2>2 DEF SeenInv
  <2>4. \A id \in DOMAIN tasks' : Messages(tasks'[id].history) \subseteq Sent'
    BY <1>1, <2>1 DEF SeenInv
  <2>. QED
    BY <1>2, <1>3, <2>1, <2>3, <2>4 DEF SeenInv
<1>6. ASSUME NEW c \in Calls, NEW task \in Task, RecordStep(c, task) PROVE SeenInv'
  <2>0. PICK phase \in Done :
           pc' = [pc EXCEPT ![c] = phase] /\ loc' = [loc EXCEPT ![c] = loc'[c]]
    BY <1>6 DEF RecordStep, Leaves
  <2>1. /\ \A d \in Calls \ {c} : loc'[d] = loc[d] /\ pc'[d] = pc[d]
        /\ pc'[c] \notin InSend
    BY <1>0, <2>0 DEF Done, InSend
  <2>2. Messages(task.history) \subseteq Sent
    <3>1. /\ Messages(task.history) \subseteq Messages(loc[c].history) \cup {c}
          /\ pc[c] \in InSend
      BY <1>6 DEF RecordStep
    <3>2. Messages(loc[c].history) \subseteq Sent
      BY <3>1 DEF SeenInv
    <3>3. c \in Sent
      BY <3>1 DEF Sent, InSend
    <3>. QED
      BY <3>1, <3>2, <3>3
  <2>3. \A id \in DOMAIN tasks' : Messages(tasks'[id].history) \subseteq Sent
    <3>. SUFFICES ASSUME NEW id \in DOMAIN tasks' PROVE Messages(tasks'[id].history) \subseteq Sent
      OBVIOUS
    <3>1. (id \in DOMAIN tasks /\ tasks'[id] = tasks[id]) \/ tasks'[id] = task
      <4>1. RecordTask(loc[c].id, task)
        BY <1>6 DEF RecordStep
      <4>2. tasks'[id] = IF id = loc[c].id THEN task ELSE tasks[id]
        BY <4>1 DEF RecordTask, Put
      <4>3. id \in DOMAIN tasks \/ id = loc[c].id
        BY <4>1 DEF RecordTask, Put
      <4>. QED
        BY <4>2, <4>3
    <3>. QED
      BY <2>2, <3>1 DEF SeenInv
  <2>4. \A d \in Calls : pc'[d] \in InSend => Messages(loc'[d].history) \subseteq Sent
    BY <2>1 DEF SeenInv
  <2>5. \E d \in Calls : req'[d].ctx = task.ctx
    <3>1. PICK d \in Calls : task.ctx = req[d].ctx /\ d \in Sent
      <4>1. Effective(c) \in Calls /\ c \in Sent
        BY <1>0, <1>6, EffectiveType DEF RecordStep, InSend, Sent
      <4>2. Effective(c) \in Sent
        BY <4>1 DEF Effective, ApprovalInv, Sent
      <4>. QED
        BY <1>6, <4>1, <4>2 DEF RecordStep
    <3>. QED
      BY <1>1, <3>1
  <2>6. \A k \in DOMAIN tasksByContext' : \E d \in Calls : req'[d].ctx = k
    BY <1>0, <1>3, <1>6, <2>5, RecordedMaps DEF RecordStep
  <2>. QED
    BY <1>1, <1>2, <2>3, <2>4, <2>6 DEF SeenInv
<1>. QED
  BY <1>4, <1>5, <1>6, StepKinds

-----------------------------------------------------------------------------
(* Contexts.  Kept are the contexts that no task id can be mistaken for:   *)
(* the empty one too while no client uses a task id as a context.          *)
Kept == IF NoIdAsContext THEN Contexts \cup {NoContext} ELSE Contexts

(* What ties task id to context k: the index, the stored record, the call  *)
(* that will record it, or the stream that has announced it.               *)
Binds(id, k) ==
    \/ k \in DOMAIN tasksByContext /\ tasksByContext[k] = id
    \/ /\ id \in DOMAIN tasks
       /\ \/ tasks[id].ctx = k
          \/ \E x \in Messages(tasks[id].history) : req[x].ctx = k
    \/ \E c \in Calls :
          /\ pc[c] \in InSend /\ loc[c].id = id
          /\ \/ req[c].ctx = k
             \/ \E x \in Messages(loc[c].history) : req[x].ctx = k
    \/ \E c \in Calls : pc[c] = "opened" /\ preID[c] = id /\ req[c].ctx = k

(* A task that no client has named is tied to one context, and its id has  *)
(* been handed out.                                                        *)
IsolationInv ==
    \A id \in TaskIds : ~NamedByClient(id) =>
        \A k \in Kept : Binds(id, k) =>
            /\ id <= taskSeq
            /\ \A l \in Kept : Binds(id, l) => k = l

LEMMA KeptAndNamed ==
    ASSUME TypeInv, SeenInv, [Next]_vars
    PROVE  /\ Kept' \subseteq Kept
           /\ NoIdAsContext' => NoIdAsContext
           /\ \A id \in TaskIds : NamedByClient(id) => NamedByClient(id)'
<1>1. \A c \in Calls : req[c] = NoMessage \/ req'[c] = req[c]
  BY CallFrame DEF CallGoesOn, SeenInv
<1>2. NoMessage.ctx \notin TaskIds /\ NoMessage.taskID \notin TaskIds
  BY SentinelAssumption DEF NoMessage, Keys, TaskIds, NoTask
<1>3. NoIdAsContext' => NoIdAsContext
  BY <1>1, <1>2 DEF NoIdAsContext
<1>4. \A id \in TaskIds : NamedByClient(id) => NamedByClient(id)'
  BY <1>1, <1>2 DEF NamedByClient
<1>. QED
  BY <1>3, <1>4 DEF Kept

(* The context a task is recorded under is the one of the call that        *)
(* records it, also when it executes a message that another call sent.     *)
LEMMA SameContext ==
    ASSUME TypeInv, KeyInv, NEW c \in Calls, req[Effective(c)].ctx \in Kept
    PROVE  req[Effective(c)].ctx = req[c].ctx
<1>1. CASE took[c] = NoCall
  BY <1>1 DEF Effective
<1>2. CASE took[c] # NoCall
  <2>1. PICK e \in Calls : e = took[c] /\ e = Effective(c)
    BY <1>2, EffectiveType DEF Effective, TypeInv
  <2>2. /\ ApprovalKey(e) = ApprovalKey(c) /\ req[e].ctx \in Kept
        /\ loc[e].id \in Nat /\ loc[c].id \in Nat
        /\ req[c].ctx \in Keys \cup {NoContext}
    BY <1>2, <2>1 DEF KeyInv, TypeInv, TypeOK, Local, Message
  <2>3. CASE req[e].ctx \in Contexts
    BY <2>1, <2>2, <2>3, SentinelAssumption DEF ApprovalKey, Keys
  <2>4. CASE req[e].ctx = NoContext /\ NoIdAsContext
    <3>1. req[c].ctx \in Contexts \cup {NoContext}
      BY <2>2, <2>4 DEF NoIdAsContext, Keys
    <3>. QED
      BY <2>1, <2>2, <2>4, <3>1, SentinelAssumption DEF ApprovalKey
  <2>. QED
    BY <2>2, <2>3, <2>4 DEF Kept
<1>. QED
  BY <1>1, <1>2

LEMMA QuietBinds ==
    ASSUME TypeInv, SeenInv, [Next]_vars, QuietStep, NEW id \in TaskIds, NEW k, Binds(id, k)'
    PROVE  Binds(id, k)
<1>0. /\ \A c \in Calls : CallGoesOn(c)
      /\ \A c \in Sent : req'[c] = req[c]
  BY CallFrame DEF CallGoesOn, Sent
<1>1. CASE k \in DOMAIN tasksByContext' /\ tasksByContext'[k] = id
  BY <1>1 DEF Binds, QuietStep
<1>2. CASE /\ id \in DOMAIN tasks'
           /\ \/ tasks'[id].ctx = k
              \/ \E x \in Messages(tasks'[id].history) : req'[x].ctx = k
  BY <1>0, <1>2 DEF Binds, QuietStep, SeenInv
<1>3. ASSUME NEW c \in Calls, pc'[c] \in InSend, loc'[c].id = id,
             \/ req'[c].ctx = k
             \/ \E x \in Messages(loc'[c].history) : req'[x].ctx = k
      PROVE  Binds(id, k)
  <2>1. /\ pc[c] \in InSend /\ loc[c].id = id /\ loc'[c].history = loc[c].history /\ c \in Sent
        /\ Messages(loc[c].history) \subseteq Sent
    BY <1>3 DEF QuietStep, SeenInv, Sent, InSend
  <2>. QED
    BY <1>0, <1>3, <2>1 DEF Binds
<1>4. ASSUME NEW c \in Calls, pc'[c] = "opened", preID'[c] = id, req'[c].ctx = k
      PROVE  Binds(id, k)
  <2>1. pc[c] = "opened"
    BY <1>4 DEF QuietStep
  <2>. QED
    BY <1>0, <1>4, <2>1 DEF Binds, CallGoesOn
<1>. QED
  BY <1>1, <1>2, <1>3, <1>4 DEF Binds

LEMMA RecordBinds ==
    ASSUME TypeInv, SeenInv, KeyInv, [Next]_vars,
           NEW c \in Calls, NEW task \in Task, RecordStep(c, task),
           NEW id \in TaskIds, NEW k \in Kept, Binds(id, k)'
    PROVE  Binds(id, k)
<1>0. /\ TypeOK /\ \A d \in Calls : CallGoesOn(d)
      /\ \A d \in Sent : req'[d] = req[d]
      /\ pc \in [Calls -> Phases] /\ loc \in [Calls -> Local]
  BY CallFrame DEF CallGoesOn, Sent, TypeInv, TypeOK
<1>1. /\ pc[c] \in InSend /\ c \in Sent
      /\ RecordTask(loc[c].id, task)
      /\ Messages(task.history) \subseteq Messages(loc[c].history) \cup {c}
      /\ Messages(loc[c].history) \subseteq Sent
  BY DEF RecordStep, SeenInv, Sent, InSend
<1>2. task.ctx = k => req[c].ctx = k
  BY SameContext DEF RecordStep
<1>3. \A x \in Messages(task.history) : req'[x].ctx = k /\ loc[c].id = id => Binds(id, k)
  BY <1>0, <1>1 DEF Binds
<1>4. task.ctx = k /\ loc[c].id = id => Binds(id, k)
  BY <1>1, <1>2 DEF Binds
<1>5. /\ \A d \in Calls \ {c} : pc'[d] = pc[d] /\ loc'[d] = loc[d]
      /\ pc'[c] \notin InSend \cup {"opened"}
  BY <1>0 DEF RecordStep, Leaves, Done, InSend
<1>6. CASE k \in DOMAIN tasksByContext' /\ tasksByContext'[k] = id
  <2>1. (k = task.ctx /\ loc[c].id = id) \/ (k \in DOMAIN tasksByContext /\ tasksByContext[k] = id)
    BY <1>0, <1>1, <1>6, RecordedMaps
  <2>. QED
    BY <1>4, <2>1 DEF Binds
<1>7. CASE /\ id \in DOMAIN tasks'
           /\ \/ tasks'[id].ctx = k
              \/ \E x \in Messages(tasks'[id].history) : req'[x].ctx = k
  <2>1. tasks'[id] = IF id = loc[c].id THEN task ELSE tasks[id]
    <3>1. RecordTask(loc[c].id, task)
      BY <1>1
    <3>. QED
      BY <1>7, <3>1 DEF RecordTask, Put
  <2>2. id \in DOMAIN tasks \/ id = loc[c].id
    BY <1>1, <1>7 DEF RecordTask, Put
  <2>3. CASE id = loc[c].id
    BY <1>3, <1>4, <1>7, <2>1, <2>3
  <2>4. CASE id # loc[c].id
    <3>1. id \in DOMAIN tasks /\ tasks'[id] = tasks[id]
      BY <2>1, <2>2, <2>4
    <3>2. Messages(tasks[id].history) \subseteq Sent
      BY <3>1 DEF SeenInv
    <3>. QED
      BY <1>0, <1>7, <3>1, <3>2 DEF Binds
  <2>. QED
    BY <2>3, <2>4
<1>8. ASSUME NEW d \in Calls, pc'[d] \in InSend, loc'[d].id = id,
             \/ req'[d].ctx = k
             \/ \E x \in Messages(loc'[d].history) : req'[x].ctx = k
      PROVE  Binds(id, k)
  <2>1. d # c /\ pc[d] \in InSend /\ loc'[d] = loc[d] /\ d \in Sent
        /\ Messages(loc[d].history) \subseteq Sent
    BY <1>5, <1>8 DEF SeenInv, Sent, InSend
  <2>. QED
    BY <1>0, <1>8, <2>1 DEF Binds
<1>9. ASSUME NEW d \in Calls, pc'[d] = "opened", preID'[d] = id, req'[d].ctx = k
      PROVE  Binds(id, k)
  <2>1. pc[d] = "opened"
    BY <1>5, <1>9
  <2>. QED
    BY <1>0, <1>9, <2>1 DEF Binds, CallGoesOn
<1>. QED
  BY <1>6, <1>7, <1>8, <1>9 DEF Binds

LEMMA StartBinds ==
    ASSUME TypeInv, SeenInv, [Next]_vars,
           NEW c \in Calls, NEW m \in Requests, OpenStream(c, m) \/ Prepare(c, m),
           NEW id \in TaskIds, ~NamedByClient(id)', NEW k \in Kept, Binds(id, k)'
    PROVE  \/ Binds(id, k)
           \/ id = NextId /\ taskSeq' = NextId /\ k = m.ctx
<1>. DEFINE Fresh == id = NextId /\ taskSeq' = NextId /\ k = m.ctx
<1>0. /\ TypeOK /\ \A d \in Calls : CallGoesOn(d)
      /\ \A d \in Sent : req'[d] = req[d]
      /\ pc \in [Calls -> Phases] /\ loc \in [Calls -> Local]
      /\ req \in [Calls -> Message] /\ preID \in [Calls -> Nat]
      /\ m \in Message
  BY CallFrame, RequestsAssumption DEF CallGoesOn, Sent, TypeInv, TypeOK
<1>1. /\ UNCHANGED <<tasks, tasksByContext>>
      /\ req'[c] = m
      /\ \A d \in Calls \ {c} : pc'[d] = pc[d] /\ loc'[d] = loc[d]
                                /\ preID'[d] = preID[d] /\ req'[d] = req[d]
  BY <1>0 DEF OpenStream, Prepare
<1>2. \A d \in Calls : id \in DOMAIN tasks =>
         Messages(tasks[id].history) \subseteq Sent
  BY DEF SeenInv
<1>k. k \notin TaskIds
  BY SentinelAssumption DEF Kept, NoIdAsContext, TaskIds, Keys
<1>3. CASE \/ k \in DOMAIN tasksByContext' /\ tasksByContext'[k] = id
           \/ /\ id \in DOMAIN tasks'
              /\ \/ tasks'[id].ctx = k
                 \/ \E x \in Messages(tasks'[id].history) : req'[x].ctx = k
  BY <1>0, <1>1, <1>2, <1>3 DEF Binds
<1>4. ASSUME NEW d \in Calls \ {c},
             \/ /\ pc'[d] \in InSend /\ loc'[d].id = id
                /\ \/ req'[d].ctx = k
                   \/ \E x \in Messages(loc'[d].history) : req'[x].ctx = k
             \/ pc'[d] = "opened" /\ preID'[d] = id /\ req'[d].ctx = k
      PROVE  Binds(id, k)
  <2>1. pc[d] \in InSend => Messages(loc[d].history) \subseteq Sent
    BY DEF SeenInv
  <2>. QED
    BY <1>0, <1>1, <1>4, <2>1 DEF Binds
<1>5. ASSUME pc'[c] = "opened", preID'[c] = id, req'[c].ctx = k
      PROVE  Binds(id, k) \/ Fresh
  <2>1. OpenStream(c, m)
    BY <1>0, <1>5 DEF Prepare
  <2>2. CASE StreamTask(m.ctx) = NoTask
    BY <1>0, <1>1, <1>5, <2>1, <2>2 DEF OpenStream
  <2>3. CASE StreamTask(m.ctx) # NoTask
    <3>1. id = StreamTask(k)
      BY <1>0, <1>1, <1>5, <2>1, <2>3 DEF OpenStream
    <3>2. k \notin DOMAIN tasks
      BY <1>0, <1>k DEF TypeOK
    <3>. QED
      BY <1>1, <1>5, <2>3, <3>1, <3>2 DEF StreamTask, Binds
  <2>. QED
    BY <2>2, <2>3
<1>6. ASSUME pc'[c] \in InSend, loc'[c].id = id,
             \/ req'[c].ctx = k
             \/ \E x \in Messages(loc'[c].history) : req'[x].ctx = k
      PROVE  Binds(id, k) \/ Fresh
  <2>1. Prepare(c, m)
    BY <1>0, <1>6 DEF OpenStream, InSend
  <2>. DEFINE t == Existing(m.ctx)
  <2>2. /\ loc'[c].id = Snapshot(c, m).id
        /\ Messages(loc'[c].history) \subseteq {c} \cup
              (IF t = NoTask THEN {} ELSE Messages(tasks[t].history))
    BY <1>0, <2>1, SnapshotMessages DEF Prepare
  <2>3. id = CASE t # NoTask -> t
               [] t = NoTask /\ NamedID(c, m) # NoTask -> NamedID(c, m)
               [] OTHER -> NextId
    BY <1>6, <2>2 DEF Snapshot
  <2>4. m.ctx = k \/ (t # NoTask /\ \E x \in Messages(tasks[t].history) : req'[x].ctx = k)
    BY <1>1, <1>6, <2>2
  <2>5. CASE t # NoTask
    <3>1. id = t /\ t \in DOMAIN tasks
      BY <1>0, <2>3, <2>5, ExistingType
    <3>2. CASE m.ctx = k
      <4>1. k \notin DOMAIN tasks
        BY <1>0, <1>k DEF TypeOK
      <4>. QED
        BY <2>5, <3>1, <3>2, <4>1 DEF Existing, Binds
    <3>3. CASE \E x \in Messages(tasks[t].history) : req'[x].ctx = k
      BY <1>0, <1>2, <3>1, <3>3 DEF Binds
    <3>. QED
      BY <2>4, <3>2, <3>3
  <2>6. CASE t = NoTask
    <3>1. m.ctx = k
      BY <2>4, <2>6
    <3>2. CASE NamedID(c, m) # NoTask
      <4>1. id = NamedID(c, m)
        BY <2>3, <2>6, <3>2
      <4>2. CASE ~m.stream
        BY <1>1, <4>1, <4>2 DEF NamedID, NamedByClient
      <4>3. CASE m.stream
        <5>1. pc[c] = "opened" /\ req[c] = m /\ preID[c] = id
          BY <2>1, <4>1, <4>3 DEF Prepare, Starts, NamedID
        <5>. QED
          BY <3>1, <5>1 DEF Binds
      <4>. QED
        BY <4>2, <4>3
    <3>3. CASE NamedID(c, m) = NoTask
      <4>1. id = NextId
        BY <2>3, <2>6, <3>3
      <4>. QED
        BY <2>1, <2>6, <3>1, <3>3, <4>1 DEF Prepare
    <3>. QED
      BY <3>2, <3>3
  <2>. QED
    BY <2>5, <2>6
<1>. HIDE DEF Fresh
<1>7. \/ \/ k \in DOMAIN tasksByContext' /\ tasksByContext'[k] = id
         \/ /\ id \in DOMAIN tasks'
            /\ \/ tasks'[id].ctx = k
               \/ \E x \in Messages(tasks'[id].history) : req'[x].ctx = k
      \/ \E d \in Calls :
            \/ /\ pc'[d] \in InSend /\ loc'[d].id = id
               /\ \/ req'[d].ctx = k
                  \/ \E x \in Messages(loc'[d].history) : req'[x].ctx = k
            \/ pc'[d] = "opened" /\ preID'[d] = id /\ req'[d].ctx = k
  BY DEF Binds
<1>8. ASSUME NEW d \in Calls,
             \/ /\ pc'[d] \in InSend /\ loc'[d].id = id
                /\ \/ req'[d].ctx = k
                   \/ \E x \in Messages(loc'[d].history) : req'[x].ctx = k
             \/ pc'[d] = "opened" /\ preID'[d] = id /\ req'[d].ctx = k
      PROVE  Binds(id, k) \/ Fresh
  <2>1. CASE d = c
    BY <1>5, <1>6, <1>8, <2>1
  <2>2. CASE d # c
    BY <1>4, <1>8, <2>2
  <2>. QED
    BY <2>1, <2>2
<1>9. Binds(id, k) \/ Fresh
  <2>1. CASE \/ k \in DOMAIN tasksByContext' /\ tasksByContext'[k] = id
             \/ /\ id \in DOMAIN tasks'
                /\ \/ tasks'[id].ctx = k
                   \/ \E x \in Messages(tasks'[id].history) : req'[x].ctx = k
    BY <1>3, <2>1 DEF Fresh
  <2>2. CASE \E d \in Calls :
                \/ /\ pc'[d] \in InSend /\ loc'[d].id = id
                   /\ \/ req'[d].ctx = k
                      \/ \E x \in Messages(loc'[d].history) : req'[x].ctx = k
                \/ pc'[d] = "opened" /\ preID'[d] = id /\ req'[d].ctx = k
    BY <1>8, <2>2
  <2>. QED
    BY <1>7, <2>1, <2>2
<1>. QED
  BY <1>9 DEF Fresh

LEMMA IsolationNext ==
    ASSUME TypeInv, SeenInv, KeyInv, IsolationInv, [Next]_vars
    PROVE  IsolationInv'
<1>. SUFFICES ASSUME NEW id \in TaskIds, ~NamedByClient(id)',
                     NEW k \in Kept', Binds(id, k)'
              PROVE  /\ id <= taskSeq'
                     /\ \A l \in Kept' : Binds(id, l)' => k = l
  BY DEF IsolationInv
<1>1. /\ ~NamedByClient(id) /\ Kept' \subseteq Kept
      /\ taskSeq \in Nat /\ id \in Nat
  BY KeptAndNamed DEF TypeInv, TypeOK, TaskIds
<1>2. \A a \in Kept : Binds(id, a) =>
         id <= taskSeq /\ \A b \in Kept : Binds(id, b) => a = b
  BY <1>1 DEF IsolationInv
<1>3. CASE QuietStep
  <2>1. taskSeq' = taskSeq /\ \A a \in Kept' : Binds(id, a)' => Binds(id, a)
    BY <1>3, QuietBinds DEF QuietStep
  <2>. QED
    BY <1>1, <1>2, <2>1
<1>4. ASSUME NEW c \in Calls, NEW task \in Task, RecordStep(c, task)
      PROVE  /\ id <= taskSeq'
             /\ \A l \in Kept' : Binds(id, l)' => k = l
  <2>1. taskSeq' = taskSeq /\ \A a \in Kept' : Binds(id, a)' => Binds(id, a)
    BY <1>1, <1>4, RecordBinds DEF RecordStep
  <2>. QED
    BY <1>1, <1>2, <2>1
<1>5. ASSUME NEW c \in Calls, NEW m \in Requests, OpenStream(c, m) \/ Prepare(c, m)
      PROVE  /\ id <= taskSeq'
             /\ \A l \in Kept' : Binds(id, l)' => k = l
  <2>1. \A a \in Kept' : Binds(id, a)' =>
           Binds(id, a) \/ (id = NextId /\ taskSeq' = NextId /\ a = m.ctx)
    BY <1>1, <1>5, StartBinds
  <2>2. taskSeq' = taskSeq \/ taskSeq' = NextId
    BY <1>5 DEF OpenStream, Prepare
  <2>. QED
    BY <1>1, <1>2, <2>1, <2>2 DEF NextId
<1>. QED
  BY <1>3, <1>4, <1>5, StepKinds

(* The index: the record it leads to can only be overwritten by a call of  *)
(* the same context, and the sweep drops the two together.                 *)
LEMMA IndexNext ==
    ASSUME TypeInv, SeenInv, KeyInv, IsolationInv, IndexedTaskExists, [Next]_vars
    PROVE  IndexedTaskExists'
<1>. SUFFICES ASSUME NoIdAsContext', NEW k \in DOMAIN tasksByContext',
                     NEW id, id = tasksByContext'[k], ~NamedByClient(id)'
              PROVE  id \in DOMAIN tasks' /\ tasks'[id].ctx = k
  BY DEF IndexedTaskExists
<1>0. /\ TypeOK /\ NoIdAsContext
      /\ DOMAIN tasksByContext \subseteq Keys
      /\ \A j \in DOMAIN tasksByContext : tasksByContext[j] \in TaskIds
      /\ \A i \in TaskIds : NamedByClient(i) => NamedByClient(i)'
  BY KeptAndNamed DEF TypeInv, TypeOK
<1>1. \A j \in DOMAIN tasksByContext : j \in Kept /\ j # NoContext
  BY <1>0, SentinelAssumption DEF SeenInv, NoIdAsContext, Kept, Keys
<1>2. ASSUME k \in DOMAIN tasksByContext, tasksByContext[k] = id
      PROVE  /\ id \in TaskIds /\ id \in DOMAIN tasks /\ tasks[id].ctx = k
             /\ ~NamedByClient(id) /\ Binds(id, k)
  BY <1>0, <1>2 DEF IndexedTaskExists, Binds
<1>3. CASE QuietStep
  <2>1. k \in DOMAIN tasksByContext /\ tasksByContext[k] = id
    BY <1>3 DEF QuietStep
  <2>. QED
    BY <1>1, <1>2, <1>3, <2>1 DEF QuietStep
<1>4. ASSUME NEW c \in Calls, NEW task \in Task, RecordStep(c, task)
      PROVE  id \in DOMAIN tasks' /\ tasks'[id].ctx = k
  <2>1. /\ pc[c] \in InSend /\ RecordTask(loc[c].id, task)
        /\ task.ctx \in {req[c].ctx, req[Effective(c)].ctx}
        /\ task.ctx \in Keys \cup {NoContext}
    BY <1>4 DEF RecordStep, Task
  <2>2. /\ DOMAIN tasks' = DOMAIN tasks \cup {loc[c].id}
        /\ \A i \in DOMAIN tasks' : tasks'[i] = IF i = loc[c].id THEN task ELSE tasks[i]
    BY <2>1 DEF RecordTask, Put
  <2>3. CASE k = task.ctx /\ id = loc[c].id
    BY <2>2, <2>3
  <2>4. CASE k # task.ctx /\ k \in DOMAIN tasksByContext /\ tasksByContext[k] = id
    <3>1. id # loc[c].id
      <4>1. SUFFICES ASSUME id = loc[c].id PROVE FALSE
        OBVIOUS
      <4>2. task.ctx \in Kept
        <5>1. \A d \in Calls : req[d].ctx \in Contexts \cup {NoContext}
          BY <1>0 DEF NoIdAsContext, TypeOK, Message, Keys
        <5>2. Effective(c) \in Calls
          BY <1>0, EffectiveType
        <5>. QED
          BY <1>0, <2>1, <5>1, <5>2 DEF Kept
      <4>3. task.ctx = req[c].ctx
        BY <2>1, <4>2, SameContext
      <4>4. Binds(id, task.ctx)
        BY <2>1, <4>1, <4>3 DEF Binds
      <4>. QED
        BY <1>1, <1>2, <2>4, <4>2, <4>4 DEF IsolationInv
    <3>. QED
      BY <1>2, <2>2, <2>4, <3>1
  <2>5. \/ k = task.ctx /\ k # NoContext /\ tasksByContext'[k] = loc[c].id
        \/ k # task.ctx /\ k \in DOMAIN tasksByContext /\ tasksByContext'[k] = tasksByContext[k]
    <3>1. TypeOK /\ RecordTask(loc[c].id, task)
      BY <1>0, <2>1
    <3>. QED
      BY <3>1, RecordedMaps
  <2>. QED
    BY <2>3, <2>4, <2>5
<1>5. ASSUME NEW c \in Calls, NEW m \in Requests, OpenStream(c, m) \/ Prepare(c, m)
      PROVE  id \in DOMAIN tasks' /\ tasks'[id].ctx = k
  <2>1. UNCHANGED <<tasks, tasksByContext>>
    BY <1>5 DEF OpenStream, Prepare
  <2>. QED
    BY <1>2, <2>1
<1>. QED
  BY <1>3, <1>4, <1>5, StepKinds

ContextInv ==
    TypeInv /\ ApprovalInv /\ KeyInv /\ SeenInv /\ IsolationInv /\ IndexedTaskExists

LEMMA ContextInit == Init => ContextInv
<1>. SUFFICES ASSUME Init PROVE ContextInv
  OBVIOUS
<1>1. TypeInv /\ ApprovalInv
  BY TypeInit, ApprovalInit
<1>2. DOMAIN <<>> = {}
  OBVIOUS
<1>3. /\ DOMAIN tasks = {} /\ DOMAIN tasksByContext = {} /\ DOMAIN pendingApprovals = {}
      /\ \A c \in Calls : /\ pc[c] = "idle" /\ req[c] = NoMessage /\ took[c] = NoCall
  BY <1>2 DEF Init
<1>4. KeyInv /\ SeenInv /\ IndexedTaskExists
  BY <1>3 DEF KeyInv, SeenInv, IndexedTaskExists, InSend
<1>5. IsolationInv
  BY <1>3 DEF IsolationInv, Binds, InSend
<1>. QED
  BY <1>1, <1>4, <1>5 DEF ContextInv

LEMMA ContextsKept == Spec => []ContextInv
<1>1. ContextInv /\ [Next]_vars => ContextInv'
  BY TypeNext, ApprovalNext, KeyNext, SeenNext, IsolationNext, IndexNext DEF ContextInv
<1>. QED
  BY <1>1, ContextInit, PTL DEF Spec

(* No task mixes two clients' contexts, for any number of calls and any    *)
(* interleaving of sends, streams, approvals, cancellations and sweeps.    *)
THEOREM ContextsStayApart == Spec => []ContextsIsolated
<1>1. ContextInv => ContextsIsolated
  <2>. SUFFICES ASSUME ContextInv, NEW id \in DOMAIN tasks, ~NamedByClient(id),
                       NEW i \in 1..Len(tasks[id].history), NEW j \in 1..Len(tasks[id].history),
                       req[tasks[id].history[i]].ctx \in Contexts,
                       req[tasks[id].history[j]].ctx \in Contexts
                PROVE  req[tasks[id].history[i]].ctx = req[tasks[id].history[j]].ctx
    BY DEF ContextsIsolated
  <2>. DEFINE k == req[tasks[id].history[i]].ctx
              l == req[tasks[id].history[j]].ctx
  <2>1. id \in TaskIds /\ k \in Kept /\ l \in Kept
    BY DEF ContextInv, TypeInv, TypeOK, Kept
  <2>2. Binds(id, k) /\ Binds(id, l)
    BY DEF Binds, Messages
  <2>. QED
    BY <2>1, <2>2 DEF ContextInv, IsolationInv
<1>. QED
  BY <1>1, ContextsKept, PTL

(* The index never dangles while no task id is used as a context id,       *)
(* although the sweep, the cancellations and the sends write both maps.    *)
THEOREM IndexIsSound == Spec => []IndexedTaskExists
<1>1. ContextInv => IndexedTaskExists
  BY DEF ContextInv
<1>. QED
  BY <1>1, ContextsKept, PTL

-----------------------------------------------------------------------------
(* One Send at a time.  What the documentation says of continued contexts  *)
(* and of approvals is refuted by two overlapping Sends; it holds when     *)
(* MaxInFlight = 1, as long as a context that is a task id leads to that   *)
(* task: no client guesses an id before it is handed out, nor uses one     *)
(* once its task is gone.                                                  *)
NoIdGuessed ==
    \A n \in DOMAIN tasksByContext \cap TaskIds : tasksByContext[n] = n

OneInFlight ==
    /\ MaxInFlight = 1
    /\ \A c, d \in Calls : pc[c] \in InFlight /\ pc[d] \in InFlight => c = d

(* The stored task of a context is the one the index leads to. *)
SoleTask ==
    \A id \in DOMAIN tasks : tasks[id].ctx # NoContext =>
        /\ tasks[id].ctx \in DOMAIN tasksByContext
        /\ tasksByContext[tasks[id].ctx] = id

(* A pause in the table is stored, and no older than its record. *)
PendingStored ==
    \A k \in DOMAIN pendingApprovals, e \in Calls : pendingApprovals[k].msg = e =>
        /\ pendingApprovals[k].createdAt <= now
        /\ loc[e].id \in DOMAIN tasks
        /\ tasks[loc[e].id].lastActivity >= pendingApprovals[k].createdAt
        /\ req[e].ctx # NoContext => k \in DOMAIN tasksByContext /\ tasksByContext[k] = loc[e].id

(* The Send that runs works on the stored task of its context, and on the  *)
(* task of the pause that stands under its key.                            *)
FlightInv ==
    \A c \in Calls : pc[c] \in InSend =>
        /\ \A id \in DOMAIN tasks :
              tasks[id].ctx = req[c].ctx /\ req[c].ctx # NoContext => id = loc[c].id
        /\ \A k \in DOMAIN pendingApprovals :
              pendingApprovals[k].createdAt <= loc[c].lastActivity
        /\ \A k \in DOMAIN pendingApprovals, e \in Calls :
              pendingApprovals[k].msg = e /\ ApprovalKey(c) = k => loc[e].id = loc[c].id

ResumesPaused == \A c, e \in Calls : took[c] = e => loc[c].id = loc[e].id

SerialInv ==
    OneInFlight /\ SoleTask /\ PendingStored /\ FlightInv /\ ResumesPaused

LEMMA OneInFlightNext ==
    ASSUME TypeInv, OneInFlight, [Next]_vars
    PROVE  OneInFlight'
<1>0. pc \in [Calls -> Phases]
  BY DEF TypeInv, TypeOK
<1>1. ASSUME HasRoom, NEW c \in Calls PROVE pc[c] \notin InFlight
  <2>. DEFINE S == {d \in Calls : pc[d] \in InFlight}
  <2>1. SUFFICES ASSUME pc[c] \in InFlight PROVE FALSE
    OBVIOUS
  <2>2. S = {c}
    BY <2>1 DEF OneInFlight
  <2>3. Cardinality(S) = 1
    BY <2>2, FS_Singleton
  <2>. QED
    BY <1>1, <2>3 DEF HasRoom, OneInFlight
<1>2. \/ \A c \in Calls : pc'[c] \in InFlight => pc[c] \in InFlight
      \/ HasRoom /\ \E c \in Calls : \A d \in Calls \ {c} : pc'[d] = pc[d]
  <2>1. ASSUME NEW c \in Calls, NEW m \in Requests,
               OpenStream(c, m) \/ RefuseRole(c, m) \/ Prepare(c, m)
        PROVE  \/ \A d \in Calls : pc'[d] \in InFlight => pc[d] \in InFlight
               \/ HasRoom /\ \A d \in Calls \ {c} : pc'[d] = pc[d]
    BY <1>0, <2>1 DEF OpenStream, RefuseRole, Prepare, Starts, InFlight
  <2>2. ASSUME NEW c \in Calls, Hitl(c) \/ Record(c) \/ Announce(c) \/ \E final \in Outcomes : Execute(c, final)
        PROVE  \A d \in Calls : pc'[d] \in InFlight => pc[d] \in InFlight
    <3>1. pc[c] \in InFlight /\ \E phase \in Phases : pc' = [pc EXCEPT ![c] = phase]
      BY <2>2 DEF Hitl, Approve, Reject, RefuseUndecided, RefuseAnswer, RefuseExpired, Pause,
                  Proceed, Record, Announce, Execute, Return, InFlight, Phases
    <3>. QED
      BY <1>0, <3>1
  <2>3. CASE UNCHANGED pc
    BY <2>3
  <2>. QED
    BY <2>1, <2>2, <2>3 DEF Next, Send, Cancel, Sweep, Tick, vars
<1>. QED
  BY <1>0, <1>1, <1>2 DEF OneInFlight

(* After a record no Send is in flight. *)
LEMMA RecordedAlone ==
    ASSUME TypeInv, OneInFlight, NEW c \in Calls, NEW task \in Task, RecordStep(c, task)
    PROVE  \A d \in Calls : pc'[d] \notin InSend
<1>1. PICK phase \in Done : pc' = [pc EXCEPT ![c] = phase]
  BY DEF RecordStep, Leaves
<1>2. pc \in [Calls -> Phases] /\ pc[c] \in InSend /\ pc' = [pc EXCEPT ![c] = phase]
  BY <1>1 DEF RecordStep, TypeInv, TypeOK
<1>. QED
  BY <1>2 DEF OneInFlight, InSend, InFlight, Done

(* What a recording call leaves under the context it records.              *)
LEMMA RecordsItsContext ==
    ASSUME TypeInv, KeyInv, SerialInv, NoIdGuessed,
           NEW c \in Calls, NEW task \in Task, RecordStep(c, task), task.ctx # NoContext
    PROVE  /\ ApprovalKey(c) = task.ctx
           /\ \A id \in DOMAIN tasks : tasks[id].ctx = task.ctx => id = loc[c].id
<1>0. /\ pc[c] \in InSend /\ task.ctx \in {req[c].ctx, req[Effective(c)].ctx}
      /\ task.ctx \in Keys /\ loc[c].id \in Nat
  BY SentinelAssumption DEF RecordStep, TypeInv, TypeOK, Local, Task
<1>1. ApprovalKey(c) = task.ctx
  <2>1. CASE task.ctx = req[c].ctx
    BY <2>1 DEF ApprovalKey
  <2>2. CASE took[c] # NoCall /\ task.ctx = req[took[c]].ctx
    BY <2>2 DEF KeyInv, ApprovalKey
  <2>. QED
    BY <1>0, <2>1, <2>2 DEF Effective
<1>2. ASSUME NEW id \in DOMAIN tasks, tasks[id].ctx = task.ctx PROVE id = loc[c].id
  <2>1. CASE req[c].ctx = task.ctx
    BY <1>0, <1>2, <2>1 DEF SerialInv, FlightInv
  <2>2. CASE req[c].ctx # task.ctx
    <3>1. loc[c].id = task.ctx
      BY <1>1, <2>2 DEF ApprovalKey
    <3>2. task.ctx \in TaskIds
      BY <1>0, <3>1, SentinelAssumption DEF Keys
    <3>. QED
      BY <1>2, <3>1, <3>2 DEF SerialInv, SoleTask, NoIdGuessed
  <2>. QED
    BY <2>1, <2>2
<1>. QED
  BY <1>1, <1>2

LEMMA SoleTaskNext ==
    ASSUME TypeInv, KeyInv, SerialInv, NoIdGuessed, [Next]_vars
    PROVE  SoleTask'
<1>. SUFFICES ASSUME NEW id \in DOMAIN tasks', NEW k, k = tasks'[id].ctx, k # NoContext
              PROVE  k \in DOMAIN tasksByContext' /\ tasksByContext'[k] = id
  BY DEF SoleTask
<1>1. CASE QuietStep
  <2>1. id \in DOMAIN tasks /\ k = tasks[id].ctx
    BY <1>1 DEF QuietStep
  <2>2. k \in DOMAIN tasksByContext /\ tasksByContext[k] = id
    BY <2>1 DEF SerialInv, SoleTask
  <2>3. ASSUME k \notin DOMAIN tasksByContext' PROVE FALSE
    <3>1. PICK i \in DOMAIN tasks \ DOMAIN tasks' : tasks[i].ctx = k
      BY <1>1, <2>2, <2>3 DEF QuietStep
    <3>. QED
      BY <2>2, <3>1 DEF SerialInv, SoleTask
  <2>. QED
    BY <1>1, <2>2, <2>3 DEF QuietStep
<1>2. ASSUME NEW c \in Calls, NEW m \in Requests, OpenStream(c, m) \/ Prepare(c, m)
      PROVE  k \in DOMAIN tasksByContext' /\ tasksByContext'[k] = id
  <2>1. UNCHANGED <<tasks, tasksByContext>>
    BY <1>2 DEF OpenStream, Prepare
  <2>. QED
    BY <2>1 DEF SerialInv, SoleTask
<1>3. ASSUME NEW c \in Calls, NEW task \in Task, RecordStep(c, task)
      PROVE  k \in DOMAIN tasksByContext' /\ tasksByContext'[k] = id
  <2>1. /\ tasks' = Put(tasks, loc[c].id, task)
        /\ tasksByContext' = IF task.ctx = NoContext THEN tasksByContext
                             ELSE Put(tasksByContext, task.ctx, loc[c].id)
    BY <1>3 DEF RecordStep, RecordTask
  <2>2. CASE id = loc[c].id
    BY <2>1, <2>2 DEF Put
  <2>3. CASE id # loc[c].id
    <3>1. id \in DOMAIN tasks /\ tasks[id].ctx = k
      BY <2>1, <2>3 DEF Put
    <3>2. k # task.ctx
      BY <1>3, <2>3, <3>1, RecordsItsContext
    <3>3. k \in DOMAIN tasksByContext /\ tasksByContext[k] = id
      BY <3>1 DEF SerialInv, SoleTask
    <3>. QED
      BY <2>1, <3>2, <3>3 DEF Put
  <2>. QED
    BY <2>2, <2>3
<1>. QED
  BY <1>1, <1>2, <1>3, StepKinds

LEMMA PendingStoredNext ==
    ASSUME TypeInv, ApprovalInv, KeyInv, SerialInv, NoIdGuessed, [Next]_vars
    PROVE  PendingStored'
<1>. SUFFICES ASSUME NEW k \in DOMAIN pendingApprovals', NEW e \in Calls,
                     pendingApprovals'[k].msg = e
              PROVE  /\ pendingApprovals'[k].createdAt <= now'
                     /\ loc'[e].id \in DOMAIN tasks'
                     /\ tasks'[loc'[e].id].lastActivity >= pendingApprovals'[k].createdAt
                     /\ req'[e].ctx # NoContext =>
                           k \in DOMAIN tasksByContext' /\ tasksByContext'[k] = loc'[e].id
  BY DEF PendingStored
<1>0. /\ \A c \in Calls : CallGoesOn(c)
      /\ pc \in [Calls -> Phases] /\ loc \in [Calls -> Local] /\ req \in [Calls -> Message]
      /\ now \in Nat /\ now' \in Nat
      /\ \A id \in DOMAIN tasks : tasks[id].lastActivity \in Nat
      /\ \A j \in DOMAIN pendingApprovals : pendingApprovals[j].createdAt \in Nat
  BY CallFrame, TypeNext DEF TypeInv, TypeOK, Task
<1>1. ASSUME k \in DOMAIN pendingApprovals, pendingApprovals'[k] = pendingApprovals[k]
      PROVE  /\ pc[e] = "paused" /\ loc'[e] = loc[e] /\ req'[e] = req[e] /\ ApprovalKey(e) = k
             /\ pendingApprovals[k].createdAt <= now
             /\ loc[e].id \in DOMAIN tasks
             /\ tasks[loc[e].id].lastActivity >= pendingApprovals[k].createdAt
             /\ req[e].ctx # NoContext => k \in DOMAIN tasksByContext /\ tasksByContext[k] = loc[e].id
  <2>1. pc[e] = "paused"
    BY <1>1 DEF ApprovalInv
  <2>2. loc'[e] = loc[e] /\ req'[e] = req[e]
    BY <1>0, <2>1 DEF CallGoesOn, Done
  <2>. QED
    BY <1>1, <2>1, <2>2 DEF KeyInv, SerialInv, PendingStored
<1>2. CASE QuietStep
  <2>1. k \in DOMAIN pendingApprovals /\ pendingApprovals'[k] = pendingApprovals[k] /\ now' >= now
    BY <1>2 DEF QuietStep
  <2>. DEFINE id == loc[e].id
  <2>2. id \in DOMAIN tasks'
    BY <1>1, <1>2, <2>1 DEF QuietStep
  <2>3. tasks'[id] = tasks[id] \/ tasks'[id].lastActivity = now
    BY <1>2, <2>2 DEF QuietStep
  <2>4. k \in DOMAIN tasksByContext =>
           k \in DOMAIN tasksByContext' /\ tasksByContext'[k] = tasksByContext[k]
    BY <1>2 DEF QuietStep
  <2>. QED
    BY <1>0, <1>1, <2>1, <2>2, <2>3, <2>4
<1>3. ASSUME NEW c \in Calls, NEW m \in Requests, OpenStream(c, m) \/ Prepare(c, m)
      PROVE  /\ pendingApprovals'[k].createdAt <= now'
             /\ loc'[e].id \in DOMAIN tasks'
             /\ tasks'[loc'[e].id].lastActivity >= pendingApprovals'[k].createdAt
             /\ req'[e].ctx # NoContext =>
                   k \in DOMAIN tasksByContext' /\ tasksByContext'[k] = loc'[e].id
  <2>1. UNCHANGED <<tasks, tasksByContext, pendingApprovals, now>>
    BY <1>3 DEF OpenStream, Prepare
  <2>. QED
    BY <1>1, <2>1
<1>4. ASSUME NEW c \in Calls, NEW task \in Task, RecordStep(c, task)
      PROVE  /\ pendingApprovals'[k].createdAt <= now'
             /\ loc'[e].id \in DOMAIN tasks'
             /\ tasks'[loc'[e].id].lastActivity >= pendingApprovals'[k].createdAt
             /\ req'[e].ctx # NoContext =>
                   k \in DOMAIN tasksByContext' /\ tasksByContext'[k] = loc'[e].id
  <2>1. /\ tasks' = Put(tasks, loc[c].id, task)
        /\ tasksByContext' = IF task.ctx = NoContext THEN tasksByContext
                             ELSE Put(tasksByContext, task.ctx, loc[c].id)
        /\ now' = now /\ pc[c] \in InSend
        /\ task.lastActivity \in {loc[c].lastActivity, now}
    BY <1>4 DEF RecordStep, RecordTask
  <2>2. CASE k \in DOMAIN pendingApprovals /\ pendingApprovals'[k] = pendingApprovals[k]
    <3>1. /\ pendingApprovals[k].createdAt <= loc[c].lastActivity
          /\ ApprovalKey(c) = k => loc[e].id = loc[c].id
      BY <2>1, <2>2 DEF SerialInv, FlightInv
    <3>2. /\ loc[e].id \in DOMAIN tasks'
          /\ tasks'[loc[e].id].lastActivity >= pendingApprovals[k].createdAt
      BY <1>1, <2>1, <2>2, <3>1 DEF Put
    <3>3. task.ctx = k /\ k # NoContext => loc[e].id = loc[c].id
      BY <1>4, <3>1, RecordsItsContext
    <3>4. req[e].ctx # NoContext => k \in DOMAIN tasksByContext' /\ tasksByContext'[k] = loc[e].id
      BY <1>1, <2>1, <2>2, <3>3 DEF Put
    <3>. QED
      BY <1>1, <2>1, <2>2, <3>2, <3>4
  <2>3. CASE /\ k = ApprovalKey(c) /\ pendingApprovals'[k] = [msg |-> c, createdAt |-> now]
             /\ task.ctx = req[c].ctx /\ task.lastActivity = now
    <3>1. e = c /\ loc'[c].id = loc[c].id /\ req'[c] = req[c] /\ pendingApprovals'[k].createdAt = now
      BY <1>0, <2>1, <2>3 DEF CallGoesOn, InSend
    <3>2. tasks'[loc[c].id] = task /\ loc[c].id \in DOMAIN tasks'
      BY <2>1 DEF Put
    <3>3. req[c].ctx # NoContext => k \in DOMAIN tasksByContext' /\ tasksByContext'[k] = loc[c].id
      BY <2>1, <2>3 DEF Put, ApprovalKey
    <3>. QED
      BY <1>0, <2>1, <2>3, <3>1, <3>2, <3>3
  <2>. QED
    BY <1>4, <2>2, <2>3 DEF RecordStep
<1>. QED
  BY <1>2, <1>3, <1>4, StepKinds

LEMMA FlightNext ==
    ASSUME TypeInv, ApprovalInv, KeyInv, SerialInv, NoIdGuessed, [Next]_vars
    PROVE  FlightInv'
<1>. SUFFICES ASSUME NEW c \in Calls, pc'[c] \in InSend
              PROVE  /\ \A id \in DOMAIN tasks' :
                           tasks'[id].ctx = req'[c].ctx /\ req'[c].ctx # NoContext => id = loc'[c].id
                     /\ \A k \in DOMAIN pendingApprovals' :
                           pendingApprovals'[k].createdAt <= loc'[c].lastActivity
                     /\ \A k \in DOMAIN pendingApprovals', e \in Calls :
                           pendingApprovals'[k].msg = e /\ ApprovalKey(c)' = k => loc'[e].id = loc'[c].id
  BY DEF FlightInv
<1>0. /\ TypeOK /\ \A d \in Calls : CallGoesOn(d)
      /\ pc \in [Calls -> Phases] /\ loc \in [Calls -> Local] /\ req \in [Calls -> Message]
      /\ \A k \in DOMAIN pendingApprovals : pendingApprovals[k].msg \in Calls
      /\ OneInFlight'
  BY CallFrame, OneInFlightNext DEF TypeInv, TypeOK, SerialInv
<1>1. \A k \in DOMAIN pendingApprovals, e \in Calls : pendingApprovals[k].msg = e =>
         /\ pc[e] = "paused" /\ loc'[e] = loc[e] /\ req'[e] = req[e] /\ ApprovalKey(e) = k
         /\ pendingApprovals[k].createdAt <= now
         /\ loc[e].id \in DOMAIN tasks
         /\ req[e].ctx # NoContext => k \in DOMAIN tasksByContext /\ tasksByContext[k] = loc[e].id
  BY <1>0 DEF ApprovalInv, KeyInv, CallGoesOn, Done, SerialInv, PendingStored
<1>2. CASE QuietStep
  <2>1. /\ pc[c] \in InSend /\ req'[c] = req[c]
        /\ loc'[c].id = loc[c].id /\ loc'[c].lastActivity \in {loc[c].lastActivity, now}
        /\ ApprovalKey(c)' = ApprovalKey(c)
    BY <1>0, <1>2 DEF QuietStep, CallGoesOn, InSend, ApprovalKey
  <2>2. \A id \in DOMAIN tasks' :
           tasks'[id].ctx = req'[c].ctx /\ req'[c].ctx # NoContext => id = loc'[c].id
    BY <1>2, <2>1 DEF QuietStep, SerialInv, FlightInv
  <2>3. \A k \in DOMAIN pendingApprovals' :
           k \in DOMAIN pendingApprovals /\ pendingApprovals'[k] = pendingApprovals[k]
    BY <1>2 DEF QuietStep
  <2>4. \A k \in DOMAIN pendingApprovals' :
           pendingApprovals'[k].createdAt <= loc'[c].lastActivity
    BY <1>0, <1>1, <2>1, <2>3 DEF SerialInv, FlightInv
  <2>5. \A k \in DOMAIN pendingApprovals', e \in Calls :
           pendingApprovals'[k].msg = e /\ ApprovalKey(c)' = k => loc'[e].id = loc'[c].id
    <3>. SUFFICES ASSUME NEW k \in DOMAIN pendingApprovals', NEW e \in Calls,
                         pendingApprovals'[k].msg = e, ApprovalKey(c)' = k
                  PROVE  loc'[e].id = loc'[c].id
      OBVIOUS
    <3>1. k \in DOMAIN pendingApprovals /\ pendingApprovals[k].msg = e /\ loc'[e] = loc[e]
      BY <1>1, <2>3
    <3>2. ApprovalKey(c) = k
      BY <2>1
    <3>3. loc[e].id = loc[c].id
      BY <2>1, <3>1, <3>2 DEF SerialInv, FlightInv
    <3>. QED
      BY <2>1, <3>1, <3>3
  <2>. QED
    BY <2>2, <2>4, <2>5
<1>3. ASSUME NEW d \in Calls, NEW m \in Requests, OpenStream(d, m) \/ Prepare(d, m)
      PROVE  /\ \A id \in DOMAIN tasks' :
                   tasks'[id].ctx = req'[c].ctx /\ req'[c].ctx # NoContext => id = loc'[c].id
             /\ \A k \in DOMAIN pendingApprovals' :
                   pendingApprovals'[k].createdAt <= loc'[c].lastActivity
             /\ \A k \in DOMAIN pendingApprovals', e \in Calls :
                   pendingApprovals'[k].msg = e /\ ApprovalKey(c)' = k => loc'[e].id = loc'[c].id
  <2>1. c = d /\ Prepare(c, m)
    <3>1. pc'[d] \in {"opened", "hitl", "executing"}
      BY <1>0, <1>3 DEF OpenStream, Prepare
    <3>2. c = d
      BY <1>0, <3>1 DEF OneInFlight, InFlight, InSend
    <3>3. OpenStream(d, m) => pc'[d] = "opened"
      BY <1>0 DEF OpenStream
    <3>. QED
      BY <1>3, <3>2, <3>3 DEF InSend
  <2>2. /\ loc'[c] = Snapshot(c, m) /\ req'[c] = m /\ m \in Message
        /\ UNCHANGED <<tasks, tasksByContext, pendingApprovals, now>>
    BY <1>0, <2>1, RequestsAssumption DEF Prepare
  <2>3. loc'[c].lastActivity = now /\ (Existing(m.ctx) # NoTask => loc'[c].id = Existing(m.ctx))
    BY <2>2 DEF Snapshot
  <2>4. \A id \in DOMAIN tasks : id # NoTask
    BY <1>0 DEF TypeOK, TaskIds, NoTask
  <2>5. ASSUME NEW id \in DOMAIN tasks', tasks'[id].ctx = req'[c].ctx, req'[c].ctx # NoContext
        PROVE  id = loc'[c].id
    <3>1. /\ id \in DOMAIN tasks /\ m.ctx \in DOMAIN tasksByContext
          /\ tasksByContext[m.ctx] = id
      BY <2>2, <2>5 DEF SerialInv, SoleTask
    <3>2. Existing(m.ctx) = id
      BY <3>1 DEF Existing
    <3>. QED
      BY <2>3, <2>4, <3>1, <3>2
  <2>6. \A k \in DOMAIN pendingApprovals' :
           pendingApprovals'[k].createdAt <= loc'[c].lastActivity
    BY <1>0, <1>1, <2>2, <2>3
  <2>7. ASSUME NEW k \in DOMAIN pendingApprovals', NEW e \in Calls,
               pendingApprovals'[k].msg = e, ApprovalKey(c)' = k
        PROVE  loc'[e].id = loc'[c].id
    <3>1. /\ k \in DOMAIN pendingApprovals /\ pendingApprovals[k].msg = e
          /\ loc'[e] = loc[e] /\ ApprovalKey(e) = k /\ loc[e].id \in DOMAIN tasks
          /\ req[e].ctx # NoContext => k \in DOMAIN tasksByContext /\ tasksByContext[k] = loc[e].id
      BY <1>1, <2>2, <2>7
    <3>2. k = IF m.ctx = NoContext THEN loc'[c].id ELSE m.ctx
      BY <2>2, <2>7 DEF ApprovalKey
    <3>3. k \in DOMAIN tasksByContext /\ k \in TaskIds => tasksByContext[k] = k
      BY DEF NoIdGuessed
    <3>4. req[e].ctx = NoContext => k = loc[e].id /\ k \in TaskIds
      BY <1>0, <3>1 DEF ApprovalKey, TypeOK
    <3>5. CASE m.ctx # NoContext
      <4>1. k \in DOMAIN tasksByContext => tasksByContext[k] = loc[e].id
        BY <3>1, <3>3, <3>4
      <4>2. Existing(k) = loc[e].id
        BY <3>1, <3>4, <4>1 DEF Existing
      <4>. QED
        BY <2>3, <2>4, <3>1, <3>2, <3>5, <4>2
    <3>6. CASE m.ctx = NoContext
      <4>1. k = loc'[c].id /\ k \in Nat /\ k \in Keys
        <5>1. Snapshot(c, m) \in Local
          BY <1>0, <2>2, SnapshotType
        <5>. QED
          BY <1>0, <2>2, <3>1, <3>2, <3>6, <5>1 DEF Local, TypeOK
      <4>2. k \in TaskIds
        BY <4>1, SentinelAssumption DEF Keys
      <4>3. req[e].ctx # NoContext => loc[e].id = k
        BY <3>1, <3>3, <4>2
      <4>. QED
        BY <3>1, <3>4, <4>1, <4>3
    <3>. QED
      BY <3>5, <3>6
  <2>. QED
    BY <2>5, <2>6, <2>7
<1>4. ASSUME NEW d \in Calls, NEW task \in Task, RecordStep(d, task) PROVE FALSE
  BY <1>4, RecordedAlone DEF SerialInv
<1>. QED
  BY <1>2, <1>3, <1>4, StepKinds

LEMMA ResumesNext ==
    ASSUME TypeInv, ApprovalInv, SerialInv, [Next]_vars
    PROVE  ResumesPaused'
<1>. SUFFICES ASSUME NEW c \in Calls, NEW e \in Calls, took'[c] = e
              PROVE  loc'[c].id = loc'[e].id
  BY DEF ResumesPaused
<1>0. /\ \A d \in Calls : CallGoesOn(d)
      /\ e # NoCall
  BY CallFrame, SentinelAssumption
<1>1. ASSUME NEW d \in Calls, pc[d] \in InSend \cup Done PROVE loc'[d].id = loc[d].id
  BY <1>0, <1>1 DEF CallGoesOn
<1>2. CASE took'[c] = took[c]
  <2>1. pc[e] = "paused" /\ pc[c] \in Ran \cup {"rejected"} /\ loc[c].id = loc[e].id
    BY <1>0, <1>2 DEF ApprovalInv, SerialInv, ResumesPaused
  <2>. QED
    BY <1>1, <2>1 DEF Ran, InSend, Done
<1>3. CASE /\ pc[c] = "hitl" /\ ApprovalKey(c) \in DOMAIN pendingApprovals
           /\ took'[c] = pendingApprovals[ApprovalKey(c)].msg
  <2>1. pc[e] = "paused" /\ loc[e].id = loc[c].id
    BY <1>3 DEF ApprovalInv, SerialInv, FlightInv, InSend
  <2>. QED
    BY <1>1, <1>3, <2>1 DEF InSend, Done
<1>. QED
  BY <1>2, <1>3, TableSteps

LEMMA SerialInit == Init /\ MaxInFlight = 1 => SerialInv
<1>. SUFFICES ASSUME Init, MaxInFlight = 1 PROVE SerialInv
  OBVIOUS
<1>1. DOMAIN <<>> = {}
  OBVIOUS
<1>2. /\ DOMAIN tasks = {} /\ DOMAIN pendingApprovals = {}
      /\ \A c \in Calls : pc[c] = "idle" /\ took[c] = NoCall
  BY <1>1 DEF Init
<1>. QED
  BY <1>2, SentinelAssumption
     DEF SerialInv, OneInFlight, SoleTask, PendingStored, FlightInv, ResumesPaused, InFlight, InSend

SerialKept == TypeInv /\ ApprovalInv /\ KeyInv /\ SerialInv

LEMMA SerialNext == SerialKept /\ NoIdGuessed /\ [Next]_vars => SerialKept'
<1>. SUFFICES ASSUME SerialKept, NoIdGuessed, [Next]_vars PROVE SerialKept'
  OBVIOUS
<1>1. SoleTask' /\ PendingStored' /\ FlightInv' /\ ResumesPaused'
  BY SoleTaskNext, PendingStoredNext, FlightNext, ResumesNext DEF SerialKept
<1>2. OneInFlight'
  BY OneInFlightNext DEF SerialKept, SerialInv
<1>3. TypeInv' /\ ApprovalInv' /\ KeyInv'
  BY TypeNext, ApprovalNext, KeyNext DEF SerialKept
<1>. QED
  BY <1>1, <1>2, <1>3 DEF SerialKept, SerialInv

LEMMA SerialBegins == Init /\ MaxInFlight = 1 => SerialKept
<1>1. Init => KeyInv
  BY ContextInit DEF ContextInv
<1>. QED
  BY <1>1, TypeInit, ApprovalInit, SerialInit DEF SerialKept

(* An approval continues the task that was paused, if Sends do not overlap *)
(* and clients guess no ids: the pause the snapshot led to is the one the  *)
(* answer takes, whatever is swept, canceled or recorded in between.       *)
THEOREM SerialApprovalsResume ==
    MaxInFlight = 1 /\ Spec /\ []NoIdGuessed => []ApprovalResumesPausedTask
<1>1. MaxInFlight = 1 /\ Spec /\ []NoIdGuessed => []SerialKept
  BY SerialBegins, SerialNext, PTL DEF Spec
<1>2. SerialKept => ApprovalResumesPausedTask
  <2>. SUFFICES ASSUME SerialKept, NEW c \in Calls, took[c] # NoCall
                PROVE  loc[c].id = loc[took[c]].id
    BY DEF ApprovalResumesPausedTask
  <2>1. took[c] \in Calls
    BY DEF SerialKept, TypeInv, TypeOK
  <2>. QED
    BY <2>1 DEF SerialKept, SerialInv, ResumesPaused
<1>. QED
  BY <1>1, <1>2, PTL

(* A context is not forgotten while the task it leads to is stored, if     *)
(* Sends do not overlap and clients guess no ids: the sweep drops a        *)
(* context only with the one task that is stored under it.                 *)
THEOREM SerialContextsContinue ==
    MaxInFlight = 1 /\ Spec /\ []NoIdGuessed => ContinuationKept
<1>1. MaxInFlight = 1 /\ Spec /\ []NoIdGuessed => []SerialKept
  BY SerialBegins, SerialNext, PTL DEF Spec
<1>. DEFINE Kept1 == \A k \in DOMAIN tasksByContext :
                        tasksByContext[k] \in DOMAIN tasks /\ tasksByContext[k] \in DOMAIN tasks'
                            => k \in DOMAIN tasksByContext'
<1>2. SerialKept /\ [Next]_vars => Kept1
  <2>. SUFFICES ASSUME SerialKept, [Next]_vars, NEW k \in DOMAIN tasksByContext,
                       tasksByContext[k] \in DOMAIN tasks'
                PROVE  k \in DOMAIN tasksByContext'
    OBVIOUS
  <2>0. k # NoContext
    BY SentinelAssumption DEF SerialKept, TypeInv, TypeOK
  <2>1. CASE QuietStep
    <3>1. SUFFICES ASSUME k \notin DOMAIN tasksByContext' PROVE FALSE
      OBVIOUS
    <3>2. PICK id \in DOMAIN tasks \ DOMAIN tasks' : tasks[id].ctx = k
      BY <2>1, <3>1 DEF QuietStep
    <3>. QED
      BY <2>0, <3>2 DEF SerialKept, SerialInv, SoleTask
  <2>2. ASSUME NEW c \in Calls, NEW m \in Requests, OpenStream(c, m) \/ Prepare(c, m)
        PROVE  k \in DOMAIN tasksByContext'
    BY <2>2 DEF OpenStream, Prepare
  <2>3. ASSUME NEW c \in Calls, NEW task \in Task, RecordStep(c, task)
        PROVE  k \in DOMAIN tasksByContext'
    BY <2>3 DEF RecordStep, RecordTask, Put
  <2>. QED
    BY <2>1, <2>2, <2>3, StepKinds DEF SerialKept
<1>3. SerialKept /\ [Next]_vars => [Kept1]_vars
  BY <1>2
<1>. HIDE DEF Kept1
<1>4. MaxInFlight = 1 /\ Spec /\ []NoIdGuessed => [][Kept1]_vars
  BY <1>1, <1>3, PTL DEF Spec
<1>. QED
  BY <1>4 DEF ContinuationKept, Kept1

-----------------------------------------------------------------------------
(* A pause can be answered.  The stored task that waits has its message    *)
(* under its key, no older than its record, or the Send that runs has just *)
(* taken it out and will record another status.                            *)
WaitKey(id) == IF tasks[id].ctx = NoContext THEN id ELSE tasks[id].ctx

OutcomeRecorded ==
    \A c \in Calls : pc[c] = "recording" =>
        loc[c].transitions[Len(loc[c].transitions)].to \in Outcomes

WaitingStands ==
    /\ "input-required" \notin Outcomes
    /\ \A id \in DOMAIN tasks : tasks[id].status = "input-required" =>
        \/ \E k \in DOMAIN pendingApprovals, e \in Calls :
              /\ pendingApprovals[k].msg = e /\ k = WaitKey(id) /\ loc[e].id = id
              /\ pendingApprovals[k].createdAt >= tasks[id].lastActivity
        \/ \E c \in Calls : pc[c] \in InSend /\ took[c] # NoCall /\ loc[c].id = id

LEMMA OutcomeNext ==
    ASSUME TypeInv, OutcomeRecorded, [Next]_vars
    PROVE  OutcomeRecorded'
<1>0. /\ pc \in [Calls -> Phases] /\ loc \in [Calls -> Local]
  BY DEF TypeInv, TypeOK
<1>1. ASSUME NEW c \in Calls, NEW final \in Outcomes, Execute(c, final) PROVE OutcomeRecorded'
  <2>. DEFINE s == loc[c].transitions
              x == Step("working", final)
              t == Trim(Append(s, x), MaxTransitions)
  <2>1. s \in Seq(Transition) /\ x \in Transition
    BY <1>0, OutcomesAssumption DEF Local, Step, Transition, Statuses
  <2>2. x.to \in Outcomes
    BY DEF Step
  <2>. HIDE DEF x, s
  <2>3. t[Len(t)] = x
    <3>1. MaxTransitions \in Nat \ {0}
      BY BoundsAssumption
    <3>2. /\ Len(Trim(Append(s, x), MaxTransitions)) \in 1..MaxTransitions
          /\ Trim(Append(s, x), MaxTransitions)[Len(Trim(Append(s, x), MaxTransitions))] = x
      BY <2>1, <3>1, AppendTrim
    <3>. QED
      BY <3>2
  <2>4. loc'[c].transitions = t
    BY <1>0, <1>1 DEF Execute, Local, x, s
  <2>. HIDE DEF t
  <2>5. \A d \in Calls \ {c} : loc'[d] = loc[d] /\ pc'[d] = pc[d]
    BY <1>0, <1>1 DEF Execute
  <2>6. loc'[c].transitions[Len(loc'[c].transitions)].to \in Outcomes
    BY <2>2, <2>3, <2>4
  <2>. QED
    BY <2>5, <2>6 DEF OutcomeRecorded
<1>2. ASSUME NEW c \in Calls, NEW m \in Requests,
             OpenStream(c, m) \/ RefuseRole(c, m) \/ Prepare(c, m)
      PROVE  OutcomeRecorded'
  <2>1. pc'[c] # "recording" /\ \A d \in Calls \ {c} : loc'[d] = loc[d] /\ pc'[d] = pc[d]
    BY <1>0, <1>2 DEF OpenStream, RefuseRole, Prepare
  <2>. QED
    BY <2>1 DEF OutcomeRecorded
<1>3. ASSUME NEW c \in Calls, Hitl(c) \/ Record(c) \/ Announce(c) PROVE OutcomeRecorded'
  <2>1. pc'[c] # "recording" /\ \A d \in Calls \ {c} : loc'[d] = loc[d] /\ pc'[d] = pc[d]
    BY <1>0, <1>3 DEF Hitl, Approve, Reject, RefuseUndecided, RefuseAnswer, RefuseExpired, Pause,
                     Proceed, Record, Announce, Return
  <2>. QED
    BY <2>1 DEF OutcomeRecorded
<1>4. CASE UNCHANGED <<pc, loc>>
  BY <1>4 DEF OutcomeRecorded
<1>. QED
  BY <1>1, <1>2, <1>3, <1>4 DEF Next, Send, Cancel, Sweep, Tick, vars

LEMMA WaitingNext ==
    ASSUME SerialKept, NoIdGuessed, OutcomeRecorded, WaitingStands, [Next]_vars
    PROVE  WaitingStands'
<1>. DEFINE Stands1(id) ==
        \/ \E k \in DOMAIN pendingApprovals', e \in Calls :
              /\ pendingApprovals'[k].msg = e /\ k = WaitKey(id)' /\ loc'[e].id = id
              /\ pendingApprovals'[k].createdAt >= tasks'[id].lastActivity
        \/ \E c \in Calls : pc'[c] \in InSend /\ took'[c] # NoCall /\ loc'[c].id = id
<1>. SUFFICES ASSUME NEW id \in DOMAIN tasks', tasks'[id].status = "input-required"
              PROVE  Stands1(id)
  BY DEF WaitingStands
<1>0. /\ TypeInv /\ TypeOK /\ \A d \in Calls : CallGoesOn(d)
      /\ pc \in [Calls -> Phases] /\ loc \in [Calls -> Local] /\ took \in [Calls -> Calls \cup {NoCall}]
      /\ \A k \in DOMAIN pendingApprovals : pendingApprovals[k].msg \in Calls
      /\ \A k \in DOMAIN pendingApprovals : pendingApprovals[k].createdAt \in Nat
      /\ \A i \in DOMAIN tasks : tasks[i].lastActivity \in Nat
      /\ now \in Nat
  BY CallFrame DEF SerialKept, TypeInv, TypeOK, Task
<1>1. \A k \in DOMAIN pendingApprovals, e \in Calls : pendingApprovals[k].msg = e =>
         loc'[e] = loc[e]
  BY <1>0 DEF SerialKept, ApprovalInv, CallGoesOn, Done
<1>2. \A c \in Calls : pc[c] \in InSend /\ took[c] # NoCall => pc[c] \in {"executing", "recording"}
  BY DEF SerialKept, ApprovalInv, InSend, Ran
<1>3. CASE QuietStep
  <2>1. id \in DOMAIN tasks /\ tasks'[id] = tasks[id]
    BY <1>3 DEF QuietStep
  <2>2. ASSUME NEW c \in Calls, pc[c] \in InSend, took[c] # NoCall, loc[c].id = id
        PROVE  Stands1(id)
    <3>1. pc'[c] \in InSend /\ took'[c] = took[c]
      BY <1>2, <1>3, <2>2 DEF QuietStep
    <3>2. loc'[c].id = id
      BY <1>3, <2>2, <3>1 DEF QuietStep
    <3>. QED
      BY <2>2, <3>1, <3>2
  <2>3. ASSUME NEW k \in DOMAIN pendingApprovals, NEW e \in Calls, pendingApprovals[k].msg = e,
               k = WaitKey(id), loc[e].id = id,
               pendingApprovals[k].createdAt >= tasks[id].lastActivity
        PROVE  Stands1(id)
    <3>1. CASE k \in DOMAIN pendingApprovals'
      <4>1. pendingApprovals'[k] = pendingApprovals[k]
        BY <1>3, <3>1 DEF QuietStep
      <4>2. k = WaitKey(id)' /\ loc'[e].id = id
        BY <1>1, <2>1, <2>3 DEF WaitKey
      <4>. QED
        BY <2>1, <2>3, <3>1, <4>1, <4>2
    <3>2. ASSUME NEW c \in Calls, pc[c] = "hitl", k = ApprovalKey(c), pc'[c] \in InSend, took'[c] = e
          PROVE  Stands1(id)
      <4>1. loc[e].id = loc[c].id
        BY <2>3, <3>2 DEF SerialKept, SerialInv, FlightInv, InSend
      <4>2. loc'[c].id = id
        BY <1>3, <2>3, <3>2, <4>1 DEF QuietStep
      <4>. QED
        BY <3>2, <4>2, SentinelAssumption
    <3>3. ASSUME NEW i \in DOMAIN tasks \ DOMAIN tasks', tasks[i].ctx = k PROVE FALSE
      <4>1. k # NoContext /\ i # id /\ id \in TaskIds
        BY <1>0, <2>1, <2>3, SentinelAssumption DEF TypeOK
      <4>2. k \in DOMAIN tasksByContext /\ tasksByContext[k] = i
        BY <3>3, <4>1 DEF SerialKept, SerialInv, SoleTask
      <4>3. CASE tasks[id].ctx = NoContext
        BY <2>3, <4>1, <4>2, <4>3 DEF WaitKey, NoIdGuessed
      <4>4. CASE tasks[id].ctx # NoContext
        BY <2>1, <2>3, <4>1, <4>2, <4>4 DEF WaitKey, SerialKept, SerialInv, SoleTask
      <4>. QED
        BY <4>3, <4>4
    <3>4. CASE \A i \in DOMAIN tasks' : tasks[i].lastActivity > pendingApprovals[k].createdAt
      BY <1>0, <2>1, <2>3, <3>4
    <3>. QED
      BY <1>3, <2>3, <3>1, <3>2, <3>3, <3>4 DEF QuietStep
  <2>. QED
    BY <2>1, <2>2, <2>3 DEF WaitingStands
<1>4. ASSUME NEW d \in Calls, NEW m \in Requests, OpenStream(d, m) \/ Prepare(d, m)
      PROVE  Stands1(id)
  <2>1. /\ UNCHANGED <<tasks, pendingApprovals, took>>
        /\ pc[d] \in {"idle", "opened"}
        /\ \A c \in Calls \ {d} : pc'[c] = pc[c] /\ loc'[c] = loc[c]
    BY <1>0, <1>4 DEF OpenStream, Prepare, Starts
  <2>2. WaitKey(id)' = WaitKey(id)
    BY <2>1 DEF WaitKey
  <2>. QED
    BY <1>1, <1>2, <2>1, <2>2 DEF WaitingStands
<1>5. ASSUME NEW c \in Calls, NEW task \in Task, RecordStep(c, task) PROVE Stands1(id)
  <2>1. /\ tasks' = Put(tasks, loc[c].id, task) /\ pc[c] \in InSend
        /\ loc'[c].id = loc[c].id
    BY <1>0, <1>5 DEF RecordStep, RecordTask, CallGoesOn
  <2>2. CASE id = loc[c].id
    <3>1. tasks'[id] = task /\ task.status = "input-required"
      BY <2>1, <2>2 DEF Put
    <3>2. ApprovalKey(c) \in DOMAIN pendingApprovals' /\ ApprovalKey(c) \notin DOMAIN pendingApprovals
      BY <1>5, <3>1 DEF RecordStep, OutcomeRecorded, WaitingStands
    <3>3. PICK k \in DOMAIN pendingApprovals' : k = ApprovalKey(c)
      BY <3>2
    <3>4. /\ pendingApprovals'[k] = [msg |-> c, createdAt |-> now]
          /\ task.ctx = req[c].ctx /\ task.lastActivity = now
      BY <1>5, <3>2, <3>3 DEF RecordStep
    <3>5. k = WaitKey(id)'
      BY <2>2, <3>1, <3>3, <3>4 DEF WaitKey, ApprovalKey
    <3>. QED
      BY <1>0, <2>1, <2>2, <3>1, <3>4, <3>5
  <2>3. CASE id # loc[c].id
    <3>1. id \in DOMAIN tasks /\ tasks'[id] = tasks[id]
      BY <2>1, <2>3 DEF Put
    <3>2. \A d \in Calls : pc[d] \in InSend => d = c
      BY <2>1 DEF SerialKept, SerialInv, OneInFlight, InSend, InFlight
    <3>3. PICK k \in DOMAIN pendingApprovals, e \in Calls :
             /\ pendingApprovals[k].msg = e /\ k = WaitKey(id) /\ loc[e].id = id
             /\ pendingApprovals[k].createdAt >= tasks[id].lastActivity
      BY <2>3, <3>1, <3>2 DEF WaitingStands
    <3>4. k # ApprovalKey(c)
      BY <2>1, <2>3, <3>3 DEF SerialKept, SerialInv, FlightInv
    <3>5. k \in DOMAIN pendingApprovals' /\ pendingApprovals'[k] = pendingApprovals[k]
      BY <1>5, <3>4 DEF RecordStep
    <3>6. k = WaitKey(id)' /\ loc'[e].id = id
      BY <1>1, <3>1, <3>3 DEF WaitKey
    <3>. QED
      BY <3>1, <3>3, <3>5, <3>6
  <2>. QED
    BY <2>2, <2>3
<1>. HIDE DEF Stands1
<1>. QED
  BY <1>0, <1>3, <1>4, <1>5, StepKinds

(* A task that waits for input can be answered, if Sends do not overlap,   *)
(* clients guess no ids and no action itself returns a task that waits:    *)
(* its message is under the key an answer will have, and the sweep never   *)
(* drops the one without the other.                                        *)
THEOREM SerialPausesAnswerable ==
    MaxInFlight = 1 /\ "input-required" \notin Outcomes /\ Spec /\ []NoIdGuessed
        => []PausedIsAnswerable
<1>. DEFINE Inv == SerialKept /\ OutcomeRecorded /\ WaitingStands
<1>1. Init /\ MaxInFlight = 1 /\ "input-required" \notin Outcomes => Inv
  <2>. SUFFICES ASSUME Init, MaxInFlight = 1, "input-required" \notin Outcomes PROVE Inv
    OBVIOUS
  <2>1. DOMAIN <<>> = {}
    OBVIOUS
  <2>2. DOMAIN tasks = {} /\ \A c \in Calls : pc[c] = "idle"
    BY <2>1 DEF Init
  <2>3. OutcomeRecorded /\ WaitingStands
    BY <2>2 DEF OutcomeRecorded, WaitingStands
  <2>. QED
    BY <2>3, SerialBegins
<1>2. Inv /\ NoIdGuessed /\ [Next]_vars => Inv'
  BY SerialNext, OutcomeNext, WaitingNext DEF SerialKept
<1>3. Inv => PausedIsAnswerable
  BY DEF WaitingStands, WaitKey, PausedIsAnswerable, InFlight, InSend
<1>. HIDE DEF Inv
<1>. QED
  BY <1>1, <1>2, <1>3, PTL DEF Spec

=============================================================================
