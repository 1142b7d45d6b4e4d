------------------------------ MODULE A2ATasks ------------------------------
(***************************************************************************)
(* The in-memory task store of the A2A transport (package ta2a): every     *)
(* Transport.Send as a process of its own, with the atomic steps its locks *)
(* give it, interleaved with Transport.Cancel, with the cleanup loop and   *)
(* with the clock.                                                         *)
(*                                                                         *)
(* A call c \in Calls is one Send of one message; c also stands for that   *)
(* message in histories and in the approval table.  Its steps are          *)
(*   OpenStream   handleStream names the task before it calls Send         *)
(*   Prepare      role lookup and prepareTaskContext (a snapshot taken     *)
(*                under RLock, then taskSeq.Add)                           *)
(*   Approve, Reject, RefuseUndecided, RefuseAnswer, RefuseExpired, Pause, *)
(*   Proceed      the branches of applyHITLState, each under one Lock      *)
(*   Execute      the action runs (external) and its result is built       *)
(*   Record       recordTask under Lock                                    *)
(*   Announce     the webhook is launched, outside the lock; Send returns  *)
(* Contents, results and artifacts of messages are abstracted away: a      *)
(* message is its role, its context, what its text is to the approval      *)
(* protocol, its callback, the task id its metadata names (Client.AsAction *)
(* forwards the metadata a stream handler has written) and whether it came *)
(* through the stream endpoint.                                            *)
(***************************************************************************)
EXTENDS Integers, Sequences, FiniteSets

CONSTANTS
    Calls,          \* the Sends of a behaviour
    Contexts,       \* context ids chosen by clients
    HitlRoles,      \* mounted roles whose binding has a HITLConfig
    PlainRoles,     \* the other mounted roles
    Callbacks,      \* callback URLs
    Requests,       \* the messages clients may send
    Outcomes,       \* the statuses buildTaskResult may return
    NoContext,      \* an empty ContextID
    NoCallback,     \* an empty CallbackURL
    NoCall,         \* no message taken out of the approval table
    MaxHistory,     \* maxTaskHistory
    MaxTransitions, \* maxTaskTransitions
    TTL,            \* taskTTL, in ticks of the clock
    Times,          \* bound: what the clock may read; it stops at the last
    MaxInFlight     \* bound: how many Sends run at once

(* Task ids are "task-<n>": the n.  A task id may also be sent as a context *)
(* id; Contexts are the context ids that are none.                         *)
TaskIds == Nat \ {0}
NoTask == 0
Keys == Contexts \cup TaskIds
Texts == {"approve", "reject", "trigger", "other"}
Statuses == {"submitted", "working", "input-required", "completed",
             "canceled", "failed", "rejected"}
NoStatus == ""

Message == [role: HitlRoles \cup PlainRoles \cup {"unmounted"},
            ctx: Keys \cup {NoContext},
            text: Texts,
            callback: Callbacks \cup {NoCallback},
            taskID: Nat,
            stream: BOOLEAN]

(* The zero Message: what req holds for a call that has not started. *)
NoMessage == [role |-> "unmounted", ctx |-> NoContext, text |-> "other",
              callback |-> NoCallback, taskID |-> NoTask, stream |-> FALSE]

ASSUME RequestsAssumption == Requests \subseteq Message
ASSUME SentinelAssumption ==
    /\ NoContext \notin Keys
    /\ Contexts \cap Nat = {}
    /\ NoCall \notin Calls
    /\ NoCallback \notin Callbacks
    /\ "unmounted" \notin HitlRoles \cup PlainRoles
    /\ HitlRoles \cap PlainRoles = {}
ASSUME OutcomesAssumption == Outcomes \subseteq Statuses
ASSUME BoundsAssumption ==
    /\ MaxHistory \in Nat \ {0}
    /\ MaxTransitions \in Nat \ {0}
    /\ TTL \in Nat
    /\ Times \subseteq Nat /\ 0 \in Times /\ IsFiniteSet(Times)
    /\ MaxInFlight \in Nat \ {0}

VARIABLES
    taskSeq,          \* Transport.taskSeq
    tasks,            \* Transport.tasks: id -> task
    tasksByContext,   \* Transport.tasksByContext: context id -> task id
    pendingApprovals, \* Transport.pendingApprovals: key -> paused message, age
    now,              \* the clock
    hooks,            \* the webhook deliveries launched so far
    pc,               \* where each call is
    req,              \* the message each call carries
    preID,            \* the task id the stream handler announced
    loc,              \* the locals of Send: snapshot, history, transitions, ...
    took              \* the paused message a call took out of pendingApprovals

store == <<tasks, tasksByContext>>
shared == <<taskSeq, tasks, tasksByContext, pendingApprovals, now, hooks>>
vars == <<taskSeq, tasks, tasksByContext, pendingApprovals, now, hooks,
          pc, req, preID, loc, took>>

Transition == [from: Statuses \cup {NoStatus}, to: Statuses]

Task == [ctx: Keys \cup {NoContext},
         status: Statuses,
         history: Seq(Calls),
         transitions: Seq(Transition),
         lastActivity: Nat,
         callback: Callbacks \cup {NoCallback}]

(* The locals of a call between prepareTaskContext and its return. *)
Local == [id: Nat,
          seen: Statuses \cup {NoStatus},
          history: Seq(Calls),
          transitions: Seq(Transition),
          lastActivity: Nat,
          callback: Callbacks \cup {NoCallback}]

NoLocal == [id |-> NoTask, seen |-> NoStatus, history |-> <<>>,
            transitions |-> <<>>, lastActivity |-> 0, callback |-> NoCallback]

Phases == {"idle", "opened", "hitl", "executing", "recording", "recorded",
           "finished", "paused", "rejected", "refused"}

(* A call whose message (or the paused message it took) is given to the action. *)
Ran == {"executing", "recording", "recorded", "finished"}
InFlight == {"opened", "hitl", "executing", "recording", "recorded"}

-----------------------------------------------------------------------------
(* Maps and sequences. *)

Put(f, k, v) == [x \in DOMAIN f \cup {k} |-> IF x = k THEN v ELSE f[x]]
Without(f, S) == [x \in DOMAIN f \ S |-> f[x]]

Trim(s, n) == IF Len(s) > n THEN SubSeq(s, Len(s) - n + 1, Len(s)) ELSE s

Step(from, to) == [from |-> from, to |-> to]

-----------------------------------------------------------------------------
(* Mutants, plausible slips of the definition that follows them, are named *)
(* Bad...: here one of the two lookups is not made.                        *)
BadExistingById(ctx) == IF ctx \in DOMAIN tasks THEN ctx ELSE NoTask

(* The task a context id leads to in prepareTaskContext: through           *)
(* tasksByContext, or a task of that id when the context is unknown.       *)
Existing(ctx) ==
    IF ctx \in DOMAIN tasksByContext
    THEN IF tasksByContext[ctx] \in DOMAIN tasks THEN tasksByContext[ctx] ELSE NoTask
    ELSE IF ctx \in DOMAIN tasks THEN ctx ELSE NoTask

(* handleStream's lookup: unlike Existing it trusts tasksByContext. *)
StreamTask(ctx) ==
    IF ctx \in DOMAIN tasksByContext THEN tasksByContext[ctx]
    ELSE IF ctx \in DOMAIN tasks THEN ctx ELSE NoTask

(* Two mutants: the counter is read twice, or before it is advanced. *)
BadNextIdStale == taskSeq

BadNextId == IF taskSeq = 0 THEN 1 ELSE taskSeq

NextId == taskSeq + 1

(* A mutant: a message without a context waits under the empty one. *)
BadApprovalKey(c) == req[c].ctx

ApprovalKey(c) == IF req[c].ctx = NoContext THEN loc[c].id ELSE req[c].ctx

Guarded(c) == req[c].role \in HitlRoles /\ req[c].text = "trigger"

(* The message Send goes on with: its own, or the paused one it approved. *)
Effective(c) == IF took[c] = NoCall THEN c ELSE took[c]

HasRoom == Cardinality({c \in Calls : pc[c] \in InFlight}) < MaxInFlight

-----------------------------------------------------------------------------
Init ==
    /\ taskSeq = 0
    /\ tasks = <<>>
    /\ tasksByContext = <<>>
    /\ pendingApprovals = <<>>
    /\ now = 0
    /\ hooks = {}
    /\ pc = [c \in Calls |-> "idle"]
    /\ req = [c \in Calls |-> NoMessage]
    /\ preID = [c \in Calls |-> NoTask]
    /\ loc = [c \in Calls |-> NoLocal]
    /\ took = [c \in Calls |-> NoCall]

(* handleStream announces a task id: the context's task, or a fresh one. *)
OpenStream(c, m) ==
    /\ pc[c] = "idle"
    /\ HasRoom
    /\ m.stream
    /\ LET t == StreamTask(m.ctx) IN
       /\ preID' = [preID EXCEPT ![c] = IF t = NoTask THEN NextId ELSE t]
       /\ taskSeq' = IF t = NoTask THEN NextId ELSE taskSeq
    /\ req' = [req EXCEPT ![c] = m]
    /\ pc' = [pc EXCEPT ![c] = "opened"]
    /\ UNCHANGED <<tasks, tasksByContext, pendingApprovals, now, hooks, loc, took>>

(* A Send starts: called by the stream handler, or directly. *)
Starts(c, m) ==
    \/ pc[c] = "opened" /\ m = req[c]
    \/ pc[c] = "idle" /\ HasRoom /\ ~m.stream

(* Send finds no agent for the role. *)
RefuseRole(c, m) ==
    /\ Starts(c, m)
    /\ m.role \notin HitlRoles \cup PlainRoles
    /\ req' = [req EXCEPT ![c] = m]
    /\ pc' = [pc EXCEPT ![c] = "refused"]
    /\ UNCHANGED <<shared, preID, loc, took>>

(* metadata task_id: handleStream writes the id it announced there. *)
NamedID(c, m) == IF m.stream THEN preID[c] ELSE m.taskID

(* A mutant of Snapshot: the announced id is not used. *)
BadSnapshot(c, m) ==
    LET t == Existing(m.ctx)
        old == tasks[t]
        from == IF t = NoTask THEN NoStatus ELSE old.status
    IN [id |-> IF t # NoTask THEN t ELSE NextId,
        seen |-> from,
        history |-> IF t = NoTask THEN <<c>>
                    ELSE Trim(Append(old.history, c), MaxHistory),
        transitions |-> IF t = NoTask THEN <<Step(NoStatus, "working")>>
                        ELSE Append(old.transitions, Step(from, "working")),
        lastActivity |-> now,
        callback |-> IF m.callback = NoCallback /\ t # NoTask
                     THEN old.callback ELSE m.callback]

(* prepareTaskContext: the history, transitions and callback a call goes   *)
(* on with, copied from the task its context leads to at this moment.      *)
Snapshot(c, m) ==
    LET t == Existing(m.ctx)
        old == tasks[t]
        from == IF t = NoTask THEN NoStatus ELSE old.status
    IN [id |-> CASE t # NoTask -> t
                 [] t = NoTask /\ NamedID(c, m) # NoTask -> NamedID(c, m)
                 [] OTHER -> NextId,
        seen |-> from,
        history |-> IF t = NoTask THEN <<c>>
                    ELSE Trim(Append(old.history, c), MaxHistory),
        transitions |-> IF t = NoTask THEN <<Step(NoStatus, "working")>>
                        ELSE Append(old.transitions, Step(from, "working")),
        lastActivity |-> now,
        callback |-> IF m.callback = NoCallback /\ t # NoTask
                     THEN old.callback ELSE m.callback]

(* The snapshot is taken; a role without approval goes on to its action.   *)
(* taskSeq.Add is a step of its own in the code, but no other step reads   *)
(* taskSeq and the stores together, so the two are one step here.          *)
Prepare(c, m) ==
    /\ Starts(c, m)
    /\ m.role \in HitlRoles \cup PlainRoles
    /\ req' = [req EXCEPT ![c] = m]
    /\ loc' = [loc EXCEPT ![c] = Snapshot(c, m)]
    /\ taskSeq' = IF Existing(m.ctx) = NoTask /\ NamedID(c, m) = NoTask
                  THEN NextId ELSE taskSeq
    /\ pc' = [pc EXCEPT ![c] = IF m.role \in HitlRoles THEN "hitl" ELSE "executing"]
    /\ UNCHANGED <<tasks, tasksByContext, pendingApprovals, now, hooks, preID, took>>

-----------------------------------------------------------------------------
(* Writing tasks. *)

(* recordTaskLocked *)
RecordTask(id, task) ==
    /\ tasks' = Put(tasks, id, task)
    /\ tasksByContext' = IF task.ctx = NoContext THEN tasksByContext
                         ELSE Put(tasksByContext, task.ctx, id)

(* Returning: the locals go out of scope; the caller keeps the task's id. *)
Return(c, phase) ==
    /\ pc' = [pc EXCEPT ![c] = phase]
    /\ loc' = [loc EXCEPT ![c] = [NoLocal EXCEPT !.id = loc[c].id, !.seen = loc[c].seen]]

(* go dispatchWebhook *)
Launch(url, id, status) ==
    hooks' = IF url = NoCallback THEN hooks
             ELSE hooks \cup {[url |-> url, id |-> id, status |-> status]}

(* A task recorded inside applyHITLState: its transition is appended to    *)
(* the call's and trimmed, its message a second time to the history.       *)
HitlTask(c, from, to) ==
    [ctx |-> req[c].ctx,
     status |-> to,
     history |-> Append(loc[c].history, c),
     transitions |-> Trim(Append(loc[c].transitions, Step(from, to)), MaxTransitions),
     lastActivity |-> now,
     callback |-> loc[c].callback]

-----------------------------------------------------------------------------
(* applyHITLState. *)

IsPending(c) == ApprovalKey(c) \in DOMAIN pendingApprovals

(* Mutants of Approve, Reject and Proceed: the message stays in the table, *)
(* and a trigger word is let through.                                      *)
BadApprove(c) ==
    /\ pc[c] = "hitl"
    /\ IsPending(c)
    /\ req[c].text = "approve"
    /\ took' = [took EXCEPT ![c] = pendingApprovals[ApprovalKey(c)].msg]
    /\ pc' = [pc EXCEPT ![c] = "executing"]
    /\ UNCHANGED <<taskSeq, tasks, tasksByContext, pendingApprovals, now, hooks, req, preID, loc>>

BadReject(c) ==
    /\ pc[c] = "hitl"
    /\ IsPending(c)
    /\ req[c].text = "reject"
    /\ took' = [took EXCEPT ![c] = pendingApprovals[ApprovalKey(c)].msg]
    /\ RecordTask(loc[c].id, HitlTask(c, "input-required", "rejected"))
    /\ Return(c, "rejected")
    /\ UNCHANGED <<taskSeq, pendingApprovals, now, hooks, req, preID>>

BadProceed(c) ==
    /\ pc[c] = "hitl"
    /\ ~IsPending(c)
    /\ req[c].text \notin {"approve", "reject"}
    /\ loc[c].seen # "input-required"
    /\ pc' = [pc EXCEPT ![c] = "executing"]
    /\ UNCHANGED <<shared, req, preID, loc, took>>

(* "approve": the paused message leaves the table and is executed next. *)
Approve(c) ==
    /\ pc[c] = "hitl"
    /\ IsPending(c)
    /\ req[c].text = "approve"
    /\ took' = [took EXCEPT ![c] = pendingApprovals[ApprovalKey(c)].msg]
    /\ pendingApprovals' = Without(pendingApprovals, {ApprovalKey(c)})
    /\ pc' = [pc EXCEPT ![c] = "executing"]
    /\ UNCHANGED <<taskSeq, tasks, tasksByContext, now, hooks, req, preID, loc>>

(* "reject": the paused message leaves the table and the task is rejected. *)
Reject(c) ==
    /\ pc[c] = "hitl"
    /\ IsPending(c)
    /\ req[c].text = "reject"
    /\ took' = [took EXCEPT ![c] = pendingApprovals[ApprovalKey(c)].msg]
    /\ pendingApprovals' = Without(pendingApprovals, {ApprovalKey(c)})
    /\ RecordTask(loc[c].id, HitlTask(c, "input-required", "rejected"))
    /\ Return(c, "rejected")
    /\ UNCHANGED <<taskSeq, now, hooks, req, preID>>

(* The three errors: nothing is recorded. *)
RefuseUndecided(c) ==
    /\ pc[c] = "hitl"
    /\ IsPending(c)
    /\ req[c].text \notin {"approve", "reject"}
    /\ Return(c, "refused")
    /\ UNCHANGED <<shared, req, preID, took>>

RefuseAnswer(c) ==
    /\ pc[c] = "hitl"
    /\ ~IsPending(c)
    /\ req[c].text \in {"approve", "reject"}
    /\ Return(c, "refused")
    /\ UNCHANGED <<shared, req, preID, took>>

(* The status tested is the one of the snapshot, not the stored one. *)
RefuseExpired(c) ==
    /\ pc[c] = "hitl"
    /\ ~IsPending(c)
    /\ req[c].text \notin {"approve", "reject"}
    /\ loc[c].seen = "input-required"
    /\ Return(c, "refused")
    /\ UNCHANGED <<shared, req, preID, took>>

(* A trigger word: the message waits for an operator. *)
Pause(c) ==
    /\ pc[c] = "hitl"
    /\ ~IsPending(c)
    /\ req[c].text = "trigger"
    /\ loc[c].seen # "input-required"
    /\ pendingApprovals' = Put(pendingApprovals, ApprovalKey(c), [msg |-> c, createdAt |-> now])
    /\ RecordTask(loc[c].id, HitlTask(c, "working", "input-required"))
    /\ Return(c, "paused")
    /\ UNCHANGED <<taskSeq, now, hooks, req, preID, took>>

(* Any other message goes on to the action. *)
Proceed(c) ==
    /\ pc[c] = "hitl"
    /\ ~IsPending(c)
    /\ req[c].text = "other"
    /\ loc[c].seen # "input-required"
    /\ pc' = [pc EXCEPT ![c] = "executing"]
    /\ UNCHANGED <<shared, req, preID, loc, took>>

-----------------------------------------------------------------------------
(* executeWithPrecedence, buildTaskResult and the transition to the final  *)
(* status.  The action itself is external; its status is any of Outcomes.  *)
Execute(c, final) ==
    /\ pc[c] = "executing"
    /\ pc' = [pc EXCEPT ![c] = "recording"]
    /\ loc' = [loc EXCEPT
                 ![c].transitions = Trim(Append(@, Step("working", final)), MaxTransitions),
                 ![c].lastActivity = now]
    /\ UNCHANGED <<shared, req, preID, took>>

(* The task as Send builds it: its status is the transition's target. *)
FinalTask(c) ==
    [ctx |-> req[Effective(c)].ctx,
     status |-> loc[c].transitions[Len(loc[c].transitions)].to,
     history |-> loc[c].history,
     transitions |-> loc[c].transitions,
     lastActivity |-> loc[c].lastActivity,
     callback |-> loc[c].callback]

(* recordTask: the outcome is stored under the lock; a call with a         *)
(* callback has to announce it yet.                                        *)
Record(c) ==
    /\ pc[c] = "recording"
    /\ RecordTask(loc[c].id, FinalTask(c))
    /\ IF loc[c].callback = NoCallback
       THEN Return(c, "finished")
       ELSE pc' = [pc EXCEPT ![c] = "recorded"] /\ UNCHANGED loc
    /\ UNCHANGED <<taskSeq, pendingApprovals, now, hooks, req, preID, took>>

(* A mutant of Announce: the callback of the message is taken, not the one *)
(* the task has kept from an earlier message.                              *)
BadAnnounce(c) ==
    /\ pc[c] = "recorded"
    /\ Launch(req[c].callback, loc[c].id, FinalTask(c).status)
    /\ Return(c, "finished")
    /\ UNCHANGED <<taskSeq, tasks, tasksByContext, pendingApprovals, now, req, preID, took>>

(* The lock is released: the outcome is announced as this call built it,   *)
(* whatever has become of the stored task in the meantime; Send returns.   *)
Announce(c) ==
    /\ pc[c] = "recorded"
    /\ Launch(loc[c].callback, loc[c].id, FinalTask(c).status)
    /\ Return(c, "finished")
    /\ UNCHANGED <<taskSeq, tasks, tasksByContext, pendingApprovals, now, req, preID, took>>

-----------------------------------------------------------------------------
(* The other operations on the store. *)

(* A mutant of Cancel: the status is forgotten. *)
BadCancel(id) ==
    /\ id \in DOMAIN tasks
    /\ tasks[id].status # "canceled"
    /\ tasks' = [tasks EXCEPT
                   ![id].transitions = Trim(Append(@, Step(tasks[id].status, "canceled")),
                                            MaxTransitions),
                   ![id].lastActivity = now]
    /\ Launch(tasks[id].callback, id, "canceled")
    /\ UNCHANGED <<taskSeq, tasksByContext, pendingApprovals, now, pc, req, preID, loc, took>>

(* Transport.Cancel of a task that exists and is not canceled (it returns  *)
(* an error, or nil, without a change otherwise).                          *)
Cancel(id) ==
    /\ id \in DOMAIN tasks
    /\ tasks[id].status # "canceled"
    /\ tasks' = [tasks EXCEPT
                   ![id].transitions = Trim(Append(@, Step(tasks[id].status, "canceled")),
                                            MaxTransitions),
                   ![id].lastActivity = now,
                   ![id].status = "canceled"]
    /\ Launch(tasks[id].callback, id, "canceled")
    /\ UNCHANGED <<taskSeq, tasksByContext, pendingApprovals, now, pc, req, preID, loc, took>>

(* sweepExpiredTasks with the time of the tick it was woken by, which may  *)
(* be older than the clock when it gets the lock.                          *)
Expired(tick) == {id \in DOMAIN tasks : tick - tasks[id].lastActivity > TTL}

(* Mutants: approvals never expire; contexts outlive their tasks, or       *)
(* expire with their approvals.                                            *)
BadExpiredApprovalsNone(tick) == {}

ExpiredApprovals(tick) ==
    {k \in DOMAIN pendingApprovals : tick - pendingApprovals[k].createdAt > TTL}

BadExpiredContextsNone(tick) == {}

BadExpiredContexts(tick) ==
    ({tasks[id].ctx : id \in Expired(tick)} \ {NoContext}) \cup ExpiredApprovals(tick)

ExpiredContexts(tick) == {tasks[id].ctx : id \in Expired(tick)} \ {NoContext}

Sweep(tick) ==
    /\ TTL > 0
    /\ tasks' = Without(tasks, Expired(tick))
    /\ tasksByContext' = Without(tasksByContext, ExpiredContexts(tick))
    /\ pendingApprovals' = Without(pendingApprovals,
                                   ExpiredContexts(tick) \cup ExpiredApprovals(tick))
    /\ UNCHANGED <<taskSeq, now, hooks, pc, req, preID, loc, took>>

Tick ==
    /\ \E t \in Times : t > now /\ now' = t
    /\ UNCHANGED <<taskSeq, tasks, tasksByContext, pendingApprovals, hooks,
                   pc, req, preID, loc, took>>

-----------------------------------------------------------------------------
Hitl(c) ==
    \/ Approve(c)
    \/ Reject(c)
    \/ RefuseUndecided(c)
    \/ RefuseAnswer(c)
    \/ RefuseExpired(c)
    \/ Pause(c)
    \/ Proceed(c)

Send(c) ==
    \/ \E m \in Requests : OpenStream(c, m) \/ RefuseRole(c, m) \/ Prepare(c, m)
    \/ Hitl(c)
    \/ \E final \in Outcomes : Execute(c, final)
    \/ Record(c)
    \/ Announce(c)

Next ==
    \/ \E c \in Calls : Send(c)
    \/ \E id \in DOMAIN tasks : Cancel(id)
    \/ \E tick \in Times : tick <= now /\ Sweep(tick)
    \/ Tick

Spec == Init /\ [][Next]_vars

(* The clock runs and the cleanup loop keeps sweeping with a fresh tick. *)
FairSpec == Spec /\ WF_vars(Tick) /\ WF_vars(Sweep(now))

-----------------------------------------------------------------------------
(* Properties. *)

(* Every variable has the type the code's declarations give it. *)
TypeOK ==
    /\ taskSeq \in Nat
    /\ DOMAIN tasks \subseteq TaskIds
    /\ \A id \in DOMAIN tasks : tasks[id] \in Task
    /\ DOMAIN tasksByContext \subseteq Keys
    /\ \A k \in DOMAIN tasksByContext : tasksByContext[k] \in TaskIds
    /\ DOMAIN pendingApprovals \subseteq Keys
    /\ \A k \in DOMAIN pendingApprovals :
          pendingApprovals[k] \in [msg : Calls, createdAt : Nat]
    /\ now \in Nat
    /\ hooks \subseteq [url : Callbacks, id : TaskIds, status : Statuses]
    /\ pc \in [Calls -> Phases]
    /\ req \in [Calls -> Message]
    /\ preID \in [Calls -> Nat]
    /\ loc \in [Calls -> Local]
    /\ took \in [Calls -> Calls \cup {NoCall}]

(* A pause is answered at most once, whatever approvals and rejections     *)
(* race for it: no two calls take the same message out of                  *)
(* pendingApprovals, and a message taken is in the table under no key.     *)
ResolvedOnce ==
    \A c \in Calls : took[c] # NoCall =>
        /\ \A d \in Calls : took[d] = took[c] => d = c
        /\ \A k \in DOMAIN pendingApprovals : pendingApprovals[k].msg # took[c]

(* A trigger message to a role with a HITLConfig is never executed by its  *)
(* own Send: only by an "approve" that took it out of the table.           *)
OnlyApprovedRun ==
    \A c \in Calls : pc[c] \in Ran =>
        /\ ~Guarded(c)
        /\ took[c] # NoCall => req[c].text = "approve"

(* The transitions of a recorded task tell one story although they are     *)
(* assembled from a snapshot, from the call's own steps and by Cancel:     *)
(* each starts where the one before it ended (a rejection starts at the    *)
(* pause it answers), and the last one ends at the task's status.          *)
Linked(s) ==
    \A i \in 1..(Len(s) - 1) :
        \/ s[i + 1].from = s[i].to
        \/ s[i].to = "working" /\ s[i + 1] = Step("input-required", "rejected")

TransitionsTellTheStatus ==
    \A id \in DOMAIN tasks :
        LET s == tasks[id].transitions IN
        /\ Len(s) > 0
        /\ s[Len(s)].to = tasks[id].status
        /\ Linked(s)

(* However many messages, pauses and cancellations a task sees, its record *)
(* stays bounded: the transitions by maxTaskTransitions, the history by    *)
(* one more than maxTaskHistory, because a pause and a rejection append    *)
(* the message once more after the trim.                                   *)
RecordBounded ==
    \A id \in DOMAIN tasks :
        /\ Len(tasks[id].transitions) <= MaxTransitions
        /\ Len(tasks[id].history) <= MaxHistory + 1

(* A client has named the task in the metadata of a direct message. *)
NamedByClient(id) == \E c \in Calls : ~req[c].stream /\ req[c].taskID = id

(* Messages of two contexts never meet in one task, although ids are       *)
(* handed out by two endpoints, contexts may be task ids, approvals run    *)
(* messages that other calls sent, and the sweep may leave an index entry  *)
(* behind.  Only a client that names a task itself can mix them.           *)
ContextsIsolated ==
    \A id \in DOMAIN tasks : ~NamedByClient(id) =>
        \A i, j \in 1..Len(tasks[id].history) :
            LET k == req[tasks[id].history[i]].ctx
                l == req[tasks[id].history[j]].ctx
            IN  k \in Contexts /\ l \in Contexts => k = l

(* A client may use the id of a task as a context; none has done so yet.   *)
NoIdAsContext == \A c \in Calls : req[c].ctx \notin TaskIds

(* As long as clients use no task id as a context id and name no task,     *)
(* tasksByContext never dangles: its task is stored, under that context.   *)
IndexedTaskExists ==
    NoIdAsContext =>
        \A k \in DOMAIN tasksByContext : ~NamedByClient(tasksByContext[k]) =>
            /\ tasksByContext[k] \in DOMAIN tasks
            /\ tasks[tasksByContext[k]].ctx = k

(* A Send has stored an outcome of the task and is about to announce it.   *)
AboutToAnnounce(hook) ==
    \E c \in Calls :
        /\ pc[c] = "recorded"
        /\ hook = [url |-> loc[c].callback, id |-> loc[c].id, status |-> FinalTask(c).status]

(* The outcome is stored under the lock and announced after it, and other  *)
(* Sends, cancellations and sweeps come between: no outcome of a task with *)
(* a callback stays stored that was not announced to that callback, unless *)
(* a Send is just about to do so.                                          *)
OutcomeAnnounced ==
    \A id \in DOMAIN tasks :
        tasks[id].callback # NoCallback
        /\ tasks[id].status \in {"completed", "failed", "canceled"} =>
            LET hook == [url |-> tasks[id].callback, id |-> id, status |-> tasks[id].status]
            IN  hook \in hooks \/ AboutToAnnounce(hook)

(* A task that waits for input while no Send is in flight can be answered: *)
(* its message is in the table under its context, or under its own id.     *)
PausedIsAnswerable ==
    \A id \in DOMAIN tasks :
        tasks[id].status = "input-required" /\ (\A c \in Calls : pc[c] \notin InFlight) =>
            (IF tasks[id].ctx = NoContext THEN id ELSE tasks[id].ctx)
                \in DOMAIN pendingApprovals

(* README: pauses continue "by contextId".  While the task a context leads *)
(* to is stored, no step makes that context forget it.                     *)
ContinuationKept ==
    [][\A k \in DOMAIN tasksByContext :
          tasksByContext[k] \in DOMAIN tasks /\ tasksByContext[k] \in DOMAIN tasks'
              => k \in DOMAIN tasksByContext']_vars

(* The comment on applyHITLState: no TOCTOU between pause and approve.  An *)
(* approval continues the task that was paused: the call that takes a      *)
(* message out of the table works on the task its pause was recorded in.   *)
ApprovalResumesPausedTask ==
    \A c \in Calls : took[c] # NoCall => loc[c].id = loc[took[c]].id

(* The cleanup loop eventually drops an unanswered approval (those young   *)
(* enough to outlive the bounded clock are excepted).                      *)
PendingLeaves ==
    \A k \in Contexts \cup 1..Cardinality(Calls) :
      \A t \in {s \in Times : \E later \in Times : later - s > TTL} :
        (k \in DOMAIN pendingApprovals /\ pendingApprovals[k].createdAt = t)
            ~> ~(k \in DOMAIN pendingApprovals /\ pendingApprovals[k].createdAt = t)

(* The store implements the approval promise: where each message stands. *)
PhaseOf(c) ==
    CASE pc[c] \in {"idle", "opened"} -> "new"
      [] pc[c] = "hitl" -> "submitted"
      [] pc[c] = "refused" -> "refused"
      [] pc[c] \in Ran /\ took[c] = NoCall -> "running"
      [] pc[c] \in Ran \cup {"rejected"} /\ took[c] # NoCall -> "answer"
      [] pc[c] = "paused" /\ \E k \in DOMAIN pendingApprovals : pendingApprovals[k].msg = c
           -> "pending"
      [] pc[c] = "paused" /\ \E d \in Calls : took[d] = c /\ pc[d] \in Ran -> "running"
      [] pc[c] = "paused" /\ \E d \in Calls : took[d] = c /\ pc[d] = "rejected" -> "rejected"
      [] OTHER -> "expired"

Promise == INSTANCE Approvals WITH
    Messages <- Calls,
    phase <- [c \in Calls |-> PhaseOf(c)],
    guarded <- {c \in Calls : pc[c] \notin {"idle", "opened"} /\ Guarded(c)}

(* Each step of the store is a step of the promise or no step of it.       *)
ImplementsApprovals == Promise!Spec

=============================================================================
