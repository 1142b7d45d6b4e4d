----------------------------- MODULE A2AStream -----------------------------
(***************************************************************************)
(* handleStream on top of the task store of A2ATasks: the server-sent      *)
(* events each streaming call writes, from the status that announces a     *)
(* task id, through the chunks and artifacts the action yields while it    *)
(* runs, to the events that close the stream once Send has returned; and   *)
(* handleCancel, which cancels a task and then reads it for its answer.    *)
(* The handler writes one event at a time; other calls come between.       *)
(***************************************************************************)
EXTENDS A2ATasks

CONSTANTS
    Artifacts,  \* names of the artifacts actions produce
    FormName,   \* "ApprovalForm", the artifact of a paused task
    Results,    \* what actions may return: artifacts, a text or none, an error
    MaxYields   \* bound: the chunks and artifacts an action yields

(* A result lists its artifacts and may list a name twice; an error makes  *)
(* Send return its text and no artifacts.                                  *)
ASSUME ResultsAssumption ==
    /\ FormName \notin Artifacts
    /\ Results \subseteq [artifacts: Seq(Artifacts), text: BOOLEAN, failed: BOOLEAN]
    /\ \A r \in Results : r.failed => r.artifacts = <<>> /\ r.text
ASSUME MaxYieldsAssumption == MaxYields \in Nat

VARIABLES
    out,      \* the events written to each stream
    yielded,  \* the artifacts each running action has yielded, one by one
    handler,  \* where each stream handler is
    looked,   \* how many of the task's artifacts its last loop has looked at
    result,   \* what the action of each call returned
    cancel    \* the request to /tasks/cancel: its id, the Sends that had not
              \* recorded a task when it canceled, and the status it answered

streamVars == <<out, yielded, handler, looked, result, cancel>>
allVars == <<vars, streamVars>>

NoName == ""
Event(kind, id, name) == [kind |-> kind, id |-> id, name |-> name]
NoCancel == [id |-> NoTask, unrecorded |-> {}, answer |-> "error"]
NoResult == [artifacts |-> <<>>, text |-> FALSE, failed |-> FALSE]
HandlerPhases == {"idle", "sending", "artifacts", "returned"}

StreamInit ==
    /\ Init
    /\ out = [c \in Calls |-> <<>>]
    /\ yielded = [c \in Calls |-> <<>>]
    /\ handler = [c \in Calls |-> "idle"]
    /\ looked = [c \in Calls |-> 0]
    /\ result = [c \in Calls |-> NoResult]
    /\ cancel = NoCancel

(* writeSSEEvent *)
Write(c, kind, id, name) == out' = [out EXCEPT ![c] = Append(@, Event(kind, id, name))]
Goes(c, phase) == handler' = [handler EXCEPT ![c] = phase]

Chunks(c) == Len(SelectSeq(out[c], LAMBDA e : e.kind = "chunk"))
(* The names in streamedArtifacts. *)
Streamed(c) == {yielded[c][i] : i \in DOMAIN yielded[c]}

(* The task id is looked up or allocated, and announced; Send is called.   *)
Open(c, m) ==
    /\ OpenStream(c, m)
    /\ Write(c, "status", preID'[c], NoName)
    /\ Goes(c, "sending")
    /\ UNCHANGED <<yielded, looked, result, cancel>>

(* The callbacks of WithStreamYield and WithStreamArtifactYield.  An       *)
(* action may yield one name again and again.                              *)
YieldChunk(c) ==
    /\ pc[c] = "executing" /\ req[c].stream
    /\ Len(out[c]) <= MaxYields
    /\ Write(c, "chunk", preID[c], NoName)
    /\ UNCHANGED <<vars, yielded, handler, looked, result, cancel>>

YieldArtifact(c, name) ==
    /\ pc[c] = "executing" /\ req[c].stream
    /\ Len(out[c]) <= MaxYields
    /\ Write(c, "artifact", preID[c], name)
    /\ yielded' = [yielded EXCEPT ![c] = Append(@, name)]
    /\ UNCHANGED <<vars, handler, looked, result, cancel>>

(* The action returns; an error makes the outcome "failed", which others   *)
(* may have too.  Of a call without a stream the result does not matter.   *)
ActionReturns(c, final, r) ==
    /\ Execute(c, final)
    /\ r.failed => final = "failed"
    /\ result' = [result EXCEPT ![c] = IF req[c].stream THEN r ELSE NoResult]
    /\ UNCHANGED <<out, yielded, handler, looked, cancel>>

-----------------------------------------------------------------------------
(* What Send returned to the stream handler: an error, or a task with its  *)
(* artifacts in a list, which may name one twice.                          *)
Returned(c) == pc[c] \in {"finished", "paused", "rejected", "refused"}
Failed(c) == pc[c] = "refused" \/ (pc[c] = "finished" /\ result[c].failed)
ReturnedArtifacts(c) ==
    CASE pc[c] = "paused" -> <<FormName>>
      [] pc[c] = "finished" -> result[c].artifacts
      [] OTHER -> <<>>

(* A mutant of CloseWithError: a refusal ends the handler without a word.  *)
BadCloseWithError(c) ==
    /\ handler[c] = "sending" /\ Returned(c) /\ Failed(c)
    /\ IF pc[c] = "refused" THEN UNCHANGED out ELSE Write(c, "error", preID[c], NoName)
    /\ Goes(c, "returned")
    /\ UNCHANGED <<vars, yielded, looked, result, cancel>>

(* An error is the last event, under the announced id. *)
CloseWithError(c) ==
    /\ handler[c] = "sending" /\ Returned(c) /\ Failed(c)
    /\ Write(c, "error", preID[c], NoName)
    /\ Goes(c, "returned")
    /\ UNCHANGED <<vars, yielded, looked, result, cancel>>

(* The text is written unless chunks were; a rejected task has one, the    *)
(* prompt of a pause may be empty.                                         *)
WriteText(c, text) ==
    /\ handler[c] = "sending" /\ Returned(c) /\ ~Failed(c)
    /\ pc[c] = "finished" => text = result[c].text
    /\ pc[c] = "rejected" => text
    /\ IF Chunks(c) = 0 /\ text THEN Write(c, "chunk", loc[c].id, NoName) ELSE UNCHANGED out
    /\ Goes(c, "artifacts")
    /\ UNCHANGED <<vars, yielded, looked, result, cancel>>

(* A mutant of WriteArtifact: what was streamed is sent again. *)
BadWriteArtifact(c) ==
    /\ handler[c] = "artifacts" /\ looked[c] < Len(ReturnedArtifacts(c))
    /\ Write(c, "artifact", loc[c].id, ReturnedArtifacts(c)[looked[c] + 1])
    /\ looked' = [looked EXCEPT ![c] = @ + 1]
    /\ UNCHANGED <<vars, yielded, handler, result, cancel>>

(* The loop over the task's artifacts: those not streamed are written.     *)
WriteArtifact(c) ==
    /\ handler[c] = "artifacts" /\ looked[c] < Len(ReturnedArtifacts(c))
    /\ LET name == ReturnedArtifacts(c)[looked[c] + 1] IN
       IF name \in Streamed(c) THEN UNCHANGED out
       ELSE Write(c, "artifact", loc[c].id, name)
    /\ looked' = [looked EXCEPT ![c] = @ + 1]
    /\ UNCHANGED <<vars, yielded, handler, result, cancel>>

Complete(c) ==
    /\ handler[c] = "artifacts" /\ looked[c] = Len(ReturnedArtifacts(c))
    /\ Write(c, "complete", loc[c].id, NoName)
    /\ Goes(c, "returned")
    /\ UNCHANGED <<vars, yielded, looked, result, cancel>>

(* handleCancel.  Transport.Cancel returns nil for a task that is already  *)
(* canceled; an unknown id is answered with its error.  This is one such   *)
(* request at a time; others cancel beside it (Cancel in StreamNext).      *)
CancelTask(id) ==
    /\ cancel.answer # NoStatus
    /\ \/ Cancel(id)
       \/ id \in DOMAIN tasks /\ tasks[id].status = "canceled" /\ UNCHANGED vars
    /\ cancel' = [id |-> id, answer |-> NoStatus,
                  unrecorded |-> {c \in Calls : ~Returned(c) /\ pc[c] # "recorded"}]
    /\ UNCHANGED <<out, yielded, handler, looked, result>>

CancelUnknown(id) ==
    /\ cancel.answer # NoStatus
    /\ id \notin DOMAIN tasks
    /\ cancel' = NoCancel
    /\ UNCHANGED <<vars, out, yielded, handler, looked, result>>

(* The task is read under a lock of its own: it may have been overwritten  *)
(* by then, or swept, in which case the answer is made up.  Of a request   *)
(* that is answered "canceled" nothing else is kept.                       *)
AnswerCancel ==
    /\ cancel.answer = NoStatus
    /\ LET answer == IF cancel.id \in DOMAIN tasks THEN tasks[cancel.id].status ELSE "canceled"
       IN cancel' = [(IF answer = "canceled" THEN NoCancel ELSE cancel) EXCEPT !.answer = answer]
    /\ UNCHANGED <<vars, out, yielded, handler, looked, result>>

HandleStream(c) ==
    \/ \E m \in Requests : Open(c, m)
    \/ YieldChunk(c)
    \/ \E name \in Artifacts : YieldArtifact(c, name)
    \/ CloseWithError(c)
    \/ \E text \in BOOLEAN : WriteText(c, text)
    \/ WriteArtifact(c)
    \/ Complete(c)

StreamNext ==
    \/ \E c \in Calls :
          \/ HandleStream(c)
          \/ \E m \in Requests : (RefuseRole(c, m) \/ Prepare(c, m)) /\ UNCHANGED streamVars
          \/ (Hitl(c) \/ Record(c) \/ Announce(c)) /\ UNCHANGED streamVars
          \/ \E final \in Outcomes, r \in Results : ActionReturns(c, final, r)
    \/ \E id \in 1..taskSeq : CancelTask(id) \/ CancelUnknown(id)
    \/ AnswerCancel
    \/ \E id \in DOMAIN tasks : Cancel(id) /\ UNCHANGED streamVars
    \/ \E tick \in Times : tick <= now /\ Sweep(tick) /\ UNCHANGED streamVars
    \/ Tick /\ UNCHANGED streamVars

StreamSpec == StreamInit /\ [][StreamNext]_allVars

-----------------------------------------------------------------------------
Closed(c) == out[c] # <<>> /\ out[c][Len(out[c])].kind \in {"error", "complete"}

(* A stream begins with the status event, and on every path out of Send,   *)
(* refusals and errors too, the handler writes exactly one error or        *)
(* complete event: it has written one when it returns, not before, and     *)
(* nothing after it.                                                       *)
StreamGrammar ==
    \A c \in Calls :
        /\ handler[c] = "returned" <=> Closed(c)
        /\ \A i \in 1..Len(out[c]) :
              /\ out[c][i].kind = "status" <=> i = 1
              /\ out[c][i].kind \in {"error", "complete"} => i = Len(out[c])

(* How many members of S stand at the first n places of a sequence. *)
CountTo(s, n, S) == Cardinality({i \in 1..n : s[i] \in S})

Copies(name) == [kind: {"artifact"}, id: Nat, name: {name}]
Written(c, name) == CountTo(out[c], Len(out[c]), Copies(name))
Yields(c, name) == CountTo(yielded[c], Len(yielded[c]), {name})
Listed(c, name) == CountTo(ReturnedArtifacts(c), Len(ReturnedArtifacts(c)), {name})
Owed(c, name) == IF Yields(c, name) > 0 THEN Yields(c, name) ELSE Listed(c, name)

(* An artifact reaches the client from the running action or from the      *)
(* returned task, never from both: a stream carries a name as often as it  *)
(* was yielded, or, if it never was, as often as the task lists it; a      *)
(* completed stream not less often either.                                 *)
ArtifactsOnce ==
    \A c \in Calls, name \in Artifacts \cup {FormName} :
        /\ Written(c, name) <= Owed(c, name)
        /\ handler[c] = "returned" /\ ~Failed(c) => Written(c, name) = Owed(c, name)

(* The id a stream announces is the id of the task it completes, whenever  *)
(* no other call can own the context: for a message without one.           *)
AnnouncedIdKept ==
    \A c \in Calls : req[c].stream /\ req[c].ctx = NoContext =>
        \A i \in 1..Len(out[c]) : out[c][i].id = preID[c]

(* The status under which a Send has recorded its task. *)
Stored(c, status) ==
    \/ pc[c] = "paused" /\ status = "input-required"
    \/ pc[c] = "rejected" /\ status = "rejected"
    \/ pc[c] \in {"recorded", "finished"} /\ status \in Outcomes

(* A cancellation that is answered with any other status than "canceled"   *)
(* was undone by a Send: one that had not recorded a task when it took     *)
(* effect, begun before or since, and that has recorded this task since,   *)
(* with the status that is answered.                                       *)
CancelAnswered ==
    cancel.answer \notin {NoStatus, "error", "canceled"} =>
        \E c \in cancel.unrecorded : loc[c].id = cancel.id /\ Stored(c, cancel.answer)
=============================================================================
