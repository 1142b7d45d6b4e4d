--------------------------- MODULE A2AStreamProofs ---------------------------
(***************************************************************************)
(* Machine-checked theorems about A2AStream, for any number of calls,      *)
(* artifacts and yields.  The stream handler is one more way of calling    *)
(* Send, so what A2ATasksProofs proves of the store holds here; the        *)
(* invariants below say what each stream carries at each point of its call.*)
(***************************************************************************)
EXTENDS A2AStream, A2ATasksProofs, FiniteSetTheorems

(* Whatever the streams write, the store below moves as A2ATasks says.     *)
LEMMA StreamStepIsStep == [StreamNext]_allVars => [Next]_vars
<1>1. ASSUME NEW c \in Calls, NEW m \in Requests,
             \/ Open(c, m) \/ RefuseRole(c, m) \/ Prepare(c, m)
             \/ Hitl(c) \/ Record(c) \/ Announce(c)
      PROVE  Next
  BY <1>1 DEF Open, Next, Send
<1>2. ASSUME NEW c \in Calls, Hitl(c) \/ Record(c) \/ Announce(c) PROVE Next
  BY <1>2 DEF Next, Send
<1>3. ASSUME NEW c \in Calls, HandleStream(c) PROVE [Next]_vars
  <2>1. (\E m \in Requests : Open(c, m)) \/ UNCHANGED vars
    BY <1>3 DEF HandleStream, YieldChunk, YieldArtifact, CloseWithError, WriteText,
                WriteArtifact, Complete
  <2>. QED
    BY <1>1, <2>1
<1>4. ASSUME NEW c \in Calls, NEW final \in Outcomes, NEW r, ActionReturns(c, final, r)
      PROVE  Next
  BY <1>4 DEF ActionReturns, Next, Send
<1>5. ASSUME NEW id, CancelTask(id) \/ CancelUnknown(id) PROVE [Next]_vars
  BY <1>5 DEF CancelTask, CancelUnknown, Cancel, Next
<1>6. ASSUME \/ \E tick \in Times : tick <= now /\ Sweep(tick)
             \/ \E id \in DOMAIN tasks : Cancel(id)
             \/ Tick
             \/ UNCHANGED allVars
      PROVE  [Next]_vars
  BY <1>6 DEF Next, allVars
<1>7. AnswerCancel => UNCHANGED vars
  BY DEF AnswerCancel
<1>. QED
  BY <1>1, <1>2, <1>3, <1>4, <1>5, <1>6, <1>7 DEF StreamNext

(* Every behaviour of the streaming endpoint is a behaviour of the task    *)
(* store: its theorems hold while streams are written and tasks canceled.  *)
THEOREM StreamImplementsStore == StreamSpec => Spec
<1>1. StreamInit => Init
  BY DEF StreamInit
<1>. QED
  BY <1>1, StreamStepIsStep, PTL DEF StreamSpec, Spec

-----------------------------------------------------------------------------
(* Types of what the streams add. *)
Events == [kind : {"status", "chunk", "artifact", "error", "complete"},
           id : Nat, name : Artifacts \cup {FormName, NoName}]

StreamTypeOK ==
    /\ out \in [Calls -> Seq(Events)]
    /\ yielded \in [Calls -> Seq(Artifacts)]
    /\ handler \in [Calls -> HandlerPhases]
    /\ looked \in [Calls -> Nat]
    /\ result \in [Calls -> [artifacts : Seq(Artifacts), text : BOOLEAN, failed : BOOLEAN]]
    /\ cancel \in [id : Nat, unrecorded : SUBSET Calls,
                   answer : Statuses \cup {NoStatus, "error"}]

(* What the task of a call lists. *)
LEMMA ReturnedList ==
    StreamTypeOK => \A c \in Calls :
        /\ ReturnedArtifacts(c) \in Seq(Artifacts \cup {FormName})
        /\ Len(ReturnedArtifacts(c)) \in Nat
<1>. SUFFICES ASSUME StreamTypeOK, NEW c \in Calls
              PROVE  /\ ReturnedArtifacts(c) \in Seq(Artifacts \cup {FormName})
                     /\ Len(ReturnedArtifacts(c)) \in Nat
  OBVIOUS
<1>1. result[c].artifacts \in Seq(Artifacts)
  BY DEF StreamTypeOK
<1>2. ASSUME NEW s \in Seq(Artifacts) PROVE s \in Seq(Artifacts \cup {FormName})
  OBVIOUS
<1>3. <<>> \in Seq(Artifacts \cup {FormName}) /\ <<FormName>> \in Seq(Artifacts \cup {FormName})
  OBVIOUS
<1>4. ReturnedArtifacts(c) \in Seq(Artifacts \cup {FormName})
  BY <1>1, <1>2, <1>3 DEF ReturnedArtifacts
<1>5. \A s \in Seq(Artifacts \cup {FormName}) : Len(s) \in Nat
  OBVIOUS
<1>. QED
  BY <1>4, <1>5

(* An event at the end of a stream. *)
LEMMA Appended ==
    ASSUME NEW S, NEW s \in Seq(S), NEW e \in S
    PROVE  /\ Append(s, e) \in Seq(S) /\ Len(Append(s, e)) = Len(s) + 1 /\ Len(s) \in Nat
           /\ \A i \in 1..Len(s) : Append(s, e)[i] = s[i]
           /\ Append(s, e)[Len(s) + 1] = e
BY AppendProperties

-----------------------------------------------------------------------------
(* What a step does to the stream of a call: nothing, or one of the steps  *)
(* of its handler, each of which writes at most one event.                 *)
Silent(c) ==
    /\ out'[c] = out[c] /\ yielded'[c] = yielded[c]
    /\ handler'[c] = handler[c] /\ looked'[c] = looked[c]
    /\ result'[c] = result[c] \/ pc[c] = "executing"
    /\ pc[c] = "idle" /\ pc'[c] # "idle" => ~req'[c].stream

Adds(c, e) == e \in Events /\ out'[c] = Append(out[c], e)

Opens(c, e) ==
    /\ pc[c] = "idle" /\ pc'[c] = "opened" /\ req'[c].stream
    /\ Adds(c, e) /\ e.kind = "status" /\ e.id = preID'[c]
    /\ preID'[c] # NoTask
    /\ handler'[c] = "sending"
    /\ UNCHANGED <<yielded, looked, result, cancel>>

Yielding(c, e) ==
    /\ pc[c] = "executing" /\ req[c].stream
    /\ Adds(c, e) /\ e.id = preID[c]
    /\ \/ e.kind = "chunk" /\ yielded'[c] = yielded[c]
       \/ e.kind = "artifact" /\ e.name \in Artifacts /\ yielded'[c] = Append(yielded[c], e.name)
    /\ handler'[c] = handler[c]
    /\ UNCHANGED <<vars, looked, result, cancel>>

Fails(c, e) ==
    /\ handler[c] = "sending" /\ Returned(c) /\ Failed(c)
    /\ Adds(c, e) /\ e.kind = "error" /\ e.id = preID[c]
    /\ handler'[c] = "returned"
    /\ UNCHANGED <<vars, yielded, looked, result, cancel>>

Prompts(c, e) ==
    /\ handler[c] = "sending" /\ Returned(c) /\ ~Failed(c)
    /\ out'[c] = out[c] \/ (Adds(c, e) /\ e.kind = "chunk" /\ e.id = loc[c].id)
    /\ handler'[c] = "artifacts"
    /\ UNCHANGED <<vars, yielded, looked, result, cancel>>

Hands(c, e) ==
    /\ handler[c] = "artifacts" /\ looked[c] < Len(ReturnedArtifacts(c))
    /\ LET name == ReturnedArtifacts(c)[looked[c] + 1] IN
       \/ name \in Streamed(c) /\ out'[c] = out[c]
       \/ /\ name \notin Streamed(c)
          /\ Adds(c, e) /\ e.kind = "artifact" /\ e.id = loc[c].id /\ e.name = name
    /\ handler'[c] = handler[c]
    /\ looked'[c] = looked[c] + 1
    /\ UNCHANGED <<vars, yielded, result, cancel>>

Completes(c, e) ==
    /\ handler[c] = "artifacts" /\ looked[c] = Len(ReturnedArtifacts(c))
    /\ Adds(c, e) /\ e.kind = "complete" /\ e.id = loc[c].id
    /\ handler'[c] = "returned"
    /\ UNCHANGED <<vars, yielded, looked, result, cancel>>

LEMMA EventTyped ==
    ASSUME NEW kind \in {"status", "chunk", "artifact", "error", "complete"}, NEW id \in Nat,
           NEW name \in Artifacts \cup {FormName, NoName}
    PROVE  /\ Event(kind, id, name) \in Events
           /\ Event(kind, id, name).kind = kind
           /\ Event(kind, id, name).id = id
           /\ Event(kind, id, name).name = name
BY DEF Event, Events

(* Writing to one stream leaves the others as they were. *)
LEMMA WriteTyped ==
    ASSUME StreamTypeOK, NEW c \in Calls,
           NEW kind \in {"status", "chunk", "artifact", "error", "complete"}, NEW id \in Nat,
           NEW name \in Artifacts \cup {FormName, NoName}, Write(c, kind, id, name)
    PROVE  /\ Adds(c, Event(kind, id, name))
           /\ out' \in [Calls -> Seq(Events)]
           /\ \A d \in Calls \ {c} : out'[d] = out[d]
<1>. DEFINE e == Event(kind, id, name)
<1>1. e \in Events
  BY EventTyped
<1>2. out' = [out EXCEPT ![c] = Append(@, e)]
  BY DEF Write
<1>. HIDE DEF e
<1>3. out \in [Calls -> Seq(Events)]
  BY DEF StreamTypeOK
<1>4. out[c] \in Seq(Events) /\ Append(out[c], e) \in Seq(Events)
  BY <1>1, <1>3, Appended
<1>5. out'[c] = Append(out[c], e) /\ out' \in [Calls -> Seq(Events)]
      /\ \A d \in Calls \ {c} : out'[d] = out[d]
  BY <1>2, <1>3, <1>4
<1>6. Adds(c, e)
  BY <1>1, <1>5 DEF Adds
<1>. QED
  BY <1>5, <1>6 DEF e

(* A step of a handler is one of those, and leaves the other calls alone.  *)
Beside(c) ==
    /\ \A d \in Calls \ {c} :
          /\ out'[d] = out[d] /\ yielded'[d] = yielded[d]
          /\ handler'[d] = handler[d] /\ looked'[d] = looked[d] /\ pc'[d] = pc[d]
    /\ out' \in [Calls -> Seq(Events)]
    /\ yielded' \in [Calls -> Seq(Artifacts)]
    /\ handler' \in [Calls -> HandlerPhases]
    /\ looked' \in [Calls -> Nat]
    /\ UNCHANGED <<result, cancel>>

Handles(c) ==
    \E e : \/ Opens(c, e) \/ Yielding(c, e) \/ Fails(c, e)
           \/ Prompts(c, e) \/ Hands(c, e) \/ Completes(c, e)

LEMMA HandlerKinds ==
    ASSUME TypeInv, StreamTypeOK, NEW c \in Calls, HandleStream(c)
    PROVE  Handles(c) /\ Beside(c)
<1>0. /\ pc \in [Calls -> Phases] /\ preID \in [Calls -> Nat]
      /\ taskSeq \in Nat /\ loc[c].id \in Nat
      /\ out \in [Calls -> Seq(Events)] /\ yielded \in [Calls -> Seq(Artifacts)]
      /\ handler \in [Calls -> HandlerPhases] /\ looked \in [Calls -> Nat]
      /\ preID[c] \in Nat
  BY DEF TypeInv, TypeOK, Local, StreamTypeOK
<1>1. ASSUME NEW m \in Requests, Open(c, m) PROVE Handles(c) /\ Beside(c)
  <2>1. preID'[c] \in Nat /\ preID'[c] # NoTask
    <3>1. StreamTask(m.ctx) \in Nat
      BY DEF StreamTask, TypeInv, TypeOK, TaskIds, NoTask
    <3>. QED
      BY <1>0, <1>1, <3>1 DEF Open, OpenStream, NextId, NoTask
  <2>. DEFINE e == Event("status", preID'[c], NoName)
  <2>2. e.kind = "status" /\ e.id = preID'[c] /\ e \in Events
    BY <2>1, EventTyped
  <2>3. out' = [out EXCEPT ![c] = Append(@, e)]
    BY <1>1 DEF Open, Write
  <2>. HIDE DEF e
  <2>4. Append(out[c], e) \in Seq(Events)
    BY <1>0, <2>2, Appended
  <2>5. out'[c] = Append(out[c], e) /\ out' \in [Calls -> Seq(Events)]
        /\ \A d \in Calls \ {c} : out'[d] = out[d]
    BY <1>0, <2>3, <2>4
  <2>6. /\ pc[c] = "idle" /\ pc'[c] = "opened" /\ req'[c].stream
        /\ \A d \in Calls \ {c} : pc'[d] = pc[d]
    BY <1>0, <1>1 DEF Open, OpenStream, TypeInv, TypeOK
  <2>7. /\ handler' = [handler EXCEPT ![c] = "sending"]
        /\ UNCHANGED <<yielded, looked, result, cancel>>
    BY <1>1 DEF Open, Goes
  <2>8. Opens(c, e)
    BY <1>0, <2>1, <2>2, <2>5, <2>6, <2>7 DEF Opens, Adds
  <2>9. Beside(c)
    BY <1>0, <2>5, <2>6, <2>7 DEF Beside, HandlerPhases
  <2>. QED
    BY <2>8, <2>9 DEF Handles
<1>2. CASE YieldChunk(c)
  <2>. DEFINE e == Event("chunk", preID[c], NoName)
  <2>1. e.kind = "chunk" /\ e.id = preID[c] /\ Adds(c, e)
        /\ out' \in [Calls -> Seq(Events)] /\ \A d \in Calls \ {c} : out'[d] = out[d]
    BY <1>0, <1>2, EventTyped, WriteTyped DEF YieldChunk
  <2>. HIDE DEF e
  <2>2. Yielding(c, e)
    BY <1>2, <2>1 DEF YieldChunk, Yielding
  <2>3. Beside(c)
    BY <1>0, <1>2, <2>1 DEF YieldChunk, Beside, vars
  <2>. QED
    BY <2>2, <2>3 DEF Handles
<1>3. ASSUME NEW name \in Artifacts, YieldArtifact(c, name) PROVE Handles(c) /\ Beside(c)
  <2>. DEFINE e == Event("artifact", preID[c], name)
  <2>1. e.kind = "artifact" /\ e.id = preID[c] /\ e.name = name /\ Adds(c, e)
        /\ out' \in [Calls -> Seq(Events)] /\ \A d \in Calls \ {c} : out'[d] = out[d]
    BY <1>0, <1>3, EventTyped, WriteTyped DEF YieldArtifact
  <2>. HIDE DEF e
  <2>2. Append(yielded[c], name) \in Seq(Artifacts)
    BY <1>0, Appended
  <2>3. yielded'[c] = Append(yielded[c], name) /\ yielded' \in [Calls -> Seq(Artifacts)]
        /\ \A d \in Calls \ {c} : yielded'[d] = yielded[d]
    BY <1>0, <1>3, <2>2 DEF YieldArtifact
  <2>4. Yielding(c, e)
    BY <1>3, <2>1, <2>3 DEF YieldArtifact, Yielding
  <2>5. Beside(c)
    BY <1>0, <1>3, <2>1, <2>3 DEF YieldArtifact, Beside, vars
  <2>. QED
    BY <2>4, <2>5 DEF Handles
<1>4. CASE CloseWithError(c)
  <2>. DEFINE e == Event("error", preID[c], NoName)
  <2>1. e.kind = "error" /\ e.id = preID[c] /\ Adds(c, e)
        /\ out' \in [Calls -> Seq(Events)] /\ \A d \in Calls \ {c} : out'[d] = out[d]
    BY <1>0, <1>4, EventTyped, WriteTyped DEF CloseWithError
  <2>. HIDE DEF e
  <2>2. Fails(c, e)
    BY <1>0, <1>4, <2>1 DEF CloseWithError, Goes, Fails
  <2>3. Beside(c)
    BY <1>0, <1>4, <2>1 DEF CloseWithError, Goes, Beside, vars, HandlerPhases
  <2>. QED
    BY <2>2, <2>3 DEF Handles
<1>5. ASSUME NEW text \in BOOLEAN, WriteText(c, text) PROVE Handles(c) /\ Beside(c)
  <2>. DEFINE e == Event("chunk", loc[c].id, NoName)
  <2>1. /\ out'[c] = out[c] \/ (Adds(c, e) /\ e.kind = "chunk" /\ e.id = loc[c].id)
        /\ out' \in [Calls -> Seq(Events)] /\ \A d \in Calls \ {c} : out'[d] = out[d]
    <3>1. CASE Write(c, "chunk", loc[c].id, NoName)
      BY <1>0, <3>1, EventTyped, WriteTyped
    <3>2. CASE UNCHANGED out
      BY <1>0, <3>2
    <3>. QED
      BY <1>5, <3>1, <3>2 DEF WriteText
  <2>. HIDE DEF e
  <2>2. Prompts(c, e)
    BY <1>0, <1>5, <2>1 DEF WriteText, Goes, Prompts
  <2>3. Beside(c)
    BY <1>0, <1>5, <2>1 DEF WriteText, Goes, Beside, vars, HandlerPhases
  <2>. QED
    BY <2>2, <2>3 DEF Handles
<1>6. CASE WriteArtifact(c)
  <2>. DEFINE name == ReturnedArtifacts(c)[looked[c] + 1]
              e == Event("artifact", loc[c].id, name)
  <2>1. /\ handler[c] = "artifacts" /\ looked[c] < Len(ReturnedArtifacts(c))
        /\ looked' = [looked EXCEPT ![c] = @ + 1]
        /\ UNCHANGED <<vars, yielded, handler, result, cancel>>
        /\ \/ name \in Streamed(c) /\ UNCHANGED out
           \/ name \notin Streamed(c) /\ Write(c, "artifact", loc[c].id, name)
    BY <1>6 DEF WriteArtifact
  <2>2. name \in Artifacts \cup {FormName}
    <3>1. looked[c] + 1 \in 1..Len(ReturnedArtifacts(c))
      BY <1>0, <2>1, ReturnedList
    <3>. QED
      BY <3>1, ReturnedList
  <2>3. /\ \/ name \in Streamed(c) /\ out'[c] = out[c]
           \/ /\ name \notin Streamed(c)
              /\ Adds(c, e) /\ e.kind = "artifact" /\ e.id = loc[c].id /\ e.name = name
        /\ out' \in [Calls -> Seq(Events)] /\ \A d \in Calls \ {c} : out'[d] = out[d]
    <3>1. CASE name \in Streamed(c) /\ UNCHANGED out
      BY <1>0, <3>1
    <3>2. CASE name \notin Streamed(c) /\ Write(c, "artifact", loc[c].id, name)
      <4>. HIDE DEF name
      <4>. QED
        BY <1>0, <2>2, <3>2, EventTyped, WriteTyped
    <3>. QED
      BY <2>1, <3>1, <3>2
  <2>. HIDE DEF e
  <2>4. Hands(c, e)
    BY <1>0, <2>1, <2>3 DEF Hands
  <2>5. Beside(c)
    <3>1. looked' \in [Calls -> Nat] /\ \A d \in Calls \ {c} : looked'[d] = looked[d]
      BY <1>0, <2>1
    <3>2. UNCHANGED <<pc, yielded, handler, result, cancel>>
      BY <2>1 DEF vars
    <3>. HIDE DEF name
    <3>. QED
      BY <1>0, <2>3, <3>1, <3>2 DEF Beside
  <2>. QED
    BY <2>4, <2>5 DEF Handles
<1>7. CASE Complete(c)
  <2>. DEFINE e == Event("complete", loc[c].id, NoName)
  <2>1. e.kind = "complete" /\ e.id = loc[c].id /\ Adds(c, e)
        /\ out' \in [Calls -> Seq(Events)] /\ \A d \in Calls \ {c} : out'[d] = out[d]
    BY <1>0, <1>7, EventTyped, WriteTyped DEF Complete
  <2>. HIDE DEF e
  <2>2. Completes(c, e)
    BY <1>0, <1>7, <2>1 DEF Complete, Goes, Completes
  <2>3. Beside(c)
    BY <1>0, <1>7, <2>1 DEF Complete, Goes, Beside, vars, HandlerPhases
  <2>. QED
    BY <2>2, <2>3 DEF Handles
<1>. QED
  BY <1>1, <1>2, <1>3, <1>4, <1>5, <1>6, <1>7 DEF HandleStream

LEMMA SilentOrHandles ==
    ASSUME TypeInv, StreamTypeOK, [StreamNext]_allVars, NEW c \in Calls
    PROVE  Silent(c) \/ Handles(c)
<1>0. /\ pc \in [Calls -> Phases] /\ req \in [Calls -> Message] /\ DOMAIN result = Calls
  BY DEF TypeInv, TypeOK, StreamTypeOK
<1>1. ASSUME NEW d \in Calls, HandleStream(d) PROVE Silent(c) \/ Handles(c)
  <2>1. CASE d = c
    BY <1>1, <2>1, HandlerKinds
  <2>2. CASE d # c
    <3>1. Beside(d)
      BY <1>1, HandlerKinds
    <3>. QED
      BY <2>2, <3>1 DEF Beside, Silent
  <2>. QED
    BY <2>1, <2>2
<1>2. ASSUME NEW d \in Calls, NEW m \in Requests, RefuseRole(d, m) \/ Prepare(d, m),
             UNCHANGED streamVars
      PROVE  Silent(c)
  BY <1>0, <1>2 DEF RefuseRole, Prepare, Starts, streamVars, Silent
<1>3. ASSUME NEW d \in Calls, Hitl(d) \/ Record(d) \/ Announce(d), UNCHANGED streamVars
      PROVE Silent(c)
  <2>1. /\ pc[d] \in {"hitl", "recording", "recorded"}
        /\ \E phase \in Phases : pc' = [pc EXCEPT ![d] = phase]
    BY <1>3 DEF Hitl, Record, Announce, Approve, Reject, RefuseUndecided, RefuseAnswer,
                RefuseExpired, Pause, Proceed, Return, Phases
  <2>. QED
    BY <1>0, <1>3, <2>1 DEF streamVars, Silent
<1>4. ASSUME NEW d \in Calls, NEW final \in Outcomes, NEW r \in Results, ActionReturns(d, final, r)
      PROVE  Silent(c)
  BY <1>0, <1>4 DEF ActionReturns, Execute, Silent
<1>5. ASSUME NEW id, CancelTask(id) \/ CancelUnknown(id) \/ AnswerCancel PROVE Silent(c)
  BY <1>5 DEF CancelTask, CancelUnknown, AnswerCancel, Cancel, vars, Silent
<1>6. ASSUME \/ \E tick \in Times : Sweep(tick) /\ UNCHANGED streamVars
             \/ \E id \in DOMAIN tasks : Cancel(id) /\ UNCHANGED streamVars
             \/ Tick /\ UNCHANGED streamVars
             \/ UNCHANGED allVars
      PROVE  Silent(c)
  BY <1>6 DEF Sweep, Tick, Cancel, vars, streamVars, allVars, Silent
<1>. QED
  BY <1>1, <1>2, <1>3, <1>4, <1>5, <1>6 DEF StreamNext

(* The stream types. *)
LEMMA StreamTypesNext ==
    ASSUME TypeInv, StreamTypeOK, [StreamNext]_allVars
    PROVE  StreamTypeOK'
<1>0. /\ \A id \in DOMAIN tasks : tasks[id].status \in Statuses
      /\ taskSeq \in Nat
  BY DEF TypeInv, TypeOK, Task
<1>1. ASSUME NEW c \in Calls, HandleStream(c) PROVE StreamTypeOK'
  BY <1>1, HandlerKinds DEF Beside, StreamTypeOK
<1>2. ASSUME NEW c \in Calls, NEW final \in Outcomes, NEW r \in Results, ActionReturns(c, final, r)
      PROVE  StreamTypeOK'
  <2>1. \E x \in {r, NoResult} : result' = [result EXCEPT ![c] = x]
    BY <1>2 DEF ActionReturns
  <2>2. r \in [artifacts : Seq(Artifacts), text : BOOLEAN, failed : BOOLEAN]
    BY ResultsAssumption
  <2>3. NoResult \in [artifacts : Seq(Artifacts), text : BOOLEAN, failed : BOOLEAN]
    BY DEF NoResult
  <2>4. result' \in [Calls -> [artifacts : Seq(Artifacts), text : BOOLEAN, failed : BOOLEAN]]
    BY <2>1, <2>2, <2>3 DEF StreamTypeOK
  <2>. QED
    BY <1>2, <2>4 DEF ActionReturns, StreamTypeOK
<1>3. ASSUME NEW id \in 1..taskSeq, CancelTask(id) \/ CancelUnknown(id) PROVE StreamTypeOK'
  <2>1. id \in Nat /\ UNCHANGED <<out, yielded, handler, looked, result>>
    BY <1>0, <1>3 DEF CancelTask, CancelUnknown
  <2>2. cancel' \in [id : Nat, unrecorded : SUBSET Calls,
                     answer : Statuses \cup {NoStatus, "error"}]
    BY <1>3, <2>1 DEF CancelTask, CancelUnknown, NoCancel, NoTask
  <2>. QED
    BY <2>1, <2>2 DEF StreamTypeOK
<1>4. CASE AnswerCancel
  <2>. DEFINE answer == IF cancel.id \in DOMAIN tasks THEN tasks[cancel.id].status ELSE "canceled"
  <2>1. answer \in Statuses
    BY <1>0 DEF Statuses
  <2>2. cancel' = [(IF answer = "canceled" THEN NoCancel ELSE cancel) EXCEPT !.answer = answer]
        /\ UNCHANGED <<out, yielded, handler, looked, result>>
    BY <1>4 DEF AnswerCancel
  <2>. HIDE DEF answer
  <2>3. cancel' \in [id : Nat, unrecorded : SUBSET Calls,
                     answer : Statuses \cup {NoStatus, "error"}]
    BY <2>1, <2>2 DEF StreamTypeOK, NoCancel, NoTask
  <2>. QED
    BY <2>2, <2>3 DEF StreamTypeOK
<1>5. CASE UNCHANGED streamVars
  BY <1>5 DEF streamVars, StreamTypeOK
<1>. QED
  BY <1>1, <1>2, <1>3, <1>4, <1>5 DEF StreamNext, allVars

-----------------------------------------------------------------------------
(* Counting in sequences. *)
LEMMA CountIsNat ==
    ASSUME NEW s, NEW n \in Nat, NEW S
    PROVE  CountTo(s, n, S) \in Nat /\ IsFiniteSet({i \in 1..n : s[i] \in S})
<1>1. IsFiniteSet(1..n)
  BY FS_Interval
<1>2. IsFiniteSet({i \in 1..n : s[i] \in S})
  BY <1>1, FS_Subset
<1>. QED
  BY <1>2, FS_CardinalityType DEF CountTo

LEMMA CountNone == ASSUME NEW s, NEW S PROVE CountTo(s, 0, S) = 0
<1>1. {i \in 1..0 : s[i] \in S} = {}
  OBVIOUS
<1>. QED
  BY <1>1, FS_EmptySet DEF CountTo

(* One place more. *)
LEMMA CountNext ==
    ASSUME NEW s, NEW n \in Nat, NEW S
    PROVE  CountTo(s, n + 1, S) = CountTo(s, n, S) + (IF s[n + 1] \in S THEN 1 ELSE 0)
<1>. DEFINE T == {i \in 1..n : s[i] \in S}
            U == {i \in 1..(n + 1) : s[i] \in S}
<1>1. IsFiniteSet(T) /\ Cardinality(T) \in Nat
  BY CountIsNat DEF CountTo
<1>2. CASE s[n + 1] \in S
  <2>1. U = T \cup {n + 1} /\ n + 1 \notin T
    BY <1>2
  <2>. HIDE DEF T, U
  <2>2. Cardinality(U) = Cardinality(T) + 1
    BY <1>1, <2>1, FS_AddElement
  <2>. QED
    BY <1>2, <2>2 DEF CountTo, T, U
<1>3. CASE s[n + 1] \notin S
  <2>1. U = T
    BY <1>3
  <2>. QED
    BY <1>1, <1>3, <2>1 DEF CountTo
<1>. QED
  BY <1>2, <1>3

(* What stands later does not count. *)
LEMMA CountSame ==
    ASSUME NEW s, NEW t, NEW n \in Nat, NEW S, \A i \in 1..n : s[i] = t[i]
    PROVE  CountTo(s, n, S) = CountTo(t, n, S)
<1>1. {i \in 1..n : s[i] \in S} = {i \in 1..n : t[i] \in S}
  OBVIOUS
<1>. QED
  BY <1>1 DEF CountTo

LEMMA CountGrows ==
    ASSUME NEW s, NEW m \in Nat, NEW n \in Nat, m <= n, NEW S
    PROVE  CountTo(s, m, S) <= CountTo(s, n, S)
<1>1. {i \in 1..m : s[i] \in S} \subseteq {i \in 1..n : s[i] \in S}
  OBVIOUS
<1>2. IsFiniteSet({i \in 1..n : s[i] \in S})
  BY CountIsNat
<1>. QED
  BY <1>1, <1>2, FS_Subset DEF CountTo

LEMMA CountPositive ==
    ASSUME NEW s, NEW n \in Nat, NEW S
    PROVE  CountTo(s, n, S) > 0 <=> \E i \in 1..n : s[i] \in S
<1>1. IsFiniteSet({i \in 1..n : s[i] \in S}) /\ CountTo(s, n, S) \in Nat
  BY CountIsNat
<1>2. CountTo(s, n, S) = 0 <=> {i \in 1..n : s[i] \in S} = {}
  BY <1>1, FS_EmptySet DEF CountTo
<1>. QED
  BY <1>1, <1>2

LEMMA CountAppended ==
    ASSUME NEW A, NEW s \in Seq(A), NEW e \in A, NEW S
    PROVE  CountTo(Append(s, e), Len(Append(s, e)), S)
              = CountTo(s, Len(s), S) + (IF e \in S THEN 1 ELSE 0)
<1>1. /\ Len(Append(s, e)) = Len(s) + 1 /\ Len(s) \in Nat
      /\ \A i \in 1..Len(s) : Append(s, e)[i] = s[i]
      /\ Append(s, e)[Len(s) + 1] = e
  BY Appended
<1>. DEFINE t == Append(s, e)
<1>. HIDE DEF t
<1>2. CountTo(t, Len(s) + 1, S) = CountTo(t, Len(s), S) + (IF t[Len(s) + 1] \in S THEN 1 ELSE 0)
  BY <1>1, CountNext
<1>3. CountTo(t, Len(s), S) = CountTo(s, Len(s), S)
  BY <1>1, CountSame DEF t
<1>. QED
  BY <1>1, <1>2, <1>3 DEF t

(* How often a name was written or yielded, after one event or yield more. *)
LEMMA WrittenNext ==
    ASSUME StreamTypeOK, NEW c \in Calls, NEW e, Adds(c, e), NEW name
    PROVE  Written(c, name)' = Written(c, name)
                + (IF e.kind = "artifact" /\ e.name = name THEN 1 ELSE 0)
<1>1. out[c] \in Seq(Events) /\ e \in Events /\ out'[c] = Append(out[c], e)
  BY DEF StreamTypeOK, Adds
<1>2. e \in Copies(name) <=> e.kind = "artifact" /\ e.name = name
  BY <1>1 DEF Events, Copies
<1>3. CountTo(Append(out[c], e), Len(Append(out[c], e)), Copies(name))
        = CountTo(out[c], Len(out[c]), Copies(name)) + (IF e \in Copies(name) THEN 1 ELSE 0)
  BY <1>1, CountAppended
<1>. QED
  BY <1>1, <1>2, <1>3 DEF Written

LookedAt(c, name) == CountTo(ReturnedArtifacts(c), looked[c], {name})

Counted(c, name) ==
    /\ Written(c, name) \in Nat /\ Yields(c, name) \in Nat
    /\ Yields(c, name) > 0 <=> name \in Streamed(c)
    /\ LookedAt(c, name) \in Nat /\ Listed(c, name) \in Nat

LEMMA CountsTyped == StreamTypeOK => \A c \in Calls : \A name : Counted(c, name)
<1>. SUFFICES ASSUME StreamTypeOK, NEW c \in Calls, NEW name PROVE Counted(c, name)
  OBVIOUS
<1>1. /\ out[c] \in Seq(Events) /\ yielded[c] \in Seq(Artifacts) /\ looked[c] \in Nat
      /\ Len(ReturnedArtifacts(c)) \in Nat
  BY ReturnedList DEF StreamTypeOK
<1>2. Len(out[c]) \in Nat /\ Len(yielded[c]) \in Nat /\ DOMAIN yielded[c] = 1..Len(yielded[c])
  BY <1>1
<1>3. Yields(c, name) > 0 <=> \E i \in 1..Len(yielded[c]) : yielded[c][i] \in {name}
  BY <1>2, CountPositive DEF Yields
<1>4. Yields(c, name) > 0 <=> name \in Streamed(c)
  BY <1>2, <1>3 DEF Streamed
<1>. QED
  BY <1>1, <1>2, <1>4, CountIsNat DEF Counted, Written, Yields, Listed, LookedAt

(* The same of the next state. *)
LEMMA NextLists == StreamTypeOK' => (\A c \in Calls : Len(ReturnedArtifacts(c)) \in Nat)'
<1>1. StreamTypeOK => \A c \in Calls : Len(ReturnedArtifacts(c)) \in Nat
  BY ReturnedList
<1>. QED
  BY <1>1, PTL

LEMMA NextCounts == StreamTypeOK' => (\A c \in Calls : \A name : Counted(c, name))'
BY CountsTyped, PTL

-----------------------------------------------------------------------------
(* What is said of the stream of each call, from its first event to the    *)
(* last: Order, its events; Course, how far the handler is; Carried, the   *)
(* artifacts, counted; Announced, the ids of a message without a context.  *)
Closing == {"error", "complete"}

Order(c) ==
    /\ pc[c] = "idle" \/ ~req[c].stream =>
          out[c] = <<>> /\ yielded[c] = <<>> /\ handler[c] = "idle"
    /\ pc[c] # "idle" /\ req[c].stream =>
          Len(out[c]) > 0 /\ out[c][1].kind = "status" /\ handler[c] # "idle"
    /\ \A i \in 2..Len(out[c]) : out[c][i].kind # "status"
    /\ \A i \in 1..(Len(out[c]) - 1) : out[c][i].kind \notin Closing

Course(c) ==
    /\ handler[c] = "returned" <=> Closed(c)
    /\ handler[c] \in {"idle", "sending"} => looked[c] = 0
    /\ handler[c] \in {"artifacts", "returned"} => Returned(c)
    /\ handler[c] = "artifacts" => ~Failed(c)
    /\ Failed(c) => looked[c] = 0
    /\ looked[c] <= Len(ReturnedArtifacts(c))
    /\ handler[c] = "returned" /\ ~Failed(c) => looked[c] = Len(ReturnedArtifacts(c))

Carried(c) ==
    \A name \in Artifacts \cup {FormName} :
        Written(c, name) = IF Yields(c, name) > 0 THEN Yields(c, name) ELSE LookedAt(c, name)

Announced(c) ==
    req[c].stream /\ req[c].ctx = NoContext =>
        /\ pc[c] # "idle" => preID[c] # NoTask
        /\ pc[c] \in InSend \cup {"recorded", "finished", "paused", "rejected"}
              => loc[c].id = preID[c]
        /\ \A i \in 1..Len(out[c]) : out[c][i].id = preID[c]

StreamInv ==
    StreamTypeOK /\ \A c \in Calls : Order(c) /\ Course(c) /\ Carried(c) /\ Announced(c)

(* A stream is closed when its last event closes it. *)
ClosedIsLast(c) ==
    /\ out[c] \in Seq(Events) /\ Len(out[c]) \in Nat
    /\ out[c] = <<>> <=> Len(out[c]) = 0
    /\ Closed(c) <=> Len(out[c]) > 0 /\ out[c][Len(out[c])].kind \in Closing

LEMMA ClosedMeans == StreamTypeOK => \A c \in Calls : ClosedIsLast(c)
<1>. SUFFICES ASSUME StreamTypeOK, NEW c \in Calls PROVE ClosedIsLast(c)
  OBVIOUS
<1>1. out[c] \in Seq(Events)
  BY DEF StreamTypeOK
<1>2. \A s \in Seq(Events) : Len(s) \in Nat /\ (s = <<>> <=> Len(s) = 0)
  OBVIOUS
<1>. QED
  BY <1>1, <1>2 DEF Closed, Closing, ClosedIsLast

LEMMA ClosedMeansNext == StreamTypeOK' => (\A c \in Calls : ClosedIsLast(c))'
BY ClosedMeans, PTL

(* One event more at the end of an open stream. *)
LEMMA AddKeepsOrder ==
    ASSUME StreamTypeOK, StreamTypeOK', NEW c \in Calls, NEW e, Adds(c, e), e.kind # "status",
           Order(c), ~Closed(c), pc[c] # "idle", req[c].stream, UNCHANGED vars,
           handler'[c] # "idle"
    PROVE  Order(c)' /\ (Closed(c)' <=> e.kind \in Closing)
<1>1. /\ Len(out'[c]) = Len(out[c]) + 1 /\ Len(out[c]) \in Nat
      /\ \A i \in 1..Len(out[c]) : out'[c][i] = out[c][i]
      /\ out'[c][Len(out[c]) + 1] = e
  BY Appended DEF StreamTypeOK, Adds
<1>2. pc'[c] # "idle" /\ req'[c].stream
  BY DEF vars
<1>3. Len(out[c]) > 0 /\ out[c][1].kind = "status"
  BY DEF Order
<1>4. \A i \in 1..Len(out[c]) : out[c][i].kind \notin Closing
  <2>. SUFFICES ASSUME NEW i \in 1..Len(out[c]) PROVE out[c][i].kind \notin Closing
    OBVIOUS
  <2>1. i \in 1..(Len(out[c]) - 1) \/ i = Len(out[c])
    BY <1>1
  <2>. QED
    BY <1>3, <2>1, ClosedMeans DEF Order, ClosedIsLast
<1>5. Closed(c)' <=> e.kind \in Closing
  BY <1>1, ClosedMeansNext DEF ClosedIsLast
<1>6. out'[c][1].kind = "status"
  BY <1>1, <1>3
<1>7. \A i \in 2..Len(out'[c]) : out'[c][i].kind # "status"
  <2>. SUFFICES ASSUME NEW i \in 2..Len(out'[c]) PROVE out'[c][i].kind # "status"
    OBVIOUS
  <2>1. CASE i \in 2..Len(out[c])
    BY <1>1, <2>1 DEF Order
  <2>2. CASE i = Len(out[c]) + 1
    BY <1>1, <2>2
  <2>. QED
    BY <1>1, <2>1, <2>2
<1>8. \A i \in 1..(Len(out'[c]) - 1) : out'[c][i].kind \notin Closing
  BY <1>1, <1>4
<1>9. Order(c)'
  BY <1>1, <1>2, <1>6, <1>7, <1>8 DEF Order
<1>. QED
  BY <1>5, <1>9

(* A silent step: of a returned call nothing changes, and of another the   *)
(* handler has looked at no artifact.                                      *)
LEMMA SilentKeeps ==
    ASSUME TypeInv, StreamTypeOK, StreamTypeOK', [StreamNext]_allVars, NEW c \in Calls, Silent(c),
           Order(c), Course(c), Carried(c)
    PROVE  Order(c)' /\ Course(c)' /\ Carried(c)'
<1>1. CallGoesOn(c)
  BY CallFrame, StreamStepIsStep
<1>2. out'[c] = out[c] /\ yielded'[c] = yielded[c] /\ handler'[c] = handler[c]
      /\ looked'[c] = looked[c]
  BY DEF Silent
<1>3. Closed(c)' <=> Closed(c)
  BY <1>2, ClosedMeans, ClosedMeansNext DEF ClosedIsLast
<1>4. ASSUME Returned(c)
      PROVE  /\ Returned(c)' /\ (Failed(c)' <=> Failed(c))
             /\ ReturnedArtifacts(c)' = ReturnedArtifacts(c)
  <2>1. pc'[c] = pc[c] /\ result'[c] = result[c]
    BY <1>1, <1>4 DEF CallGoesOn, Silent, Returned, Done
  <2>. QED
    BY <1>4, <2>1 DEF Returned, Failed, ReturnedArtifacts
<1>5. ASSUME ~Returned(c) PROVE looked[c] = 0 /\ handler[c] \in {"idle", "sending"}
  BY <1>5 DEF Course, StreamTypeOK, HandlerPhases
<1>6. Order(c)'
  <2>1. pc'[c] = "idle" => pc[c] = "idle"
    BY <1>1 DEF CallGoesOn
  <2>2. pc'[c] # "idle" /\ req'[c].stream => pc[c] # "idle" /\ req[c].stream
    BY <1>1 DEF CallGoesOn, Silent
  <2>3. pc'[c] # "idle" /\ ~req'[c].stream => pc[c] = "idle" \/ ~req[c].stream
    BY <1>1 DEF CallGoesOn
  <2>. QED
    BY <1>2, <2>1, <2>2, <2>3 DEF Order
<1>7. Len(ReturnedArtifacts(c))' \in Nat
  BY NextLists
<1>8. Course(c)'
  <2>1. CASE Returned(c)
    BY <1>2, <1>3, <1>4, <2>1 DEF Course
  <2>2. CASE ~Returned(c)
    BY <1>2, <1>3, <1>5, <1>7, <2>2 DEF Course
  <2>. QED
    BY <2>1, <2>2
<1>9. Carried(c)'
  <2>1. \A name : Written(c, name)' = Written(c, name) /\ Yields(c, name)' = Yields(c, name)
    BY <1>2 DEF Written, Yields
  <2>2. \A name : LookedAt(c, name)' = LookedAt(c, name)
    <3>1. CASE Returned(c)
      BY <1>2, <1>4, <3>1 DEF LookedAt
    <3>2. CASE ~Returned(c)
      BY <1>2, <1>5, <3>2, CountNone DEF LookedAt
    <3>. QED
      BY <3>1, <3>2
  <2>. QED
    BY <2>1, <2>2 DEF Carried
<1>. QED
  BY <1>6, <1>8, <1>9

LEMMA OpenKeeps ==
    ASSUME StreamTypeOK, StreamTypeOK', NEW c \in Calls, NEW e, Opens(c, e),
           Order(c), Course(c), Carried(c)
    PROVE  Order(c)' /\ Course(c)' /\ Carried(c)'
<1>0. /\ out[c] = <<>> /\ yielded[c] = <<>> /\ handler[c] = "idle" /\ looked[c] = 0
      /\ pc'[c] = "opened" /\ req'[c].stream /\ e.kind = "status" /\ handler'[c] = "sending"
      /\ yielded'[c] = yielded[c] /\ looked'[c] = looked[c] /\ Adds(c, e)
  BY DEF Order, Course, Opens
<1>1. Len(out[c]) = 0 /\ Len(out'[c]) = 1 /\ out'[c][1] = e
  <2>1. Len(out'[c]) = Len(out[c]) + 1 /\ out'[c][Len(out[c]) + 1] = e
    BY Appended DEF StreamTypeOK, Opens, Adds
  <2>2. Len(out[c]) = 0
    BY <1>0
  <2>. QED
    BY <2>1, <2>2
<1>2. ~Closed(c)'
  BY <1>0, <1>1, ClosedMeansNext DEF ClosedIsLast, Closing
<1>3. Order(c)'
  BY <1>0, <1>1 DEF Order
<1>4. Course(c)'
  BY <1>0, <1>2 DEF Course, Returned, Failed, ReturnedArtifacts
<1>5. Carried(c)'
  <2>1. \A name : Yields(c, name)' = Yields(c, name)
    BY <1>0 DEF Yields
  <2>3. \A name : Written(c, name)' = Written(c, name)
    <3>. SUFFICES ASSUME NEW name PROVE Written(c, name)' = Written(c, name)
      OBVIOUS
    <3>1. Written(c, name)' = Written(c, name)
                + (IF e.kind = "artifact" /\ e.name = name THEN 1 ELSE 0)
      BY <1>0, WrittenNext
    <3>2. Written(c, name) \in Nat /\ ~(e.kind = "artifact")
      BY <1>0, CountsTyped DEF Counted
    <3>. QED
      BY <3>1, <3>2
  <2>2. \A name : LookedAt(c, name)' = LookedAt(c, name)
    BY <1>0, CountNone DEF LookedAt
  <2>. QED
    BY <2>1, <2>2, <2>3 DEF Carried
<1>. QED
  BY <1>3, <1>4, <1>5

(* The other steps of a handler leave its call alone. *)
LEMMA SameCall ==
    ASSUME NEW c \in Calls, UNCHANGED <<vars, result>>
    PROVE  /\ Returned(c)' <=> Returned(c)
           /\ Failed(c)' <=> Failed(c)
           /\ ReturnedArtifacts(c)' = ReturnedArtifacts(c)
BY DEF vars, Returned, Failed, ReturnedArtifacts

LEMMA YieldKeeps ==
    ASSUME StreamTypeOK, StreamTypeOK', NEW c \in Calls, NEW e, Yielding(c, e),
           Order(c), Course(c), Carried(c)
    PROVE  Order(c)' /\ Course(c)' /\ Carried(c)'
<1>0. /\ ~Returned(c) /\ handler[c] = "sending" /\ looked[c] = 0 /\ ~Closed(c)
      /\ UNCHANGED <<vars, looked, result>> /\ handler'[c] = handler[c] /\ Adds(c, e)
      /\ e.kind \in {"chunk", "artifact"} /\ pc[c] = "executing" /\ req[c].stream
  <2>1. ~Returned(c)
    BY DEF Yielding, Returned
  <2>2. handler[c] = "sending"
    BY <2>1 DEF Yielding, Order, Course, StreamTypeOK, HandlerPhases
  <2>. QED
    BY <2>1, <2>2 DEF Yielding, Course
<1>1. Order(c)' /\ ~Closed(c)'
  BY <1>0, AddKeepsOrder DEF Closing
<1>2. Course(c)'
  BY <1>0, <1>1, SameCall DEF Course
<1>3. \A name : LookedAt(c, name)' = LookedAt(c, name) /\ LookedAt(c, name) = 0
  BY <1>0, SameCall, CountNone DEF LookedAt
<1>4. ASSUME NEW name \in Artifacts \cup {FormName}
      PROVE  Written(c, name)' = Yields(c, name)'
  <2>1. Written(c, name) = Yields(c, name)
    BY <1>3, CountsTyped DEF Carried, Counted
  <2>2. Written(c, name)' = Written(c, name)
                + (IF e.kind = "artifact" /\ e.name = name THEN 1 ELSE 0)
    BY <1>0, WrittenNext
  <2>3. CASE e.kind = "chunk"
    <3>1. Yields(c, name)' = Yields(c, name) /\ Written(c, name) \in Nat
      BY <2>3, CountsTyped DEF Yielding, Yields, Counted
    <3>. QED
      BY <2>1, <2>2, <2>3, <3>1
  <2>4. CASE e.kind = "artifact"
    <3>1. yielded[c] \in Seq(Artifacts) /\ e.name \in Artifacts
          /\ yielded'[c] = Append(yielded[c], e.name)
      BY <2>4 DEF Yielding, StreamTypeOK
    <3>2. Yields(c, name)' = Yields(c, name) + (IF e.name \in {name} THEN 1 ELSE 0)
      <4>1. CountTo(Append(yielded[c], e.name), Len(Append(yielded[c], e.name)), {name})
               = CountTo(yielded[c], Len(yielded[c]), {name})
                    + (IF e.name \in {name} THEN 1 ELSE 0)
        BY <3>1, CountAppended
      <4>. QED
        BY <3>1, <4>1 DEF Yields
    <3>. QED
      BY <2>1, <2>2, <2>4, <3>2
  <2>. QED
    BY <1>0, <2>3, <2>4
<1>5. Carried(c)'
  <2>2. \A name : Yields(c, name)' \in Nat
    BY NextCounts DEF Counted
  <2>. QED
    BY <1>3, <1>4, <2>2 DEF Carried
<1>. QED
  BY <1>1, <1>2, <1>5

LEMMA FailKeeps ==
    ASSUME StreamTypeOK, StreamTypeOK', NEW c \in Calls, NEW e, Fails(c, e),
           Order(c), Course(c), Carried(c)
    PROVE  Order(c)' /\ Course(c)' /\ Carried(c)'
<1>0. /\ Returned(c) /\ Failed(c) /\ handler[c] = "sending" /\ looked[c] = 0 /\ ~Closed(c)
      /\ UNCHANGED <<vars, yielded, looked, result>> /\ handler'[c] = "returned" /\ Adds(c, e)
      /\ e.kind = "error" /\ pc[c] # "idle" /\ req[c].stream
  BY DEF Fails, Order, Course, Returned
<1>1. Order(c)' /\ Closed(c)'
  BY <1>0, AddKeepsOrder DEF Closing
<1>2. Course(c)'
  BY <1>0, <1>1, SameCall, NextLists DEF Course
<1>3. Carried(c)'
  <2>. SUFFICES ASSUME NEW name \in Artifacts \cup {FormName}
                PROVE  /\ Written(c, name)' = Written(c, name)
                       /\ Yields(c, name)' = Yields(c, name)
                       /\ LookedAt(c, name)' = LookedAt(c, name)
    BY DEF Carried
  <2>1. Written(c, name)' = Written(c, name) + 0
    BY <1>0, WrittenNext
  <2>2. Written(c, name) \in Nat
    BY CountsTyped DEF Counted
  <2>. QED
    BY <1>0, <2>1, <2>2, SameCall DEF Yields, LookedAt
<1>. QED
  BY <1>1, <1>2, <1>3

LEMMA PromptKeeps ==
    ASSUME StreamTypeOK, StreamTypeOK', NEW c \in Calls, NEW e, Prompts(c, e),
           Order(c), Course(c), Carried(c)
    PROVE  Order(c)' /\ Course(c)' /\ Carried(c)'
<1>0. /\ Returned(c) /\ ~Failed(c) /\ handler[c] = "sending" /\ looked[c] = 0 /\ ~Closed(c)
      /\ UNCHANGED <<vars, yielded, looked, result>> /\ handler'[c] = "artifacts"
      /\ out'[c] = out[c] \/ (Adds(c, e) /\ e.kind = "chunk")
      /\ pc[c] # "idle" /\ req[c].stream
  BY DEF Prompts, Order, Course, Returned
<1>1. Order(c)' /\ ~Closed(c)'
  <2>1. CASE Adds(c, e) /\ e.kind = "chunk"
    BY <1>0, <2>1, AddKeepsOrder DEF Closing
  <2>2. CASE out'[c] = out[c]
    <3>1. Closed(c)' <=> Closed(c)
      BY <2>2 DEF Closed
    <3>2. pc' = pc /\ req' = req
      BY <1>0 DEF vars
    <3>. QED
      BY <1>0, <2>2, <3>1, <3>2 DEF Order
  <2>. QED
    BY <1>0, <2>1, <2>2
<1>2. Course(c)'
  BY <1>0, <1>1, SameCall, NextLists DEF Course
<1>3. Carried(c)'
  <2>. SUFFICES ASSUME NEW name \in Artifacts \cup {FormName}
                PROVE  /\ Written(c, name)' = Written(c, name)
                       /\ Yields(c, name)' = Yields(c, name)
                       /\ LookedAt(c, name)' = LookedAt(c, name)
    BY DEF Carried
  <2>1. Written(c, name)' = Written(c, name)
    <3>1. CASE Adds(c, e) /\ e.kind = "chunk"
      <4>1. Written(c, name)' = Written(c, name) + 0
        BY <3>1, WrittenNext
      <4>2. Written(c, name) \in Nat
        BY CountsTyped DEF Counted
      <4>. QED
        BY <4>1, <4>2
    <3>2. CASE out'[c] = out[c]
      BY <3>2 DEF Written
    <3>. QED
      BY <1>0, <3>1, <3>2
  <2>. QED
    BY <1>0, <2>1, SameCall DEF Yields, LookedAt
<1>. QED
  BY <1>1, <1>2, <1>3

(* The next artifact of the task: it is written unless it was yielded.     *)
LEMMA HandKeeps ==
    ASSUME StreamTypeOK, StreamTypeOK', NEW c \in Calls, NEW e, Hands(c, e),
           Order(c), Course(c), Carried(c)
    PROVE  Order(c)' /\ Course(c)' /\ Carried(c)'
<1>. DEFINE listed == ReturnedArtifacts(c)
            name1 == ReturnedArtifacts(c)[looked[c] + 1]
<1>0. /\ Returned(c) /\ ~Failed(c) /\ handler[c] = "artifacts" /\ ~Closed(c)
      /\ looked[c] < Len(listed) /\ looked'[c] = looked[c] + 1
      /\ looked[c] \in Nat /\ Len(listed) \in Nat
      /\ UNCHANGED <<vars, yielded, result>> /\ handler'[c] = handler[c]
      /\ \/ name1 \in Streamed(c) /\ out'[c] = out[c]
         \/ name1 \notin Streamed(c) /\ Adds(c, e) /\ e.kind = "artifact" /\ e.name = name1
      /\ pc[c] # "idle" /\ req[c].stream
  BY ReturnedList DEF Hands, Order, Course, Returned, StreamTypeOK
<1>. HIDE DEF name1
<1>1. Order(c)' /\ ~Closed(c)'
  <2>1. CASE Adds(c, e) /\ e.kind = "artifact"
    BY <1>0, <2>1, AddKeepsOrder DEF Closing
  <2>2. CASE out'[c] = out[c]
    <3>1. Closed(c)' <=> Closed(c)
      BY <2>2 DEF Closed
    <3>2. pc' = pc /\ req' = req
      BY <1>0 DEF vars
    <3>. QED
      BY <1>0, <2>2, <3>1, <3>2 DEF Order
  <2>. QED
    BY <1>0, <2>1, <2>2
<1>2. ReturnedArtifacts(c)' = listed /\ (Failed(c)' <=> Failed(c)) /\ (Returned(c)' <=> Returned(c))
  BY <1>0, SameCall
<1>3. Course(c)'
  BY <1>0, <1>1, <1>2 DEF Course
<1>4. Carried(c)'
  <2>. SUFFICES ASSUME NEW name \in Artifacts \cup {FormName}
                PROVE  Written(c, name)'
                          = IF Yields(c, name)' > 0 THEN Yields(c, name)' ELSE LookedAt(c, name)'
    BY DEF Carried
  <2>1. /\ Written(c, name) \in Nat /\ Yields(c, name) \in Nat /\ LookedAt(c, name) \in Nat
        /\ Yields(c, name) > 0 <=> name \in Streamed(c)
        /\ Written(c, name) = IF Yields(c, name) > 0 THEN Yields(c, name) ELSE LookedAt(c, name)
    BY CountsTyped DEF Counted, Carried
  <2>2. Yields(c, name)' = Yields(c, name)
    BY <1>0 DEF Yields
  <2>3. LookedAt(c, name)' = LookedAt(c, name) + (IF name1 = name THEN 1 ELSE 0)
    <3>1. CountTo(listed, looked[c] + 1, {name})
             = CountTo(listed, looked[c], {name}) + (IF listed[looked[c] + 1] \in {name} THEN 1 ELSE 0)
      BY <1>0, CountNext
    <3>. QED
      BY <1>0, <1>2, <3>1 DEF LookedAt, name1
  <2>4. CASE name1 \in Streamed(c) /\ out'[c] = out[c]
    <3>1. Written(c, name)' = Written(c, name)
      BY <2>4 DEF Written
    <3>. QED
      BY <2>1, <2>2, <2>3, <2>4, <3>1
  <2>5. CASE name1 \notin Streamed(c) /\ Adds(c, e) /\ e.kind = "artifact" /\ e.name = name1
    <3>1. Written(c, name)' = Written(c, name)
                + (IF e.kind = "artifact" /\ e.name = name THEN 1 ELSE 0)
      BY <2>5, WrittenNext
    <3>. QED
      BY <2>1, <2>2, <2>3, <2>5, <3>1
  <2>. QED
    BY <1>0, <2>4, <2>5
<1>. QED
  BY <1>1, <1>3, <1>4

LEMMA CompleteKeeps ==
    ASSUME StreamTypeOK, StreamTypeOK', NEW c \in Calls, NEW e, Completes(c, e),
           Order(c), Course(c), Carried(c)
    PROVE  Order(c)' /\ Course(c)' /\ Carried(c)'
<1>0. /\ Returned(c) /\ ~Failed(c) /\ handler[c] = "artifacts" /\ ~Closed(c)
      /\ looked[c] = Len(ReturnedArtifacts(c)) /\ Len(ReturnedArtifacts(c)) \in Nat
      /\ UNCHANGED <<vars, yielded, looked, result>> /\ handler'[c] = "returned" /\ Adds(c, e)
      /\ e.kind = "complete" /\ pc[c] # "idle" /\ req[c].stream
  BY ReturnedList DEF Completes, Order, Course, Returned
<1>1. Order(c)' /\ Closed(c)'
  BY <1>0, AddKeepsOrder DEF Closing
<1>2. Course(c)'
  BY <1>0, <1>1, SameCall, NextLists DEF Course
<1>3. Carried(c)'
  <2>. SUFFICES ASSUME NEW name \in Artifacts \cup {FormName}
                PROVE  /\ Written(c, name)' = Written(c, name)
                       /\ Yields(c, name)' = Yields(c, name)
                       /\ LookedAt(c, name)' = LookedAt(c, name)
    BY DEF Carried
  <2>1. Written(c, name)' = Written(c, name) + 0
    BY <1>0, WrittenNext
  <2>2. Written(c, name) \in Nat
    BY CountsTyped DEF Counted
  <2>. QED
    BY <1>0, <2>1, <2>2, SameCall DEF Yields, LookedAt
<1>. QED
  BY <1>1, <1>2, <1>3

LEMMA HandlesKeeps ==
    ASSUME StreamTypeOK, StreamTypeOK', NEW c \in Calls, Handles(c),
           Order(c), Course(c), Carried(c)
    PROVE  Order(c)' /\ Course(c)' /\ Carried(c)'
<1>1. PICK e : \/ Opens(c, e) \/ Yielding(c, e) \/ Fails(c, e)
               \/ Prompts(c, e) \/ Hands(c, e) \/ Completes(c, e)
  BY DEF Handles
<1>2. CASE Opens(c, e)
  BY <1>2, OpenKeeps
<1>3. CASE Yielding(c, e)
  BY <1>3, YieldKeeps
<1>4. CASE Fails(c, e)
  BY <1>4, FailKeeps
<1>5. CASE Prompts(c, e)
  BY <1>5, PromptKeeps
<1>6. CASE Hands(c, e)
  BY <1>6, HandKeeps
<1>7. CASE Completes(c, e)
  BY <1>7, CompleteKeeps
<1>. QED
  BY <1>1, <1>2, <1>3, <1>4, <1>5, <1>6, <1>7

-----------------------------------------------------------------------------
(* The announced id.  A Send that starts after the announcement goes on    *)
(* with its snapshot, and no context leads a message without one to a task.*)
LEMMA AfterOpening ==
    ASSUME TypeInv, [Next]_vars, NEW c \in Calls, pc[c] = "opened"
    PROVE  pc'[c] \in {"opened", "refused"} \/ loc'[c] = Snapshot(c, req[c])
<1>0. pc \in [Calls -> Phases] /\ loc \in [Calls -> Local]
  BY DEF TypeInv, TypeOK
<1>1. ASSUME NEW d \in Calls, NEW m \in Requests, OpenStream(d, m) PROVE pc'[c] = "opened"
  BY <1>0, <1>1 DEF OpenStream
<1>2. ASSUME NEW d \in Calls, NEW m \in Requests, RefuseRole(d, m)
      PROVE  pc'[c] \in {"opened", "refused"}
  BY <1>0, <1>2 DEF RefuseRole
<1>3. ASSUME NEW d \in Calls, NEW m \in Requests, Prepare(d, m)
      PROVE  pc'[c] = "opened" \/ loc'[c] = Snapshot(c, req[c])
  <2>1. CASE d = c
    <3>1. m = req[c]
      BY <1>3, <2>1 DEF Prepare, Starts
    <3>. DEFINE l == Snapshot(c, req[c])
    <3>2. loc' = [loc EXCEPT ![c] = l]
      BY <1>3, <2>1, <3>1 DEF Prepare
    <3>. HIDE DEF l
    <3>3. loc'[c] = l
      BY <1>0, <3>2
    <3>. QED
      BY <3>3 DEF l
  <2>2. CASE d # c
    BY <1>0, <1>3, <2>2 DEF Prepare
  <2>. QED
    BY <2>1, <2>2
<1>4. ASSUME NEW d \in Calls, \/ Hitl(d) \/ Record(d) \/ Announce(d)
                              \/ \E final \in Outcomes : Execute(d, final)
      PROVE  pc'[c] = "opened"
  <2>1. /\ pc[d] \in {"hitl", "executing", "recording", "recorded"}
        /\ \E phase \in Phases : pc' = [pc EXCEPT ![d] = phase]
    BY <1>4 DEF Hitl, Record, Announce, Execute, Approve, Reject, RefuseUndecided, RefuseAnswer,
                RefuseExpired, Pause, Proceed, Return, Phases
  <2>. QED
    BY <1>0, <2>1
<1>5. CASE \/ \E id \in DOMAIN tasks : Cancel(id)
           \/ \E tick \in Times : Sweep(tick)
           \/ Tick \/ UNCHANGED vars
  BY <1>5 DEF Cancel, Sweep, Tick, vars
<1>. QED
  BY <1>1, <1>2, <1>3, <1>4, <1>5 DEF Next, Send

(* A Send under way keeps its id. *)
LEMMA AnnouncedKeeps ==
    ASSUME TypeInv, StreamTypeOK, StreamTypeOK', [StreamNext]_allVars, NEW c \in Calls,
           Order(c), Course(c), Announced(c)
    PROVE  Announced(c)'
<1>. DEFINE Ours == {"recorded", "finished", "paused", "rejected"}
<1>0. /\ TypeOK /\ [Next]_vars /\ CallGoesOn(c) /\ out[c] \in Seq(Events)
  BY CallFrame, StreamStepIsStep DEF TypeInv, StreamTypeOK
<1>. SUFFICES ASSUME req'[c].stream, req'[c].ctx = NoContext
              PROVE  /\ pc'[c] # "idle" => preID'[c] # NoTask
                     /\ pc'[c] \in InSend \cup Ours => loc'[c].id = preID'[c]
                     /\ \A i \in 1..Len(out'[c]) : out'[c][i].id = preID'[c]
  BY DEF Announced
<1>1. CASE Silent(c)
  <2>1. CASE pc[c] = "idle"
    <3>1. pc'[c] = "idle" /\ out'[c] = <<>>
      BY <1>1, <2>1 DEF Silent, Order
    <3>. QED
      BY <3>1 DEF InSend
  <2>2. CASE pc[c] # "idle"
    <3>1. /\ req'[c] = req[c] /\ preID'[c] = preID[c] /\ out'[c] = out[c]
          /\ preID[c] # NoTask
          /\ \A i \in 1..Len(out[c]) : out[c][i].id = preID[c]
      BY <1>0, <1>1, <2>2 DEF CallGoesOn, Silent, Announced
    <3>2. CASE pc[c] = "opened"
      <4>1. pc'[c] \in {"opened", "refused"} \/ loc'[c] = Snapshot(c, req[c])
        BY <1>0, <3>2, AfterOpening
      <4>2. Snapshot(c, req[c]).id = preID[c]
        <5>1. NoContext \notin DOMAIN tasksByContext /\ NoContext \notin DOMAIN tasks
          BY <1>0, SentinelAssumption DEF TypeOK, Keys
        <5>2. Existing(req[c].ctx) = NoTask
          BY <3>1, <5>1 DEF Existing
        <5>3. NamedID(c, req[c]) = preID[c]
          BY <3>1 DEF NamedID
        <5>. QED
          BY <3>1, <5>2, <5>3 DEF Snapshot
      <4>. QED
        BY <3>1, <4>1, <4>2 DEF InSend
    <3>3. CASE pc[c] \in InSend \cup Done
      BY <1>0, <3>1, <3>3 DEF CallGoesOn, Announced, InSend, Done
    <3>. QED
      BY <2>2, <3>2, <3>3 DEF TypeInv, TypeOK, Phases, InSend, Done
  <2>. QED
    BY <2>1, <2>2
<1>2. ASSUME NEW e, Opens(c, e)
      PROVE  /\ preID'[c] # NoTask /\ pc'[c] = "opened"
             /\ \A i \in 1..Len(out'[c]) : out'[c][i].id = preID'[c]
  <2>1. Len(out'[c]) = 1 /\ out'[c][1] = e
    <3>1. out[c] = <<>> /\ out'[c] = Append(out[c], e)
      BY <1>2 DEF Opens, Adds, Order
    <3>. QED
      BY <3>1
  <2>. QED
    BY <1>2, <2>1 DEF Opens
<1>3. ASSUME UNCHANGED vars
      PROVE  /\ pc'[c] # "idle" => preID'[c] # NoTask
             /\ pc'[c] \in InSend \cup Ours => loc'[c].id = preID'[c]
             /\ preID'[c] = preID[c] /\ pc'[c] = pc[c] /\ loc'[c] = loc[c]
             /\ \A i \in 1..Len(out[c]) : out[c][i].id = preID[c]
  BY <1>3 DEF vars, Announced
<1>4. ASSUME NEW e, \/ Yielding(c, e) \/ Fails(c, e)
                    \/ Prompts(c, e) \/ Hands(c, e) \/ Completes(c, e)
      PROVE  UNCHANGED vars /\ \A i \in 1..Len(out'[c]) : out'[c][i].id = preID'[c]
  <2>1. UNCHANGED vars
    BY <1>4 DEF Yielding, Fails, Prompts, Hands, Completes
  <2>2. out'[c] = out[c] \/ (Adds(c, e) /\ (e.id = preID[c] \/ e.id = loc[c].id))
    BY <1>4 DEF Yielding, Fails, Prompts, Hands, Completes
  <2>3. e.id # preID[c] /\ out'[c] # out[c] => loc[c].id = preID[c]
    <3>1. Yielding(c, e) \/ Fails(c, e) => e.id = preID[c]
      BY DEF Yielding, Fails
    <3>2. Prompts(c, e) \/ Hands(c, e) \/ Completes(c, e) => Returned(c) /\ ~Failed(c)
      BY DEF Prompts, Hands, Completes, Course
    <3>3. Returned(c) /\ ~Failed(c) => pc[c] \in Ours
      BY DEF Returned, Failed
    <3>. QED
      BY <1>3, <1>4, <2>1, <3>1, <3>2, <3>3
  <2>4. CASE out'[c] = out[c]
    BY <1>3, <2>1, <2>4
  <2>5. CASE out'[c] # out[c]
    <3>1. /\ Len(out'[c]) = Len(out[c]) + 1 /\ Len(out[c]) \in Nat
          /\ \A i \in 1..Len(out[c]) : out'[c][i] = out[c][i]
          /\ out'[c][Len(out[c]) + 1] = e
      BY <1>0, <2>2, <2>5, Appended DEF Adds
    <3>2. e.id = preID[c]
      BY <2>2, <2>3, <2>5
    <3>3. ASSUME NEW i \in 1..Len(out'[c]) PROVE out'[c][i].id = preID'[c]
      <4>1. CASE i \in 1..Len(out[c])
        BY <1>3, <2>1, <3>1, <4>1
      <4>2. CASE i = Len(out[c]) + 1
        BY <1>3, <2>1, <3>1, <3>2, <4>2
      <4>. QED
        BY <3>1, <3>3, <4>1, <4>2
    <3>. QED
      BY <2>1, <3>3
  <2>. QED
    BY <2>4, <2>5
<1>5. ASSUME Handles(c)
      PROVE  /\ pc'[c] # "idle" => preID'[c] # NoTask
             /\ pc'[c] \in InSend \cup Ours => loc'[c].id = preID'[c]
             /\ \A i \in 1..Len(out'[c]) : out'[c][i].id = preID'[c]
  <2>1. PICK e : \/ Opens(c, e) \/ Yielding(c, e) \/ Fails(c, e)
                 \/ Prompts(c, e) \/ Hands(c, e) \/ Completes(c, e)
    BY <1>5 DEF Handles
  <2>2. CASE Opens(c, e)
    BY <1>2, <2>2 DEF InSend
  <2>3. CASE ~Opens(c, e)
    BY <1>3, <1>4, <2>1, <2>3
  <2>. QED
    BY <2>2, <2>3
<1>. QED
  BY <1>0, <1>1, <1>5, SilentOrHandles

-----------------------------------------------------------------------------
(* The invariant of the streams, step by step. *)
LEMMA StreamInvInit == StreamInit => StreamInv
<1>. SUFFICES ASSUME StreamInit PROVE StreamInv
  OBVIOUS
<1>1. <<>> \in Seq(Events) /\ <<>> \in Seq(Artifacts) /\ Len(<<>>) = 0
  OBVIOUS
<1>2. \A c \in Calls : /\ out[c] = <<>> /\ yielded[c] = <<>> /\ pc[c] = "idle"
                       /\ handler[c] = "idle" /\ looked[c] = 0
  BY DEF StreamInit, Init
<1>3. StreamTypeOK
  <2>1. out \in [Calls -> Seq(Events)] /\ yielded \in [Calls -> Seq(Artifacts)]
    BY <1>1 DEF StreamInit
  <2>2. handler \in [Calls -> HandlerPhases] /\ looked \in [Calls -> Nat]
    BY DEF StreamInit, HandlerPhases
  <2>3. result \in [Calls -> [artifacts : Seq(Artifacts), text : BOOLEAN, failed : BOOLEAN]]
    <3>1. NoResult \in [artifacts : Seq(Artifacts), text : BOOLEAN, failed : BOOLEAN]
      BY <1>1 DEF NoResult
    <3>2. result = [c \in Calls |-> NoResult]
      BY DEF StreamInit
    <3>. QED
      BY <3>1, <3>2
  <2>4. cancel \in [id : Nat, unrecorded : SUBSET Calls, answer : Statuses \cup {NoStatus, "error"}]
    BY DEF StreamInit, NoCancel, NoTask
  <2>. QED
    BY <2>1, <2>2, <2>3, <2>4 DEF StreamTypeOK
<1>4. ASSUME NEW c \in Calls PROVE Order(c) /\ Course(c) /\ Carried(c) /\ Announced(c)
  <2>1. Order(c) /\ Announced(c)
    BY <1>1, <1>2 DEF Order, Announced, InSend
  <2>2. ~Closed(c) /\ ~Returned(c) /\ ~Failed(c) /\ Len(ReturnedArtifacts(c)) = 0
    BY <1>1, <1>2 DEF Closed, Returned, Failed, ReturnedArtifacts
  <2>3. Course(c)
    BY <1>2, <2>2 DEF Course
  <2>4. Carried(c)
    BY <1>1, <1>2, CountNone DEF Carried, Written, Yields, LookedAt
  <2>. QED
    BY <2>1, <2>3, <2>4
<1>. QED
  BY <1>3, <1>4 DEF StreamInv

LEMMA StreamInvNext == TypeInv /\ StreamInv /\ [StreamNext]_allVars => StreamInv'
<1>. SUFFICES ASSUME TypeInv, StreamInv, [StreamNext]_allVars PROVE StreamInv'
  OBVIOUS
<1>1. StreamTypeOK /\ StreamTypeOK'
  BY StreamTypesNext DEF StreamInv
<1>2. ASSUME NEW c \in Calls PROVE (Order(c) /\ Course(c) /\ Carried(c) /\ Announced(c))'
  <2>0. Order(c) /\ Course(c) /\ Carried(c) /\ Announced(c)
    BY DEF StreamInv
  <2>1. Announced(c)'
    BY <1>1, <2>0, AnnouncedKeeps
  <2>2. CASE Silent(c)
    BY <1>1, <2>0, <2>1, <2>2, SilentKeeps
  <2>3. CASE Handles(c)
    BY <1>1, <2>0, <2>1, <2>3, HandlesKeeps
  <2>. QED
    BY <1>1, <2>2, <2>3, SilentOrHandles
<1>. QED
  BY <1>1, <1>2 DEF StreamInv

LEMMA StreamInvariant == StreamSpec => [](TypeInv /\ StreamInv)
<1>1. StreamSpec => []TypeInv
  BY StreamImplementsStore, Invariants, PTL
<1>. QED
  BY <1>1, StreamInvInit, StreamInvNext, PTL DEF StreamSpec

(* Whatever the action yields, however Send ends and whenever a task is    *)
(* canceled: a stream is a status, then what was produced, then, when the  *)
(* handler returns, exactly one event that closes it.                      *)
THEOREM StreamsAreWellFormed == StreamSpec => []StreamGrammar
<1>1. StreamInv => StreamGrammar
  <2>. SUFFICES ASSUME StreamInv, NEW c \in Calls
                PROVE  /\ handler[c] = "returned" <=> Closed(c)
                       /\ \A i \in 1..Len(out[c]) :
                             /\ out[c][i].kind = "status" <=> i = 1
                             /\ out[c][i].kind \in {"error", "complete"} => i = Len(out[c])
    BY DEF StreamGrammar
  <2>1. Order(c) /\ ClosedIsLast(c)
    BY ClosedMeans DEF StreamInv
  <2>2. handler[c] = "returned" <=> Closed(c)
    BY DEF StreamInv, Course
  <2>3. ASSUME NEW i \in 1..Len(out[c])
        PROVE  /\ out[c][i].kind = "status" <=> i = 1
               /\ out[c][i].kind \in {"error", "complete"} => i = Len(out[c])
    <3>1. Len(out[c]) \in Nat /\ out[c] # <<>>
      BY <2>1 DEF ClosedIsLast
    <3>2. pc[c] # "idle" /\ req[c].stream
      BY <2>1, <3>1 DEF Order
    <3>3. i = 1 \/ i \in 2..Len(out[c])
      BY <3>1
    <3>4. i = Len(out[c]) \/ i \in 1..(Len(out[c]) - 1)
      BY <3>1
    <3>. QED
      BY <2>1, <3>1, <3>2, <3>3, <3>4 DEF Order, Closing
  <2>. QED
    BY <2>2, <2>3
<1>. QED
  BY <1>1, StreamInvariant, PTL

(* However often the action yields a name and the task lists it: nothing   *)
(* that was streamed is sent again, and nothing is missed in the end.      *)
THEOREM ArtifactsArriveOnce == StreamSpec => []ArtifactsOnce
<1>1. StreamInv => ArtifactsOnce
  <2>. SUFFICES ASSUME StreamInv, NEW c \in Calls, NEW name \in Artifacts \cup {FormName}
                PROVE  /\ Written(c, name) <= Owed(c, name)
                       /\ handler[c] = "returned" /\ ~Failed(c) => Written(c, name) = Owed(c, name)
    BY DEF ArtifactsOnce
  <2>1. /\ StreamTypeOK /\ Counted(c, name) /\ Course(c)
        /\ Written(c, name) = IF Yields(c, name) > 0 THEN Yields(c, name) ELSE LookedAt(c, name)
        /\ looked[c] \in Nat /\ Len(ReturnedArtifacts(c)) \in Nat
    BY CountsTyped, ReturnedList DEF StreamInv, Carried, StreamTypeOK
  <2>2. LookedAt(c, name) <= Listed(c, name)
    <3>1. looked[c] <= Len(ReturnedArtifacts(c))
      BY <2>1 DEF Course
    <3>. QED
      BY <2>1, <3>1, CountGrows DEF LookedAt, Listed
  <2>3. handler[c] = "returned" /\ ~Failed(c) => LookedAt(c, name) = Listed(c, name)
    BY <2>1 DEF Course, LookedAt, Listed
  <2>. QED
    BY <2>1, <2>2, <2>3 DEF Owed, Counted
<1>. QED
  BY <1>1, StreamInvariant, PTL

(* A client that sends no context gets the id it was told at the start.    *)
THEOREM AnnouncedIdsAreKept == StreamSpec => []AnnouncedIdKept
<1>1. StreamInv => AnnouncedIdKept
  BY DEF StreamInv, Announced, AnnouncedIdKept
<1>. QED
  BY <1>1, StreamInvariant, PTL

-----------------------------------------------------------------------------
(* Cancellations.  A task that is stored with another status than          *)
(* "canceled" had that status before the step, or a Send has just recorded *)
(* it: Sends are all that can undo a cancellation.                         *)
Live(id) == id \in DOMAIN tasks /\ tasks[id].status # "canceled"

LEMMA OnlySendsRevive ==
    ASSUME TypeInv, OutcomeRecorded, [Next]_vars, NEW id, NEW s, Live(id)', s = tasks'[id].status
    PROVE  \/ Live(id) /\ tasks[id].status = s
           \/ \E c \in Calls : pc[c] \in InSend /\ loc'[c].id = id /\ Stored(c, s)'
<1>. DEFINE Revived == \E c \in Calls : pc[c] \in InSend /\ loc'[c].id = id /\ Stored(c, s)'
            Before == Live(id) /\ tasks[id].status = s
<1>0. pc \in [Calls -> Phases] /\ loc \in [Calls -> Local]
  BY DEF TypeInv, TypeOK
<1>1. ASSUME NEW c \in Calls, NEW task, RecordTask(loc[c].id, task), pc[c] \in InSend,
             loc'[c].id = loc[c].id,
             \/ pc'[c] = "paused" /\ task.status = "input-required"
             \/ pc'[c] = "rejected" /\ task.status = "rejected"
             \/ pc'[c] \in {"recorded", "finished"} /\ task.status \in Outcomes
      PROVE  Before \/ Revived
  <2>1. CASE loc[c].id = id
    <3>1. s = task.status
      BY <1>1, <2>1 DEF RecordTask, Put
    <3>2. Stored(c, s)'
      BY <1>1, <3>1 DEF Stored
    <3>. QED
      BY <1>1, <2>1, <3>2
  <2>2. CASE loc[c].id # id
    BY <1>1, <2>2 DEF RecordTask, Put, Live
  <2>. QED
    BY <2>1, <2>2
<1>2. ASSUME NEW c \in Calls, Reject(c) \/ Pause(c) PROVE Before \/ Revived
  <2>1. /\ pc[c] \in InSend
        /\ \E task : \E phase \in {"paused", "rejected"} :
              /\ RecordTask(loc[c].id, task) /\ Return(c, phase)
              /\ phase = "paused" => task.status = "input-required"
              /\ phase = "rejected" => task.status = "rejected"
    <3>1. CASE Reject(c)
      <4>1. HitlTask(c, "input-required", "rejected").status = "rejected"
        BY DEF HitlTask
      <4>. QED
        BY <3>1, <4>1 DEF Reject, InSend
    <3>2. CASE Pause(c)
      <4>1. HitlTask(c, "working", "input-required").status = "input-required"
        BY DEF HitlTask
      <4>. QED
        BY <3>2, <4>1 DEF Pause, InSend
    <3>. QED
      BY <1>2, <3>1, <3>2
  <2>2. PICK task : \E phase \in {"paused", "rejected"} :
              /\ RecordTask(loc[c].id, task) /\ Return(c, phase)
              /\ phase = "paused" => task.status = "input-required"
              /\ phase = "rejected" => task.status = "rejected"
    BY <2>1
  <2>3. PICK phase \in {"paused", "rejected"} :
              /\ RecordTask(loc[c].id, task) /\ Return(c, phase)
              /\ phase = "paused" => task.status = "input-required"
              /\ phase = "rejected" => task.status = "rejected"
    BY <2>2
  <2>4. pc'[c] = phase /\ loc'[c].id = loc[c].id
    BY <1>0, <2>3 DEF Return, NoLocal
  <2>. QED
    BY <1>1, <2>1, <2>3, <2>4
<1>3. ASSUME NEW c \in Calls, Record(c) PROVE Before \/ Revived
  <2>1. pc'[c] \in {"recorded", "finished"} /\ loc'[c].id = loc[c].id
    BY <1>0, <1>3 DEF Record, Return, NoLocal
  <2>2. FinalTask(c).status \in Outcomes
    BY <1>3 DEF Record, FinalTask, OutcomeRecorded
  <2>. QED
    BY <1>1, <1>3, <2>1, <2>2 DEF Record, InSend
<1>4. ASSUME tasks' = tasks PROVE Before
  BY <1>4 DEF Live
<1>5. ASSUME NEW c \in Calls, NEW m \in Requests,
             OpenStream(c, m) \/ RefuseRole(c, m) \/ Prepare(c, m)
      PROVE  Before
  BY <1>4, <1>5 DEF OpenStream, RefuseRole, Prepare, shared
<1>6. ASSUME NEW c \in Calls, \/ Approve(c) \/ RefuseUndecided(c) \/ RefuseAnswer(c)
                              \/ RefuseExpired(c) \/ Proceed(c) \/ Announce(c)
                              \/ \E final \in Outcomes : Execute(c, final)
      PROVE  Before
  BY <1>4, <1>6 DEF Approve, RefuseUndecided, RefuseAnswer, RefuseExpired, Proceed, Announce,
                    Execute, shared
<1>7. ASSUME NEW i \in DOMAIN tasks, Cancel(i) PROVE Before
  <2>1. tasks[i] \in Task
    BY DEF TypeInv, TypeOK
  <2>2. CASE i = id
    <3>1. tasks'[id].status = "canceled"
      BY <1>7, <2>1, <2>2 DEF Cancel, Task
    <3>. QED
      BY <3>1 DEF Live
  <2>3. CASE i # id
    BY <1>7, <2>3 DEF Cancel, Live
  <2>. QED
    BY <2>2, <2>3
<1>8. ASSUME NEW tick \in Times, Sweep(tick) PROVE Before
  BY <1>8 DEF Sweep, Without, Live
<1>9. CASE Tick \/ UNCHANGED vars
  BY <1>4, <1>9 DEF Tick, vars
<1>. QED
  BY <1>2, <1>3, <1>5, <1>6, <1>7, <1>8, <1>9 DEF Next, Send, Hitl

(* Between the cancellation and the answer: the stored task, if it is not  *)
(* canceled, is as a Send has recorded it that had not when the            *)
(* cancellation took effect.                                               *)
Unrecorded(c) == ~Returned(c) /\ pc[c] # "recorded"
Undone(s) == \E c \in cancel.unrecorded : loc[c].id = cancel.id /\ Stored(c, s)

CancelInv ==
    /\ OutcomeRecorded
    /\ cancel.answer = NoStatus =>
          /\ \A c \in Calls : Unrecorded(c) => c \in cancel.unrecorded
          /\ Live(cancel.id) => Undone(tasks[cancel.id].status)
    /\ cancel.answer \notin {NoStatus, "error", "canceled"} => Undone(cancel.answer)

LEMMA CancelNext ==
    ASSUME TypeInv, StreamInv, CancelInv, [StreamNext]_allVars
    PROVE  CancelInv'
<1>0. /\ [Next]_vars /\ \A c \in Calls : CallGoesOn(c)
      /\ cancel.unrecorded \subseteq Calls
      /\ OutcomeRecorded'
  BY StreamStepIsStep, CallFrame, OutcomeNext DEF StreamInv, StreamTypeOK, CancelInv
<1>1. ASSUME NEW c \in Calls, NEW s, Stored(c, s)
      PROVE  Stored(c, s)' /\ loc'[c].id = loc[c].id
  BY <1>0, <1>1 DEF CallGoesOn, Stored, Done
<1>2. ASSUME NEW c \in Calls, Unrecorded(c)' PROVE Unrecorded(c)
  BY <1>0, <1>2 DEF CallGoesOn, Unrecorded, Returned, Done
<1>3. CASE UNCHANGED cancel
  <2>1. ASSUME NEW s, Undone(s) PROVE Undone(s)'
    <3>1. PICK c \in cancel.unrecorded : loc[c].id = cancel.id /\ Stored(c, s)
      BY <2>1 DEF Undone
    <3>2. Stored(c, s)' /\ loc'[c].id = cancel.id
      BY <1>0, <1>1, <3>1
    <3>. QED
      BY <1>3, <3>1, <3>2 DEF Undone
  <2>2. ASSUME cancel.answer = NoStatus
        PROVE  /\ (\A c \in Calls : Unrecorded(c) => c \in cancel.unrecorded)'
               /\ \A s : Live(cancel.id)' /\ s = tasks'[cancel'.id].status => Undone(s)'
    <3>1. (\A c \in Calls : Unrecorded(c) => c \in cancel.unrecorded)'
      BY <1>2, <1>3, <2>2 DEF CancelInv
    <3>2. ASSUME NEW s, Live(cancel.id)', s = tasks'[cancel'.id].status PROVE Undone(s)'
      <4>1. PICK id : id = cancel.id
        OBVIOUS
      <4>2. Live(id)' /\ s = tasks'[id].status
        BY <1>3, <3>2, <4>1 DEF Live
      <4>3. CASE Live(id) /\ tasks[id].status = s
        BY <2>1, <2>2, <4>1, <4>3 DEF CancelInv
      <4>4. ASSUME NEW c \in Calls, pc[c] \in InSend, loc'[c].id = id, Stored(c, s)'
            PROVE  Undone(s)'
        <5>1. Unrecorded(c)
          BY <4>4 DEF Unrecorded, Returned, InSend
        <5>2. c \in cancel.unrecorded
          BY <2>2, <5>1 DEF CancelInv
        <5>. QED
          BY <1>3, <4>1, <4>4, <5>2 DEF Undone
      <4>. QED
        BY <1>0, <4>2, <4>3, <4>4, OnlySendsRevive DEF CancelInv
    <3>. QED
      BY <3>1, <3>2
  <2>3. cancel.answer \notin {NoStatus, "error", "canceled"} => Undone(cancel.answer)'
    <3>1. PICK s : s = cancel.answer
      OBVIOUS
    <3>2. Undone(s)' <=> Undone(cancel.answer)'
      BY <1>3, <3>1 DEF Undone
    <3>3. cancel.answer \notin {NoStatus, "error", "canceled"} => Undone(s)'
      BY <2>1, <3>1 DEF CancelInv
    <3>. QED
      BY <3>2, <3>3
  <2>. QED
    BY <1>0, <1>3, <2>2, <2>3 DEF CancelInv
<1>4. ASSUME NEW id \in 1..taskSeq, CancelTask(id) PROVE CancelInv'
  <2>1. cancel'.answer = NoStatus /\ cancel'.id = id
        /\ cancel'.unrecorded = {c \in Calls : Unrecorded(c)}
    BY <1>4 DEF CancelTask, Unrecorded
  <2>2. ~Live(id)'
    <3>1. CASE Cancel(id)
      <4>1. tasks[id] \in Task /\ id \in DOMAIN tasks
        BY <3>1 DEF Cancel, TypeInv, TypeOK
      <4>2. tasks'[id].status = "canceled"
        BY <3>1, <4>1 DEF Cancel, Task
      <4>. QED
        BY <4>2 DEF Live
    <3>2. CASE tasks[id].status = "canceled" /\ UNCHANGED vars
      BY <3>2 DEF Live, vars
    <3>. QED
      BY <1>4, <3>1, <3>2 DEF CancelTask
  <2>3. ~Live(cancel.id)'
    BY <2>1, <2>2 DEF Live
  <2>4. (\A c \in Calls : Unrecorded(c) => c \in cancel.unrecorded)'
    BY <1>2, <2>1
  <2>. QED
    BY <1>0, <2>1, <2>3, <2>4 DEF CancelInv
<1>5. ASSUME NEW id \in 1..taskSeq, CancelUnknown(id) PROVE CancelInv'
  BY <1>0, <1>5 DEF CancelUnknown, NoCancel, CancelInv, NoStatus
<1>6. CASE AnswerCancel
  <2>. DEFINE answer == IF cancel.id \in DOMAIN tasks THEN tasks[cancel.id].status ELSE "canceled"
  <2>1. /\ cancel' = [(IF answer = "canceled" THEN NoCancel ELSE cancel) EXCEPT !.answer = answer]
        /\ cancel.answer = NoStatus /\ UNCHANGED vars
    BY <1>6 DEF AnswerCancel
  <2>2. answer \in Statuses /\ NoStatus \notin Statuses
    BY DEF TypeInv, TypeOK, Task, Statuses, NoStatus
  <2>3. answer # "canceled" => Live(cancel.id) /\ answer = tasks[cancel.id].status
    BY DEF Live
  <2>. HIDE DEF answer
  <2>4. CASE answer = "canceled"
    <3>1. cancel'.answer = "canceled"
      BY <2>1, <2>4 DEF NoCancel
    <3>. QED
      BY <1>0, <3>1 DEF CancelInv, NoStatus
  <2>5. CASE answer # "canceled"
    <3>1. cancel'.answer = answer /\ cancel'.id = cancel.id /\ cancel'.unrecorded = cancel.unrecorded
      BY <2>1, <2>5 DEF StreamInv, StreamTypeOK
    <3>2. Undone(answer)
      BY <2>1, <2>3, <2>5 DEF CancelInv
    <3>3. PICK s : s = answer
      OBVIOUS
    <3>4. Undone(s)'
      BY <2>1, <3>1, <3>2, <3>3 DEF Undone, Stored, vars
    <3>5. Undone(cancel.answer)'
      BY <3>1, <3>3, <3>4 DEF Undone
    <3>. QED
      BY <1>0, <2>2, <3>1, <3>5 DEF CancelInv
  <2>. QED
    BY <2>4, <2>5
<1>7. \/ UNCHANGED cancel
      \/ \E id \in 1..taskSeq : CancelTask(id) \/ CancelUnknown(id)
      \/ AnswerCancel
  <2>1. ASSUME NEW c \in Calls, HandleStream(c) PROVE UNCHANGED cancel
    BY <2>1, HandlerKinds DEF StreamInv, Beside
  <2>. QED
    BY <2>1 DEF StreamNext, ActionReturns, streamVars, allVars
<1>. QED
  BY <1>3, <1>4, <1>5, <1>6, <1>7

(* A cancellation is undone by nothing but a Send that had not recorded a  *)
(* task when it took effect, has recorded this one since, and with the     *)
(* status the client is told.                                              *)
THEOREM CancellationsAreAnswered == StreamSpec => []CancelAnswered
<1>1. StreamInit => CancelInv
  BY DEF StreamInit, Init, CancelInv, NoCancel, NoStatus, OutcomeRecorded
<1>2. CancelInv => CancelAnswered
  BY DEF CancelInv, CancelAnswered, Undone
<1>. QED
  BY <1>1, <1>2, CancelNext, StreamInvariant, PTL DEF StreamSpec
=============================================================================
