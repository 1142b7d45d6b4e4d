------------------------------ MODULE A2ACalls ------------------------------
(***************************************************************************)
(* One call of the A2A client, end to end: the request, the handler that   *)
(* authenticates, decodes and validates it before the agent runs, the      *)
(* response or the stream it writes, and what the method returns, while    *)
(* the connection may fail and the client may lose its patience at any     *)
(* point.  What the agent does (A2ATasks, A2AStream) is only "it ran and   *)
(* returned this".                                                         *)
(***************************************************************************)
EXTENDS A2AClientStream

CONSTANT Kinds  \* the error kinds an agent or a verifier returns

(* None of them is one of the words below that stand for something else. *)
ASSUME KindsAssumption ==
    {"", "nil", "never", "stream", "reading", "callback error", "read error"} \cap Kinds = {}

VARIABLES
    call,    \* what is called, with what request, of what server
    server,  \* where the handler is
    ran,     \* what the agent returned: "never", "nil" or a kind
    reply,   \* the response the handler wrote: NoReply, "nil", "stream" or a kind
    head     \* the client has read the status line and the headers

callVars == <<call, server, ran, reply, head>>
allVars == <<vars, callVars>>

NoReply == ""
Methods == {"card", "send", "get", "cancel", "stream"}

(* The transport's own kinds. *)
Refusals == {"unauthorized", "unavailable", "bad_request", "too_many_requests", "internal"}

Call == [method: Methods,
         timeout: BOOLEAN,                            \* http.Client.Timeout is not zero
         bearer: {"none", "right", "wrong"},          \* Client.bearerToken
         token: {"unset", "malformed", "right"},      \* the server's environment
         verifier: {"nil"} \cup Kinds,                \* what WithAuthVerifier's says
         body: {"valid", "invalid", "not JSON", "too large"},
         flushes: BOOLEAN]                            \* the writer is an http.Flusher

CallsInit ==
    /\ Init
    /\ call \in Call
    /\ server = "authenticate"
    /\ ran = "never"
    /\ reply = NoReply
    /\ head = FALSE

-----------------------------------------------------------------------------
(* The handler. *)

(* A mutant of Refuse: the handler does not return. *)
BadRefuse(kind) ==
    /\ reply' = kind
    /\ server' = "agent"
    /\ UNCHANGED <<vars, call, ran, head>>

(* writeError: the kind travels in the body (a body that was too large is  *)
(* told as too many requests).  The handler returns.                       *)
Refuse(kind) ==
    /\ reply' = kind
    /\ server' = "returned"
    /\ UNCHANGED <<vars, call, ran, head>>

(* authenticate: "nil", or the kind it fails with. *)
Authenticated ==
    CASE call.token # "right" -> "unavailable"
      [] call.token = "right" /\ call.bearer # "right" -> "unauthorized"
      [] OTHER -> call.verifier

Authenticate ==
    /\ server = "authenticate"
    /\ IF Authenticated # "nil" THEN Refuse(Authenticated)
       ELSE /\ server' = IF call.method = "card" THEN "agent" ELSE "decode"
            /\ UNCHANGED <<vars, call, ran, reply, head>>

(* decodeBody, and then Message.Validate or the check of the task id. *)
Decoded == CASE call.body = "valid" -> "nil"
             [] call.body = "too large" -> "too_many_requests"
             [] OTHER -> "bad_request"

Decode ==
    /\ server = "decode"
    /\ CASE Decoded # "nil" -> Refuse(Decoded)
         [] Decoded = "nil" /\ call.method = "stream" ->
              IF ~call.flushes THEN Refuse("internal")
              ELSE /\ server' = "agent"
                   /\ reply' = "stream"
                   /\ UNCHANGED <<vars, call, ran, head>>
         [] OTHER -> server' = "agent" /\ UNCHANGED <<vars, call, ran, reply, head>>

(* The agent returns.  A stream has its answer in its last event; the      *)
(* answer to a cancellation is decided by Cancel, not by the Get after it. *)
AgentReturns(outcome) ==
    /\ server = "agent"
    /\ ran' = outcome
    /\ server' = "returned"
    /\ reply' = IF reply = "stream" THEN reply ELSE outcome
    /\ UNCHANGED <<vars, call, head>>

Streams == reply = "stream"

StreamEvent == Streams /\ server = "agent" /\ WriteEvent /\ UNCHANGED callVars

ConnectionEnds ==
    /\ Streams
    /\ \E how \in {"eof", "broken"}, lost \in 0..Len(wire) : End(how, lost)
    /\ UNCHANGED callVars

-----------------------------------------------------------------------------
(* The client. *)

ReturnsNow(r) ==
    /\ result' = r
    /\ UNCHANGED <<hasCallback, written, wire, ending, event, data, heard, callVars>>

(* Client.Do returns a response. *)
ReadHead ==
    /\ result = "reading"
    /\ reply # NoReply /\ ~head
    /\ head' = TRUE
    /\ UNCHANGED <<vars, call, server, ran, reply>>

(* doJSON or SendStream with a whole response. *)
Said == CASE reply = "nil" -> "nil"
          [] call.method = "stream" -> "internal"
          [] OTHER -> reply

ReadBody == result = "reading" /\ head /\ ~Streams /\ ReturnsNow(Said)

(* The request does not get through, the response does not come back, the  *)
(* context or the timeout ends: whatever the server goes on to do.         *)
Fail ==
    /\ result = "reading"
    /\ ~(head /\ Streams)
    /\ ReturnsNow(IF head THEN "internal" ELSE "unavailable")

(* A mutant of Timeout: a client without patience. *)
BadTimeout == FALSE /\ Fail

(* http.Client.Timeout, which SendStream sets to zero. *)
Timeout == call.timeout /\ call.method # "stream" /\ Fail

ReadStream == head /\ Streams /\ (TakeLine \/ TakeEnd) /\ UNCHANGED callVars

CallsNext ==
    \/ Authenticate
    \/ Decode
    \/ \E outcome \in {"nil"} \cup Kinds : AgentReturns(outcome)
    \/ StreamEvent
    \/ ConnectionEnds
    \/ ReadHead
    \/ ReadBody
    \/ Fail
    \/ Timeout
    \/ ReadStream

CallsSpec == CallsInit /\ [][CallsNext]_allVars

(* The client reads on and its timer fires; nobody is forced to answer. *)
FairCallsSpec ==
    CallsSpec /\ WF_allVars(Timeout) /\ WF_allVars(ReadHead) /\ WF_allVars(ReadStream)

-----------------------------------------------------------------------------
(* What the caller is told is what happened.  No error means that the      *)
(* agent ran and returned none; an error of a kind of its own is the one   *)
(* the agent returned, or the refusal of a request the agent never saw.    *)
(* Exempt by name: "unavailable" and "internal", which the client also     *)
(* says when it does not know, and streams, which lose both.               *)
AnswerIsTrue ==
    /\ ran # "never" => Authenticated = "nil" /\ (call.method = "card" \/ Decoded = "nil")
    /\ call.method # "stream" =>
        /\ result = "nil" => ran = "nil"
        /\ result \notin {"reading", "nil", "unavailable", "internal"} =>
              \/ result = ran
              \/ ran = "never" /\ result \in {Authenticated, Decoded}

(* A call with a timeout returns, whether or not anybody answers; a stream *)
(* has none and returns once its connection has ended.                     *)
CallReturns ==
    /\ call.timeout /\ call.method # "stream" ~> result # "reading"
    /\ Streams /\ ending # "open" ~> result # "reading"
=============================================================================
