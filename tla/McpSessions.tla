---------------------------- MODULE McpSessions ----------------------------
(***************************************************************************)
(* The HTTP side of the MCP transport (package tmcp, sse.go): connections  *)
(* to GET /mcp/sse, each with a channel of responses registered under a    *)
(* session id, and POSTs to /mcp/message that name a session id, execute   *)
(* the request and hand the response to the channel of that session.       *)
(***************************************************************************)
EXTENDS Naturals, Sequences, Functions

CONSTANTS
    Connections,  \* runs of serveSSE
    Posts,        \* runs of serveHTTPMessage with a sessionId
    Notes,        \* the posts whose request has no id (notifications)
    Unencodable,  \* the posts whose response json.Marshal fails on, such as a
                  \* tools/list over a schema given to WithInputSchema
    SessionIds,   \* the values of UnixNano; two connections may read the same
    Capacity      \* of a session's channel (16)

ASSUME PostsAssumption == Notes \subseteq Posts /\ Unencodable \subseteq Posts
ASSUME CapacityAssumption == Capacity \in Nat \ {0}

VARIABLES
    sessions,  \* Transport.sessions: session id -> the connection whose channel it is
    serving,   \* where each connection is
    sid,       \* its session id
    channel,   \* the responses in its channel, oldest first
    emitted,   \* the responses written to its event stream
    posting,   \* where each post is
    target,    \* the session id a post names
    sendTo     \* the connection whose channel it found

vars == <<sessions, serving, sid, channel, emitted, posting, target, sendTo>>

NoSession == "none"
NoConnection == "none"

ServingStates == {"new", "open", "leaving", "gone"}
PostStates == {"new", "malformed", "executed", "found", "blocked", "accepted",
               "unknown", "timeout", "aborted"}

TypeOK ==
    /\ DOMAIN sessions \subseteq SessionIds
    /\ \A s \in DOMAIN sessions : sessions[s] \in Connections
    /\ serving \in [Connections -> ServingStates]
    /\ sid \in [Connections -> SessionIds \cup {NoSession}]
    /\ channel \in [Connections -> Seq(Posts)]
    /\ \A c \in Connections : Len(channel[c]) <= Capacity
    /\ emitted \in [Connections -> Seq(Posts)]
    /\ posting \in [Posts -> PostStates]
    /\ target \in [Posts -> SessionIds \cup {NoSession}]
    /\ sendTo \in [Posts -> Connections \cup {NoConnection}]

Init ==
    /\ sessions = <<>>
    /\ serving = [c \in Connections |-> "new"]
    /\ sid = [c \in Connections |-> NoSession]
    /\ channel = [c \in Connections |-> <<>>]
    /\ emitted = [c \in Connections |-> <<>>]
    /\ posting = [p \in Posts |-> "new"]
    /\ target = [p \in Posts |-> NoSession]
    /\ sendTo = [p \in Posts |-> NoConnection]

-----------------------------------------------------------------------------
(* serveSSE. *)

(* The session is registered and its id sent to the client.  A connection  *)
(* that reads the id of another one replaces it.                           *)
Open(c, s) ==
    /\ serving[c] = "new"
    /\ sid' = [sid EXCEPT ![c] = s]
    /\ sessions' = [x \in DOMAIN sessions \cup {s} |-> IF x = s THEN c ELSE sessions[x]]
    /\ serving' = [serving EXCEPT ![c] = "open"]
    /\ UNCHANGED <<channel, emitted, posting, target, sendTo>>

(* A mutant of Emit: a connection that was replaced writes nothing more. *)
BadEmit(c) ==
    /\ serving[c] = "open"
    /\ channel[c] # <<>>
    /\ sid[c] \in DOMAIN sessions /\ sessions[sid[c]] = c
    /\ emitted' = [emitted EXCEPT ![c] = IF Head(channel[c]) \in Unencodable THEN @
                                         ELSE Append(@, Head(channel[c]))]
    /\ channel' = [channel EXCEPT ![c] = Tail(@)]
    /\ UNCHANGED <<sessions, serving, sid, posting, target, sendTo>>

(* A response is taken from the channel and written, or dropped when it    *)
(* cannot be encoded: its post was answered with 202 all the same.         *)
Emit(c) ==
    /\ serving[c] = "open"
    /\ channel[c] # <<>>
    /\ emitted' = [emitted EXCEPT ![c] = IF Head(channel[c]) \in Unencodable THEN @
                                         ELSE Append(@, Head(channel[c]))]
    /\ channel' = [channel EXCEPT ![c] = Tail(@)]
    /\ UNCHANGED <<sessions, serving, sid, posting, target, sendTo>>

(* The client goes away: the loop ends, whatever is in the channel. *)
Leave(c) ==
    /\ serving[c] = "open"
    /\ serving' = [serving EXCEPT ![c] = "leaving"]
    /\ UNCHANGED <<sessions, sid, channel, emitted, posting, target, sendTo>>

(* A mutant of Deregister: the session is never forgotten. *)
BadDeregisterLeak(c) ==
    /\ serving[c] = "leaving"
    /\ serving' = [serving EXCEPT ![c] = "gone"]
    /\ UNCHANGED <<sessions, sid, channel, emitted, posting, target, sendTo>>

(* The deferred function: the session is forgotten unless it was replaced. *)
Deregister(c) ==
    /\ serving[c] = "leaving"
    /\ serving' = [serving EXCEPT ![c] = "gone"]
    /\ sessions' = IF sid[c] \in DOMAIN sessions /\ sessions[sid[c]] = c
                   THEN [s \in DOMAIN sessions \ {sid[c]} |-> sessions[s]]
                   ELSE sessions
    /\ UNCHANGED <<sid, channel, emitted, posting, target, sendTo>>

-----------------------------------------------------------------------------
(* serveHTTPMessage with a sessionId. *)

(* The body is no JSON request: 400, before anything is executed. *)
RefuseBody(p) ==
    /\ posting[p] = "new"
    /\ posting' = [posting EXCEPT ![p] = "malformed"]
    /\ UNCHANGED <<sessions, serving, sid, channel, emitted, target, sendTo>>

(* The request is decoded and dispatched before the session is looked up;  *)
(* the client knows the ids of sessions that were opened.                  *)
Dispatch(p, s) ==
    /\ posting[p] = "new"
    /\ \E c \in Connections : sid[c] = s
    /\ target' = [target EXCEPT ![p] = s]
    /\ posting' = [posting EXCEPT ![p] = "executed"]
    /\ UNCHANGED <<sessions, serving, sid, channel, emitted, sendTo>>

(* The lookup under RLock: 404, or the channel to send to; a notification  *)
(* sends nothing.                                                          *)
Lookup(p) ==
    /\ posting[p] = "executed"
    /\ IF target[p] \notin DOMAIN sessions
       THEN posting' = [posting EXCEPT ![p] = "unknown"] /\ UNCHANGED sendTo
       ELSE /\ sendTo' = [sendTo EXCEPT ![p] = sessions[target[p]]]
            /\ posting' = [posting EXCEPT ![p] = IF p \in Notes THEN "accepted" ELSE "found"]
    /\ UNCHANGED <<sessions, serving, sid, channel, emitted, target>>

(* A mutant of Enqueue: the handler sends again. *)
BadEnqueue(p) ==
    /\ posting[p] \in {"found", "blocked"}
    /\ Len(channel[sendTo[p]]) < Capacity
    /\ channel' = [channel EXCEPT ![sendTo[p]] = Append(@, p)]
    /\ UNCHANGED <<sessions, serving, sid, emitted, target, sendTo, posting>>

(* The channel has room. *)
Enqueue(p) ==
    /\ posting[p] \in {"found", "blocked"}
    /\ Len(channel[sendTo[p]]) < Capacity
    /\ channel' = [channel EXCEPT ![sendTo[p]] = Append(@, p)]
    /\ posting' = [posting EXCEPT ![p] = "accepted"]
    /\ UNCHANGED <<sessions, serving, sid, emitted, target, sendTo>>

(* The channel is full: the select blocks, and the 5 seconds begin. *)
Block(p) ==
    /\ posting[p] = "found"
    /\ Len(channel[sendTo[p]]) = Capacity
    /\ posting' = [posting EXCEPT ![p] = "blocked"]
    /\ UNCHANGED <<sessions, serving, sid, channel, emitted, target, sendTo>>

(* A mutant of Timeout: the 5 seconds end only while the session is open. *)
BadTimeout(p) ==
    /\ posting[p] = "blocked"
    /\ serving[sendTo[p]] = "open"
    /\ posting' = [posting EXCEPT ![p] = "timeout"]
    /\ UNCHANGED <<sessions, serving, sid, channel, emitted, target, sendTo>>

Timeout(p) ==
    /\ posting[p] = "blocked"
    /\ posting' = [posting EXCEPT ![p] = "timeout"]
    /\ UNCHANGED <<sessions, serving, sid, channel, emitted, target, sendTo>>

(* The poster's request is canceled while its response waits to be sent. *)
Abort(p) ==
    /\ posting[p] \in {"found", "blocked"}
    /\ posting' = [posting EXCEPT ![p] = "aborted"]
    /\ UNCHANGED <<sessions, serving, sid, channel, emitted, target, sendTo>>

-----------------------------------------------------------------------------
Next ==
    \/ \E c \in Connections : \/ \E s \in SessionIds : Open(c, s)
                              \/ Emit(c)
                              \/ Leave(c)
                              \/ Deregister(c)
    \/ \E p \in Posts : \/ RefuseBody(p)
                        \/ \E s \in SessionIds : Dispatch(p, s)
                        \/ Lookup(p)
                        \/ Enqueue(p)
                        \/ Block(p)
                        \/ Timeout(p)
                        \/ Abort(p)

Spec == Init /\ [][Next]_vars

(* The handlers run; nobody is forced to open, leave or post. *)
FairSpec ==
    /\ Spec
    /\ \A c \in Connections : WF_vars(Emit(c)) /\ WF_vars(Deregister(c))
    /\ \A p \in Posts : /\ WF_vars(Lookup(p))
                        /\ WF_vars(Enqueue(p) \/ Block(p) \/ Timeout(p))

-----------------------------------------------------------------------------
Through(c) == emitted[c] \o channel[c]

(* Every response passes at most once, and only through a connection that  *)
(* was given the session id its post named.                                *)
DeliveredOnceToAddressee ==
    \A c \in Connections :
        /\ \A p \in Range(Through(c)) : sid[c] = target[p] /\ posting[p] = "accepted"
        /\ IsInjective(Through(c))
        /\ \A d \in Connections \ {c} : Range(Through(c)) \cap Range(Through(d)) = {}

(* A response answered with 202 is on its way or written: it is in the     *)
(* channel of its session or in its stream, unless it cannot be encoded.   *)
AcceptedIsOnItsWay ==
    \A p \in Posts \ (Notes \cup Unencodable) :
        posting[p] = "accepted" => p \in Range(Through(sendTo[p]))

(* The table keeps no connection that has returned, ...                    *)
NoSessionLeaks ==
    \A s \in DOMAIN sessions : serving[sessions[s]] \in {"open", "leaving"}

(* ... and loses a session only when the connection it belongs to leaves:  *)
(* one that was replaced under the same id never takes its successor away. *)
SessionEndsWithItsOwner ==
    [][\A s \in DOMAIN sessions \ DOMAIN sessions' :
          serving[sessions[s]] = "leaving" /\ serving'[sessions[s]] = "gone"]_vars

(* Every executed post with a session is answered, ...                     *)
PostsEnd ==
    \A p \in Posts : posting[p] = "executed" ~>
        posting[p] \in {"accepted", "unknown", "timeout", "aborted"}

(* ... and what was accepted for a connection that stays is written to it, *)
(* also when the connection was replaced under its id or a response before *)
(* it could not be encoded; one that cannot be encoded itself is lost.     *)
AcceptedIsWritten ==
    \A p \in Posts \ (Notes \cup Unencodable) : posting[p] = "accepted" ~>
        /\ posting[p] = "accepted"
        /\ p \in Range(emitted[sendTo[p]]) \/ serving[sendTo[p]] # "open"
=============================================================================
