-------------------------- MODULE A2AClientStream --------------------------
(***************************************************************************)
(* Client.SendStream reading what handleStream writes: writeSSEEvent puts  *)
(* an event on the wire as two lines and a blank one, parseSSEStream puts  *)
(* lines together again and calls onEvent, and the connection may break or *)
(* end anywhere in between.  A line that is cut is dropped by ReadString's *)
(* error, so the wire carries whole lines.  A2AStream says which events    *)
(* are written in which order; here event n is the n-th of its stream.     *)
(***************************************************************************)
EXTENDS Naturals, Sequences, SequencesExt

CONSTANT MaxEvents  \* bound: the events a server writes

ASSUME MaxEventsAssumption == MaxEvents \in Nat

VARIABLES
    hasCallback, \* onEvent is not nil
    written,  \* how many events the server has written
    wire,     \* the lines on their way: [kind, n]
    ending,   \* "open", or how the connection ended: "eof" or "broken"
    event,    \* currentEvent: the n of the last "event:" line, or None
    data,     \* currentData: the n of each "data:" line
    heard,    \* the calls of onEvent: [event, data]
    result    \* "reading", or what SendStream returned

vars == <<hasCallback, written, wire, ending, event, data, heard, result>>

None == 0

Init ==
    /\ hasCallback \in BOOLEAN
    /\ written = 0
    /\ wire = <<>>
    /\ ending = "open"
    /\ event = None
    /\ data = <<>>
    /\ heard = <<>>
    /\ result = "reading"

-----------------------------------------------------------------------------
(* The server and the network. *)

(* writeSSEEvent *)
WriteEvent ==
    /\ ending = "open"
    /\ written < MaxEvents
    /\ written' = written + 1
    /\ wire' = wire \o [i \in 1..3 |-> [kind |-> <<"event", "data", "blank">>[i],
                                        n |-> written + 1]]
    /\ UNCHANGED <<hasCallback, ending, event, data, heard, result>>

(* The handler returns, or the connection goes: what was not delivered by  *)
(* then never is, and the client sees the end or an error.                 *)
End(how, lost) ==
    /\ ending = "open"
    /\ ending' = how
    /\ wire' = SubSeq(wire, 1, Len(wire) - lost)
    /\ UNCHANGED <<hasCallback, written, event, data, heard, result>>

-----------------------------------------------------------------------------
(* parseSSEStream. *)

Clear == event' = None /\ data' = <<>>

(* dispatch, at a blank line or at the end; then is what is returned,      *)
(* or "reading".  A callback may return an error.                          *)
Dispatch(then) ==
    \/ /\ event = None /\ data = <<>>
       /\ result' = then
       /\ UNCHANGED <<event, data, heard>>
    \/ /\ event # None \/ data # <<>>
       /\ ~hasCallback
       /\ Clear
       /\ result' = then
       /\ UNCHANGED heard
    \/ /\ event # None \/ data # <<>>
       /\ hasCallback
       /\ heard' = Append(heard, [event |-> event, data |-> data])
       /\ \/ Clear /\ result' = then
          \/ UNCHANGED <<event, data>> /\ result' = "callback error"

(* A mutant of TakeLine: a blank line does not end the event. *)
BadTakeLine ==
    /\ result = "reading" /\ wire # <<>>
    /\ wire' = Tail(wire)
    /\ CASE Head(wire).kind = "event" ->
              event' = Head(wire).n /\ UNCHANGED <<data, heard, result>>
         [] Head(wire).kind = "data" ->
              data' = Append(data, Head(wire).n) /\ UNCHANGED <<event, heard, result>>
         [] Head(wire).kind = "blank" -> UNCHANGED <<event, data, heard, result>>
    /\ UNCHANGED <<hasCallback, written, ending>>

TakeLine ==
    /\ result = "reading" /\ wire # <<>>
    /\ wire' = Tail(wire)
    /\ CASE Head(wire).kind = "event" ->
              event' = Head(wire).n /\ UNCHANGED <<data, heard, result>>
         [] Head(wire).kind = "data" ->
              data' = Append(data, Head(wire).n) /\ UNCHANGED <<event, heard, result>>
         [] Head(wire).kind = "blank" -> Dispatch("reading")
    /\ UNCHANGED <<hasCallback, written, ending>>

(* ReadString returns io.EOF, and the event read so far is dispatched, or  *)
(* another error.                                                          *)
TakeEnd ==
    /\ result = "reading" /\ wire = <<>>
    /\ \/ ending = "eof" /\ Dispatch("nil")
       \/ ending = "broken" /\ result' = "read error" /\ UNCHANGED <<event, data, heard>>
    /\ UNCHANGED <<hasCallback, written, wire, ending>>

-----------------------------------------------------------------------------
(* The callback hears the events of the server in their order, none twice  *)
(* and none mixed up, wherever the connection is cut.  Only the last one   *)
(* may come without its data: when the stream ended between its lines.     *)
HeardAsWritten ==
    \A i \in 1..Len(heard) :
        /\ heard[i].event = i
        /\ \/ heard[i].data = <<i>>
           \/ heard[i].data = <<>> /\ i = Len(heard) /\ ending = "eof" /\ result # "reading"
=============================================================================
