--------------------------- MODULE A2ACallsProofs ---------------------------
(***************************************************************************)
(* Proofs that the client's caller is told what happened (AnswerIsTrue)    *)
(* and that a stream is heard as it was written (HeardAsWritten), for any  *)
(* error kinds and any number of stream events.                            *)
(*                                                                         *)
(* The first invariant says, for each place the handler can be at, what it *)
(* has established by then about the request, the agent and the response,  *)
(* and that a call which is not a stream returns the response or "I do not *)
(* know".                                                                  *)
(***************************************************************************)
EXTENDS A2ACalls, TLAPS, SequenceTheorems

Passed == Authenticated = "nil" /\ (call.method = "card" \/ Decoded = "nil")

(* Where the handler is tells what it has established. *)
HandlerInv ==
    /\ server \in {"authenticate", "decode", "agent", "returned"}
    /\ server = "authenticate" => ran = "never" /\ reply = NoReply
    /\ server = "decode" => /\ ran = "never" /\ reply = NoReply
                            /\ Authenticated = "nil" /\ call.method # "card"
    /\ server = "agent" => ran = "never" /\ Passed /\ reply \in {NoReply, "stream"}
    /\ ran # "never" => server = "returned" /\ Passed
    /\ reply = "stream" => call.method = "stream"
    /\ head => reply # NoReply

(* The response, if there is one, of a call that is no stream. *)
ReplyInv ==
    reply # NoReply /\ call.method # "stream" =>
        /\ server = "returned"
        /\ reply \notin {"reading", "stream"}
        /\ \/ reply = ran
           \/ ran = "never" /\ reply # "nil" /\ reply \in {Authenticated, Decoded}

(* What such a call returns. *)
ResultInv ==
    call.method # "stream" =>
        result \in {"reading", "internal", "unavailable"} \/ (result = reply /\ reply # NoReply)

(* The call is one of those enumerated; its record is opened only in Verdicts. *)
CallOK == call \in Call

AnswerInv == CallOK /\ HandlerInv /\ ReplyInv /\ ResultInv

-----------------------------------------------------------------------------
(* What authentication and decoding can say. *)
LEMMA Verdicts ==
    ASSUME CallOK
    PROVE  /\ Authenticated \notin {"", "stream", "reading", "never"}
           /\ Decoded \in {"nil", "too_many_requests", "bad_request"}
  BY KindsAssumption DEF CallOK, Call, Authenticated, Decoded

LEMMA AnswerInit == CallsInit => AnswerInv
  BY DEF CallsInit, Init, AnswerInv, CallOK, HandlerInv, ReplyInv, ResultInv, Passed, NoReply

(* A refusal before the agent ran. *)
LEMMA RefuseKeeps ==
    ASSUME AnswerInv, server \in {"authenticate", "decode"}, NEW kind,
           kind \in {Authenticated, Decoded} \/ (kind = "internal" /\ call.method = "stream"),
           kind \notin {"nil", ""}, Refuse(kind)
    PROVE  AnswerInv'
<1>1. ran = "never" /\ reply = NoReply /\ kind \notin {"stream", "reading"}
  BY Verdicts DEF AnswerInv, HandlerInv
<1>2. Authenticated' = Authenticated /\ Decoded' = Decoded /\ call' = call /\ ran' = ran
      /\ head' = head /\ result' = result /\ reply' = kind /\ server' = "returned"
  BY DEF Refuse, Authenticated, Decoded, vars
<1>3. CallOK'
  BY <1>2 DEF AnswerInv, CallOK
<1>4. HandlerInv'
  BY <1>1, <1>2 DEF HandlerInv, NoReply
<1>5. ReplyInv'
  BY <1>1, <1>2 DEF ReplyInv
<1>6. ResultInv'
  BY <1>1, <1>2 DEF AnswerInv, ResultInv, NoReply
<1> QED
  BY <1>3, <1>4, <1>5, <1>6 DEF AnswerInv

LEMMA AuthenticateKeeps ==
    ASSUME AnswerInv, Authenticate
    PROVE  AnswerInv'
<1>1. CASE Authenticated # "nil"
  BY <1>1, Verdicts, RefuseKeeps DEF Authenticate, AnswerInv
<1>2. CASE Authenticated = "nil"
  <2>1. Authenticated' = Authenticated /\ Decoded' = Decoded /\ call' = call /\ ran' = ran
        /\ head' = head /\ result' = result /\ reply' = reply
        /\ server' = IF call.method = "card" THEN "agent" ELSE "decode"
    BY <1>2 DEF Authenticate, Authenticated, Decoded, vars
  <2>2. ran = "never" /\ reply = NoReply
    BY DEF Authenticate, AnswerInv, HandlerInv
  <2> QED
    BY <1>2, <2>1, <2>2 DEF AnswerInv, CallOK, HandlerInv, ReplyInv, ResultInv, Passed, NoReply
<1> QED
  BY <1>1, <1>2

LEMMA DecodeKeeps ==
    ASSUME AnswerInv, Decode
    PROVE  AnswerInv'
<1>1. CASE Decoded # "nil"
  <2>1. Refuse(Decoded)
    BY <1>1 DEF Decode
  <2> QED
    BY <1>1, <2>1, Verdicts, RefuseKeeps DEF Decode, AnswerInv
<1>2. CASE Decoded = "nil" /\ call.method = "stream" /\ ~call.flushes
  <2>1. Refuse("internal")
    BY <1>2 DEF Decode
  <2> QED
    BY <1>2, <2>1, RefuseKeeps DEF Decode, AnswerInv
<1>3. CASE Decoded = "nil" /\ ~(call.method = "stream" /\ ~call.flushes)
  <2>1. Authenticated' = Authenticated /\ Decoded' = Decoded /\ call' = call /\ ran' = ran
        /\ head' = head /\ result' = result /\ server' = "agent"
        /\ \/ call.method = "stream" /\ reply' = "stream"
           \/ call.method # "stream" /\ reply' = reply
    BY <1>3 DEF Decode, Authenticated, Decoded, vars
  <2>2. ran = "never" /\ reply = NoReply /\ Authenticated = "nil"
    BY DEF Decode, AnswerInv, HandlerInv
  <2> QED
    BY <1>3, <2>1, <2>2 DEF AnswerInv, CallOK, HandlerInv, ReplyInv, ResultInv, Passed, NoReply
<1> QED
  BY <1>1, <1>2, <1>3

LEMMA AgentReturnsKeeps ==
    ASSUME AnswerInv, NEW outcome \in {"nil"} \cup Kinds, AgentReturns(outcome)
    PROVE  AnswerInv'
<1>1. /\ Authenticated' = Authenticated /\ Decoded' = Decoded /\ call' = call
      /\ ran' = outcome /\ head' = head /\ result' = result /\ server' = "returned"
      /\ reply' = IF reply = "stream" THEN reply ELSE outcome
  BY DEF AgentReturns, Authenticated, Decoded, vars
<1>2. outcome \notin {"", "never", "stream", "reading"}
  BY KindsAssumption
<1>3. Passed /\ reply \in {NoReply, "stream"}
  BY DEF AgentReturns, AnswerInv, HandlerInv
<1> QED
  BY <1>1, <1>2, <1>3 DEF AnswerInv, CallOK, HandlerInv, ReplyInv, ResultInv, Passed, NoReply

(* The client returns, or a stream moves: the handler stays where it is. *)
LEMMA ClientKeeps ==
    ASSUME AnswerInv, UNCHANGED <<call, server, ran, reply>>, head' => head \/ reply # NoReply,
           call.method # "stream" =>
              result' \in {result, "internal", "unavailable"} \/ (result' = reply /\ reply # NoReply)
    PROVE  AnswerInv'
<1>1. Authenticated' = Authenticated /\ Decoded' = Decoded
  BY DEF Authenticated, Decoded
<1> QED
  BY <1>1 DEF AnswerInv, CallOK, HandlerInv, ReplyInv, ResultInv, Passed

(* Only the reader of a stream and the client's returns change the result. *)
LEMMA AnswerStep == AnswerInv /\ [CallsNext]_allVars => AnswerInv'
<1> SUFFICES ASSUME AnswerInv, [CallsNext]_allVars PROVE AnswerInv'
  OBVIOUS
<1> USE DEF callVars
<1>1. CASE Authenticate
  BY <1>1, AuthenticateKeeps
<1>2. CASE Decode
  BY <1>2, DecodeKeeps
<1>3. CASE \E outcome \in {"nil"} \cup Kinds : AgentReturns(outcome)
  BY <1>3, AgentReturnsKeeps
<1>4. CASE StreamEvent
  BY <1>4, ClientKeeps DEF StreamEvent, WriteEvent
<1>5. CASE ConnectionEnds
  BY <1>5, ClientKeeps DEF ConnectionEnds, End
<1>6. CASE ReadHead
  BY <1>6, ClientKeeps DEF ReadHead, vars
<1>7. CASE ReadBody
  <2>1. reply # NoReply
    BY <1>7 DEF ReadBody, AnswerInv, HandlerInv
  <2>2. UNCHANGED <<call, server, ran, reply>> /\ result' = Said
    BY <1>7 DEF ReadBody, ReturnsNow
  <2>3. call.method # "stream" => Said = reply
    BY DEF Said
  <2> QED
    BY <2>1, <2>2, <2>3, ClientKeeps
<1>8. CASE Fail
  BY <1>8, ClientKeeps DEF Fail, ReturnsNow
<1>9. CASE Timeout
  BY <1>9, ClientKeeps DEF Timeout, Fail, ReturnsNow
<1>10. CASE ReadStream
  <2>1. call.method = "stream"
    BY <1>10 DEF ReadStream, Streams, AnswerInv, HandlerInv
  <2> QED
    BY <1>10, <2>1, ClientKeeps DEF ReadStream
<1>11. CASE UNCHANGED allVars
  BY <1>11, ClientKeeps DEF allVars, vars
<1> QED
  BY <1>1, <1>2, <1>3, <1>4, <1>5, <1>6, <1>7, <1>8, <1>9, <1>10, <1>11 DEF CallsNext

LEMMA AnswerImplied == AnswerInv => AnswerIsTrue
<1> SUFFICES ASSUME AnswerInv PROVE AnswerIsTrue
  OBVIOUS
<1>1. ran # "never" => Passed
  BY DEF AnswerInv, HandlerInv
<1>2. CASE call.method = "stream"
  BY <1>1, <1>2 DEF AnswerIsTrue, Passed
<1>3. CASE call.method # "stream"
  BY <1>1, <1>3 DEF AnswerInv, ReplyInv, ResultInv, AnswerIsTrue, Passed
<1> QED
  BY <1>2, <1>3

(* For any kinds of errors: no call reports success unless the agent ran   *)
(* and returned none, and none reports an error that neither the agent nor *)
(* a refusal before it made.                                               *)
THEOREM CallersAreToldTheTruth == CallsSpec => []AnswerIsTrue
  BY AnswerInit, AnswerStep, AnswerImplied, PTL DEF CallsSpec

-----------------------------------------------------------------------------
(* The stream.  The lines on the wire follow one another as the server     *)
(* writes them, from the one the reader waits for (cur) to the last event  *)
(* written, and the parser holds the part of cur's event before cur.       *)
Line == [kind : {"event", "data", "blank"}, n : Nat \ {0}]

Follows(m, l) ==
    \/ l.kind = "event" /\ m = [kind |-> "data", n |-> l.n]
    \/ l.kind = "data" /\ m = [kind |-> "blank", n |-> l.n]
    \/ l.kind = "blank" /\ m = [kind |-> "event", n |-> l.n + 1]

Chained(w) == \A i \in 1..(Len(w) - 1) : Follows(w[i + 1], w[i])

OnTheWire(cur) ==
    /\ wire # <<>> => wire[1] = cur
    /\ Chained(wire)
    /\ ending = "open" =>
          IF wire = <<>> THEN cur = [kind |-> "event", n |-> written + 1]
          ELSE wire[Len(wire)] = [kind |-> "blank", n |-> written]

Parsed(cur) ==
    /\ event = IF cur.kind = "event" THEN None ELSE cur.n
    /\ data = IF cur.kind = "blank" THEN <<cur.n>> ELSE <<>>
    /\ IF hasCallback THEN Len(heard) = cur.n - 1 ELSE heard = <<>>

Whole == \A i \in 1..Len(heard) : heard[i] = [event |-> i, data |-> <<i>>]

Heard == [event : Nat, data : Seq(Nat)]
WireOK == wire \in Seq(Line) /\ heard \in Seq(Heard) /\ written \in Nat

HearInv ==
    /\ WireOK
    /\ HeardAsWritten
    /\ result = "reading" => Whole /\ \E cur \in Line : OnTheWire(cur) /\ Parsed(cur)

LEMMA HearInit == CallsInit => HearInv
<1>. SUFFICES ASSUME CallsInit PROVE HearInv
  OBVIOUS
<1>. DEFINE first == [kind |-> "event", n |-> 1]
<1>1. /\ wire = <<>> /\ heard = <<>> /\ written = 0 /\ event = None /\ data = <<>>
  BY DEF CallsInit, Init
<1>2. <<>> \in Seq(Line) /\ <<>> \in Seq(Heard) /\ Len(<<>>) = 0
  OBVIOUS
<1>3. first \in Line
  BY DEF Line
<1>4. OnTheWire(first)
  BY <1>1, <1>2 DEF OnTheWire, Chained
<1>5. Parsed(first)
  BY <1>1, <1>2 DEF Parsed
<1>6. Whole /\ HeardAsWritten /\ WireOK
  BY <1>1, <1>2 DEF Whole, HeardAsWritten, WireOK
<1>. QED
  BY <1>3, <1>4, <1>5, <1>6 DEF HearInv

(* The lines of one event, and what the wire is with them. *)
LEMMA EventLines ==
    ASSUME WireOK, WriteEvent
    PROVE  /\ wire' \in Seq(Line)
           /\ Len(wire') = Len(wire) + 3
           /\ \A i \in 1..Len(wire) : wire'[i] = wire[i]
           /\ wire'[Len(wire) + 1] = [kind |-> "event", n |-> written + 1]
           /\ wire'[Len(wire) + 2] = [kind |-> "data", n |-> written + 1]
           /\ wire'[Len(wire) + 3] = [kind |-> "blank", n |-> written + 1]
<1>. DEFINE three == [i \in 1..3 |-> [kind |-> <<"event", "data", "blank">>[i], n |-> written + 1]]
<1>1. /\ three[1] = [kind |-> "event", n |-> written + 1]
      /\ three[2] = [kind |-> "data", n |-> written + 1]
      /\ three[3] = [kind |-> "blank", n |-> written + 1]
  OBVIOUS
<1>2. \A i \in 1..3 : three[i] \in Line
  <2>1. \A i \in 1..3 : i = 1 \/ i = 2 \/ i = 3
    OBVIOUS
  <2>2. written + 1 \in Nat \ {0}
    BY DEF WireOK
  <2>. QED
    BY <1>1, <2>1, <2>2 DEF Line
<1>3. three \in [1..3 -> Line]
  BY <1>2
<1>4. wire' = wire \o three
  BY DEF WriteEvent
<1>. HIDE DEF three
<1>5. three \in Seq(Line) /\ Len(three) = 3
  <2>1. three \in Seq(Line)
    BY <1>3, SeqDef
  <2>2. DOMAIN three = 1..3 /\ DOMAIN three = 1..Len(three) /\ Len(three) \in Nat
    BY <1>3, <2>1, LenProperties
  <2>. QED
    BY <2>1, <2>2
<1>6. wire \in Seq(Line) /\ Len(wire) \in Nat
  BY DEF WireOK
<1>7. /\ wire' \in Seq(Line) /\ Len(wire') = Len(wire) + 3
      /\ \A i \in 1..(Len(wire) + 3) :
            wire'[i] = IF i <= Len(wire) THEN wire[i] ELSE three[i - Len(wire)]
  <2>1. /\ wire \o three \in Seq(Line)
        /\ Len(wire \o three) = Len(wire) + Len(three)
        /\ \A i \in 1..Len(wire) + Len(three) : (wire \o three)[i] =
              IF i <= Len(wire) THEN wire[i] ELSE three[i - Len(wire)]
    BY <1>5, <1>6, ConcatProperties
  <2>. QED
    BY <1>4, <1>5, <2>1
<1>. QED
  <2>1. \A i \in 1..Len(wire) : wire'[i] = wire[i]
    BY <1>6, <1>7
  <2>2. \A k \in 1..3 : wire'[Len(wire) + k] = three[k]
    BY <1>6, <1>7
  <2>. QED
    BY <1>1, <1>7, <2>1, <2>2

(* One event more lengthens the chain. *)
LEMMA WriteKeeps ==
    ASSUME WireOK, WriteEvent, NEW cur \in Line, OnTheWire(cur)
    PROVE  OnTheWire(cur)'
<1>1. /\ wire' \in Seq(Line)
      /\ Len(wire') = Len(wire) + 3 /\ Len(wire) \in Nat /\ written \in Nat
      /\ \A i \in 1..Len(wire) : wire'[i] = wire[i]
      /\ wire'[Len(wire) + 1] = [kind |-> "event", n |-> written + 1]
      /\ wire'[Len(wire) + 2] = [kind |-> "data", n |-> written + 1]
      /\ wire'[Len(wire) + 3] = [kind |-> "blank", n |-> written + 1]
      /\ ending' = ending /\ ending = "open" /\ written' = written + 1
  BY EventLines DEF WriteEvent, WireOK
<1>2. wire = <<>> <=> Len(wire) = 0
  BY DEF WireOK
<1>3. wire' # <<>>
  BY <1>1
<1>4. wire'[1] = cur
  <2>1. CASE wire = <<>>
    BY <1>1, <1>2, <2>1 DEF OnTheWire
  <2>2. CASE wire # <<>>
    BY <1>1, <1>2, <2>2 DEF OnTheWire
  <2>. QED
    BY <2>1, <2>2
<1>5. Chained(wire)'
  <2>. SUFFICES ASSUME NEW i \in 1..(Len(wire') - 1) PROVE Follows(wire'[i + 1], wire'[i])
    BY DEF Chained
  <2>1. CASE i < Len(wire)
    <3>1. i \in 1..(Len(wire) - 1) /\ i \in 1..Len(wire) /\ i + 1 \in 1..Len(wire)
      BY <1>1, <2>1
    <3>. QED
      BY <1>1, <3>1 DEF OnTheWire, Chained
  <2>2. CASE i = Len(wire)
    <3>1. wire # <<>> /\ i \in 1..Len(wire)
      BY <1>1, <1>2, <2>2
    <3>2. wire'[i] = [kind |-> "blank", n |-> written]
      BY <1>1, <2>2, <3>1 DEF OnTheWire
    <3>. QED
      BY <1>1, <2>2, <3>2 DEF Follows
  <2>3. CASE i = Len(wire) + 1
    <3>1. i + 1 = Len(wire) + 2
      BY <1>1, <2>3
    <3>. QED
      BY <1>1, <2>3, <3>1 DEF Follows
  <2>4. CASE i = Len(wire) + 2
    <3>1. i + 1 = Len(wire) + 3
      BY <1>1, <2>4
    <3>. QED
      BY <1>1, <2>4, <3>1 DEF Follows
  <2>. QED
    BY <1>1, <2>1, <2>2, <2>3, <2>4
<1>6. wire'[Len(wire')] = [kind |-> "blank", n |-> written']
  BY <1>1
<1>. QED
  BY <1>1, <1>3, <1>4, <1>5, <1>6 DEF OnTheWire

(* What is lost at the end is a suffix. *)
LEMMA EndKeeps ==
    ASSUME WireOK, NEW how \in {"eof", "broken"}, NEW lost \in 0..Len(wire), End(how, lost)
    PROVE  WireOK' /\ \A cur \in Line : OnTheWire(cur) => OnTheWire(cur)'
<1>. DEFINE m == Len(wire) - lost
<1>1. wire \in Seq(Line) /\ m \in 0..Len(wire) /\ Len(wire) \in Nat
  BY DEF WireOK
<1>2. wire' = SubSeq(wire, 1, m) /\ ending' = how /\ UNCHANGED <<heard, written>>
  BY DEF End
<1>3. /\ wire' \in Seq(Line) /\ Len(wire') = m
      /\ \A i \in 1..m : wire'[i] = wire[i]
  BY <1>1, <1>2
<1>. HIDE DEF m
<1>4. ASSUME NEW cur \in Line, OnTheWire(cur) PROVE OnTheWire(cur)'
  <2>1. wire' # <<>> => wire'[1] = cur
    <3>. SUFFICES ASSUME wire' # <<>> PROVE wire'[1] = cur
      OBVIOUS
    <3>1. m > 0
      BY <1>1, <1>3
    <3>. QED
      BY <1>1, <1>3, <1>4, <3>1 DEF OnTheWire
  <2>2. Chained(wire)'
    BY <1>1, <1>3, <1>4 DEF OnTheWire, Chained
  <2>3. ending' # "open"
    BY <1>2
  <2>. QED
    BY <2>1, <2>2, <2>3 DEF OnTheWire
<1>. QED
  BY <1>2, <1>3, <1>4 DEF WireOK

(* The reader takes a line: the chain begins one later. *)
LEMMA TakeKeeps ==
    ASSUME WireOK, wire # <<>>, wire' = Tail(wire), UNCHANGED <<ending, written>>,
           NEW cur \in Line, OnTheWire(cur), NEW next \in Line, Follows(next, cur)
    PROVE  wire' \in Seq(Line) /\ OnTheWire(next)'
<1>1. /\ wire \in Seq(Line) /\ Len(wire) \in Nat \ {0} /\ written \in Nat
      /\ wire' \in Seq(Line) /\ Len(wire') = Len(wire) - 1
      /\ \A i \in 1..Len(wire') : wire'[i] = wire[i + 1]
      /\ wire[1] = cur
  BY HeadTailProperties DEF WireOK, OnTheWire
<1>2. \A l, m1, m2 \in Line : Follows(m1, l) /\ Follows(m2, l) => m1 = m2
  BY DEF Follows, Line
<1>3. \A i \in 1..Len(wire) : wire[i] \in Line
  BY <1>1
<1>4. wire' = <<>> <=> Len(wire) = 1
  <2>1. \A w \in Seq(Line) : w = <<>> <=> Len(w) = 0
    OBVIOUS
  <2>2. wire' = <<>> <=> Len(wire') = 0
    BY <1>1, <2>1
  <2>. QED
    BY <1>1, <2>2
<1>5. CASE Len(wire) = 1
  <2>1. ending = "open" => cur = [kind |-> "blank", n |-> written]
    BY <1>1, <1>5 DEF OnTheWire
  <2>2. ending = "open" => next = [kind |-> "event", n |-> written + 1]
    BY <2>1 DEF Follows
  <2>3. Chained(wire)'
    BY <1>1, <1>5 DEF Chained
  <2>. QED
    BY <1>1, <1>4, <1>5, <2>2, <2>3 DEF OnTheWire
<1>6. CASE Len(wire) > 1
  <2>1. Follows(wire[2], wire[1]) /\ wire[2] \in Line
    <3>1. 1 \in 1..(Len(wire) - 1) /\ 2 \in 1..Len(wire)
      BY <1>1, <1>6
    <3>. QED
      BY <1>3, <3>1 DEF OnTheWire, Chained
  <2>2. wire'[1] = wire[2] /\ wire'[Len(wire')] = wire[Len(wire)]
    BY <1>1, <1>6
  <2>3. wire'[1] = next
    BY <1>1, <1>2, <2>1, <2>2
  <2>4. Chained(wire)'
    <3>. SUFFICES ASSUME NEW i \in 1..(Len(wire') - 1) PROVE Follows(wire'[i + 1], wire'[i])
      BY DEF Chained
    <3>1. i + 1 \in 1..(Len(wire) - 1) /\ i \in 1..Len(wire') /\ i + 1 \in 1..Len(wire')
      BY <1>1
    <3>2. wire'[i] = wire[i + 1] /\ wire'[i + 1] = wire[(i + 1) + 1]
      BY <1>1, <3>1
    <3>. QED
      BY <3>1, <3>2 DEF OnTheWire, Chained
  <2>5. wire # <<>> /\ wire' # <<>>
    BY <1>1, <1>4, <1>6
  <2>. QED
    BY <1>1, <2>2, <2>3, <2>4, <2>5 DEF OnTheWire
<1>. QED
  BY <1>1, <1>5, <1>6

(* A line of an event is remembered; the next one is waited for. *)
LEMMA LineKeeps ==
    ASSUME WireOK, NEW cur \in Line, Parsed(cur), UNCHANGED <<hasCallback, heard>>,
           \/ cur.kind = "event" /\ event' = cur.n /\ data' = data
           \/ cur.kind = "data" /\ event' = event /\ data' = Append(data, cur.n)
    PROVE  \E next \in Line : Follows(next, cur) /\ Parsed(next)'
<1>1. cur.n \in Nat \ {0}
  BY DEF Line
<1>2. CASE cur.kind = "event"
  <2>. DEFINE next == [kind |-> "data", n |-> cur.n]
  <2>1. next \in Line /\ Follows(next, cur)
    BY <1>1, <1>2 DEF Line, Follows
  <2>2. Parsed(next)'
    BY <1>2 DEF Parsed
  <2>. QED
    BY <2>1, <2>2
<1>3. CASE cur.kind = "data"
  <2>. DEFINE next == [kind |-> "blank", n |-> cur.n]
  <2>1. next \in Line /\ Follows(next, cur)
    BY <1>1, <1>3 DEF Line, Follows
  <2>2. data = <<>> /\ Append(<<>>, cur.n) = <<cur.n>>
    BY <1>3 DEF Parsed
  <2>3. Parsed(next)'
    BY <1>3, <2>2 DEF Parsed
  <2>. QED
    BY <2>1, <2>3
<1>. QED
  BY <1>2, <1>3

(* What onEvent is called with, if it is called. *)
LEMMA Calls ==
    ASSUME WireOK, NEW cur \in Line, Parsed(cur), NEW then, Dispatch(then)
    PROVE  \/ heard' = heard /\ (cur.kind # "event" => ~hasCallback)
           \/ /\ cur.kind # "event" /\ hasCallback
              /\ heard' = Append(heard, [event |-> cur.n, data |-> data])
              /\ heard' \in Seq(Heard)
              /\ Len(heard) = cur.n - 1 /\ Len(heard') = cur.n
              /\ heard'[cur.n] = [event |-> cur.n, data |-> data]
              /\ \A i \in 1..Len(heard) : heard'[i] = heard[i]
<1>1. cur.n \in Nat \ {0} /\ heard \in Seq(Heard)
  BY DEF Line, WireOK
<1>2. cur.kind # "event" => event = cur.n /\ event # None
  BY <1>1 DEF Parsed, None
<1>3. cur.kind = "event" => event = None /\ data = <<>>
  BY DEF Parsed
<1>4. CASE heard' = heard /\ ((event = None /\ data = <<>>) \/ ~hasCallback)
  BY <1>2, <1>4
<1>5. CASE /\ event # None \/ data # <<>>
           /\ hasCallback
           /\ heard' = Append(heard, [event |-> event, data |-> data])
  <2>. DEFINE call1 == [event |-> cur.n, data |-> data]
  <2>1. data = <<>> \/ data = <<cur.n>>
    BY DEF Parsed
  <2>2. call1 \in Heard
    <3>1. <<>> \in Seq(Nat) /\ <<cur.n>> \in Seq(Nat)
      BY <1>1
    <3>. QED
      BY <1>1, <2>1, <3>1 DEF Heard
  <2>3. cur.kind # "event" /\ heard' = Append(heard, call1)
    BY <1>2, <1>3, <1>5
  <2>. HIDE DEF call1
  <2>4. Len(heard) = cur.n - 1
    BY <1>5 DEF Parsed
  <2>5. /\ heard' \in Seq(Heard) /\ Len(heard') = Len(heard) + 1
        /\ heard'[Len(heard) + 1] = call1
        /\ \A i \in 1..Len(heard) : heard'[i] = heard[i]
    BY <1>1, <2>2, <2>3, AppendProperties
  <2>6. Len(heard) + 1 = cur.n
    BY <1>1, <2>4
  <2>. QED
    BY <1>5, <2>3, <2>4, <2>5, <2>6 DEF call1
<1>. QED
  BY <1>4, <1>5 DEF Dispatch

LEMMA WholeIsHeard == Whole => HeardAsWritten
<1>. SUFFICES ASSUME Whole, NEW i \in 1..Len(heard)
              PROVE  heard[i].event = i /\ heard[i].data = <<i>>
  BY DEF HeardAsWritten
<1>1. heard[i] = [event |-> i, data |-> <<i>>]
  BY DEF Whole
<1>. QED
  BY <1>1

LEMMA WholeIsHeardNext == Whole' => HeardAsWritten'
  BY WholeIsHeard, PTL

(* The blank line gives the event to the callback and forgets it. *)
LEMMA BlankKeeps ==
    ASSUME WireOK, Whole, NEW cur \in Line, Parsed(cur), cur.kind = "blank",
           Dispatch("reading"), hasCallback' = hasCallback
    PROVE  /\ heard' \in Seq(Heard) /\ Whole'
           /\ result' = "reading" =>
                 \E next \in Line : Follows(next, cur) /\ Parsed(next)'
<1>. DEFINE next == [kind |-> "event", n |-> cur.n + 1]
<1>1. cur.n \in Nat \ {0} /\ heard \in Seq(Heard) /\ Len(heard) \in Nat
  BY DEF Line, WireOK
<1>2. next \in Line /\ Follows(next, cur)
  BY <1>1 DEF Line, Follows
<1>3. event = cur.n /\ event # None /\ data = <<cur.n>>
  BY <1>1 DEF Parsed, None
<1>4. result' = "reading" => event' = None /\ data' = <<>>
  BY <1>3 DEF Dispatch, Clear
<1>5. CASE heard' = heard /\ ~hasCallback
  <2>1. heard' \in Seq(Heard) /\ Whole'
    BY <1>1, <1>5 DEF Whole
  <2>2. heard = <<>>
    BY <1>5 DEF Parsed
  <2>3. result' = "reading" => Parsed(next)'
    BY <1>4, <1>5, <2>2 DEF Parsed
  <2>. QED
    BY <1>2, <2>1, <2>3
<1>6. CASE /\ hasCallback /\ heard' \in Seq(Heard)
           /\ Len(heard) = cur.n - 1 /\ Len(heard') = cur.n
           /\ heard'[cur.n] = [event |-> cur.n, data |-> data]
           /\ \A i \in 1..Len(heard) : heard'[i] = heard[i]
  <2>1. Whole'
    <3>. SUFFICES ASSUME NEW i \in 1..Len(heard')
                  PROVE  heard'[i] = [event |-> i, data |-> <<i>>]
      BY DEF Whole
    <3>1. CASE i = cur.n
      BY <1>3, <1>6, <3>1
    <3>2. CASE i # cur.n
      <4>1. i \in 1..Len(heard)
        BY <1>1, <1>6, <3>2
      <4>. QED
        BY <1>6, <4>1 DEF Whole
    <3>. QED
      BY <3>1, <3>2
  <2>2. Len(heard') = next.n - 1
    BY <1>1, <1>6
  <2>3. result' = "reading" => Parsed(next)'
    BY <1>4, <1>6, <2>2 DEF Parsed
  <2>. QED
    BY <1>2, <1>6, <2>1, <2>3
<1>7. cur.kind # "event"
  OBVIOUS
<1>. QED
  BY <1>5, <1>6, <1>7, Calls

(* At the end of the stream the event read so far is given, whole or not. *)
LEMMA LastKeeps ==
    ASSUME WireOK, Whole, NEW cur \in Line, Parsed(cur), ending = "eof", ending' = ending,
           Dispatch("nil")
    PROVE  heard' \in Seq(Heard) /\ HeardAsWritten' /\ result' # "reading"
<1>1. cur.n \in Nat \ {0} /\ heard \in Seq(Heard) /\ Len(heard) \in Nat
  BY DEF Line, WireOK
<1>2. result' # "reading"
  BY DEF Dispatch
<1>3. CASE heard' = heard
  <2>1. Whole' /\ heard' \in Seq(Heard)
    BY <1>1, <1>3 DEF Whole
  <2>. QED
    BY <1>2, <2>1, WholeIsHeardNext
<1>4. CASE /\ heard' \in Seq(Heard)
           /\ Len(heard) = cur.n - 1 /\ Len(heard') = cur.n
           /\ heard'[cur.n] = [event |-> cur.n, data |-> data]
           /\ \A i \in 1..Len(heard) : heard'[i] = heard[i]
  <2>1. data = <<>> \/ data = <<cur.n>>
    BY DEF Parsed
  <2>. SUFFICES ASSUME NEW i \in 1..Len(heard')
                PROVE  /\ heard'[i].event = i
                       /\ \/ heard'[i].data = <<i>>
                          \/ heard'[i].data = <<>> /\ i = Len(heard')
    BY <1>2, <1>4 DEF HeardAsWritten
  <2>2. CASE i = cur.n
    BY <1>4, <2>1, <2>2
  <2>3. CASE i # cur.n
    <3>1. i \in 1..Len(heard)
      BY <1>1, <1>4, <2>3
    <3>2. heard'[i] = [event |-> i, data |-> <<i>>]
      BY <1>4, <3>1 DEF Whole
    <3>. QED
      BY <3>2
  <2>. QED
    BY <2>2, <2>3
<1>. QED
  BY <1>2, <1>3, <1>4, Calls

-----------------------------------------------------------------------------
LEMMA WriteStep == HearInv /\ WriteEvent => HearInv'
<1>. SUFFICES ASSUME HearInv, WriteEvent PROVE HearInv'
  OBVIOUS
<1>1. UNCHANGED <<hasCallback, ending, event, data, heard, result>> /\ written' = written + 1
  BY DEF WriteEvent
<1>2. WireOK'
  BY <1>1, EventLines DEF HearInv, WireOK
<1>3. HeardAsWritten' /\ (Whole => Whole')
  BY <1>1 DEF HearInv, HeardAsWritten, Whole
<1>4. ASSUME NEW cur \in Line, OnTheWire(cur), Parsed(cur) PROVE OnTheWire(cur)' /\ Parsed(cur)'
  BY <1>1, <1>4, WriteKeeps DEF HearInv, Parsed
<1>. QED
  BY <1>1, <1>2, <1>3, <1>4 DEF HearInv

LEMMA EndStep ==
    ASSUME HearInv, NEW how \in {"eof", "broken"}, NEW lost \in 0..Len(wire), End(how, lost)
    PROVE  HearInv'
<1>1. UNCHANGED <<hasCallback, event, data, heard, result>> /\ ending = "open"
  BY DEF End
<1>2. WireOK' /\ \A cur \in Line : OnTheWire(cur) => OnTheWire(cur)'
  BY EndKeeps DEF HearInv
<1>3. HeardAsWritten' /\ (Whole => Whole')
  BY <1>1 DEF HearInv, HeardAsWritten, Whole
<1>4. \A cur \in Line : Parsed(cur) => Parsed(cur)'
  BY <1>1 DEF Parsed
<1>. QED
  BY <1>1, <1>2, <1>3, <1>4 DEF HearInv

LEMMA LineStep == HearInv /\ TakeLine => HearInv'
<1>. SUFFICES ASSUME HearInv, TakeLine PROVE HearInv'
  OBVIOUS
<1>1. /\ result = "reading" /\ wire # <<>> /\ wire' = Tail(wire)
      /\ UNCHANGED <<hasCallback, written, ending>> /\ WireOK /\ Whole
  BY DEF TakeLine, HearInv
<1>2. PICK cur \in Line : OnTheWire(cur) /\ Parsed(cur)
  BY <1>1 DEF HearInv
<1>3. Head(wire) = cur
  BY <1>1, <1>2 DEF OnTheWire, WireOK
<1>4. cur.kind \in {"event", "data", "blank"}
  BY DEF Line
<1>5. ASSUME NEW next \in Line, Follows(next, cur) PROVE wire' \in Seq(Line) /\ OnTheWire(next)'
  BY <1>1, <1>2, <1>5, TakeKeeps
<1>6. \E next \in Line : Follows(next, cur)
  <2>1. cur.n \in Nat \ {0}
    BY DEF Line
  <2>2. /\ [kind |-> "data", n |-> cur.n] \in Line
        /\ [kind |-> "blank", n |-> cur.n] \in Line
        /\ [kind |-> "event", n |-> cur.n + 1] \in Line
    BY <2>1 DEF Line
  <2>. QED
    BY <1>4, <2>2 DEF Follows
<1>7. wire' \in Seq(Line)
  BY <1>5, <1>6
<1>8. CASE cur.kind \in {"event", "data"}
  <2>1. UNCHANGED <<heard, result>>
    BY <1>3, <1>8 DEF TakeLine
  <2>2. \/ cur.kind = "event" /\ event' = cur.n /\ data' = data
        \/ cur.kind = "data" /\ event' = event /\ data' = Append(data, cur.n)
    BY <1>3, <1>8 DEF TakeLine
  <2>3. \E next \in Line : OnTheWire(next)' /\ Parsed(next)'
    BY <1>1, <1>2, <1>5, <2>1, <2>2, LineKeeps
  <2>4. WireOK' /\ Whole'
    BY <1>1, <1>7, <2>1 DEF WireOK, Whole
  <2>5. HeardAsWritten'
    BY <2>4, WholeIsHeardNext
  <2>. QED
    BY <2>3, <2>4, <2>5 DEF HearInv
<1>9. CASE cur.kind = "blank"
  <2>1. Dispatch("reading")
    BY <1>3, <1>9 DEF TakeLine
  <2>2. /\ heard' \in Seq(Heard) /\ Whole'
        /\ result' = "reading" => \E next \in Line : Follows(next, cur) /\ Parsed(next)'
    BY <1>1, <1>2, <1>9, <2>1, BlankKeeps
  <2>3. result' = "reading" => \E next \in Line : OnTheWire(next)' /\ Parsed(next)'
    BY <1>5, <2>2
  <2>4. WireOK' /\ HeardAsWritten'
    BY <1>1, <1>7, <2>2, WholeIsHeardNext DEF WireOK
  <2>. QED
    BY <2>2, <2>3, <2>4 DEF HearInv
<1>. QED
  BY <1>4, <1>8, <1>9

LEMMA LastStep == HearInv /\ TakeEnd => HearInv'
<1>. SUFFICES ASSUME HearInv, TakeEnd PROVE HearInv'
  OBVIOUS
<1>1. UNCHANGED <<written, wire, ending>> /\ WireOK /\ Whole
  BY DEF TakeEnd, HearInv
<1>2. PICK cur \in Line : OnTheWire(cur) /\ Parsed(cur)
  BY DEF TakeEnd, HearInv
<1>3. CASE ending = "eof" /\ Dispatch("nil")
  BY <1>1, <1>2, <1>3, LastKeeps DEF HearInv, WireOK
<1>4. CASE result' = "read error" /\ UNCHANGED <<event, data, heard>>
  BY <1>1, <1>4 DEF HearInv, WireOK, Whole, HeardAsWritten
<1>. QED
  BY <1>3, <1>4 DEF TakeEnd

(* A method that returns, or anything else that leaves the stream alone. *)
LEMMA OtherStep ==
    ASSUME HearInv, UNCHANGED <<hasCallback, written, wire, ending, event, data, heard>>,
           result' = result \/ (result = "reading" /\ result' # "reading")
    PROVE  HearInv'
<1>1. WireOK' /\ HeardAsWritten' /\ (Whole => Whole')
  BY DEF HearInv, WireOK, Whole, HeardAsWritten
<1>2. \A cur \in Line : OnTheWire(cur) /\ Parsed(cur) => OnTheWire(cur)' /\ Parsed(cur)'
  BY DEF OnTheWire, Parsed, Chained
<1>. QED
  BY <1>1, <1>2 DEF HearInv

LEMMA HearStep == AnswerInv /\ HearInv /\ [CallsNext]_allVars => HearInv'
<1>. SUFFICES ASSUME AnswerInv, HearInv, [CallsNext]_allVars PROVE HearInv'
  OBVIOUS
<1>1. CASE UNCHANGED vars
  BY <1>1, OtherStep DEF vars
<1>2. CASE StreamEvent
  BY <1>2, WriteStep DEF StreamEvent
<1>3. CASE ConnectionEnds
  BY <1>3, EndStep DEF ConnectionEnds
<1>4. CASE ReadBody
  <2>1. Said # "reading"
    BY <1>4 DEF ReadBody, Said, Streams, AnswerInv, ReplyInv, HandlerInv
  <2>. QED
    BY <1>4, <2>1, OtherStep DEF ReadBody, ReturnsNow
<1>5. CASE Fail
  BY <1>5, OtherStep DEF Fail, ReturnsNow
<1>6. CASE Timeout
  BY <1>6, OtherStep DEF Timeout, Fail, ReturnsNow
<1>7. CASE ReadStream
  BY <1>7, LineStep, LastStep DEF ReadStream
<1>. QED
  BY <1>1, <1>2, <1>3, <1>4, <1>5, <1>6, <1>7
     DEF CallsNext, allVars, Authenticate, Decode, Refuse, AgentReturns, ReadHead

(* For streams of any length, cut anywhere: the callback hears the events  *)
(* of the server in their order, each once and whole, the last one of a    *)
(* stream that ended perhaps without its data.                             *)
THEOREM StreamsAreHeardAsWritten == CallsSpec => []HeardAsWritten
<1>1. CallsInit => AnswerInv /\ HearInv
  BY AnswerInit, HearInit
<1>2. AnswerInv /\ HearInv /\ [CallsNext]_allVars => AnswerInv' /\ HearInv'
  BY AnswerStep, HearStep
<1>3. HearInv => HeardAsWritten
  BY DEF HearInv
<1>. QED
  BY <1>1, <1>2, <1>3, PTL DEF CallsSpec

-----------------------------------------------------------------------------
(* What SendStream has left to read: the lines that wait for it, and the   *)
(* end of the stream after them.                                           *)
LinesLeft == IF result = "reading" THEN Len(wire) + 1 ELSE 0

(* Once the connection of a stream has ended it stays so, no line comes    *)
(* any more, and each read of the client uses one up.                      *)
StreamReadOut ==
    Streams /\ ending # "open" =>
        /\ Streams' /\ ending' = ending
        /\ LinesLeft' <= LinesLeft
        /\ ReadStream => LinesLeft' < LinesLeft

LEMMA LinesLeftTyped ==
    WireOK => LinesLeft \in Nat /\ (LinesLeft = 0 <=> result # "reading")
<1>. SUFFICES ASSUME WireOK
              PROVE  LinesLeft \in Nat /\ (LinesLeft = 0 <=> result # "reading")
  OBVIOUS
<1>1. Len(wire) \in Nat
  BY DEF WireOK
<1>. QED
  BY <1>1 DEF LinesLeft

(* A line that is read is off the wire, the end of the stream is the end   *)
(* of the call.                                                            *)
LEMMA ReadShortens ==
    ASSUME WireOK, ReadStream
    PROVE  LinesLeft' \in Nat /\ LinesLeft' < LinesLeft
<1>1. Len(wire) \in Nat
  BY DEF WireOK
<1>2. CASE TakeLine
  <2>1. result = "reading" /\ wire # <<>> /\ wire' = Tail(wire)
    BY <1>2 DEF TakeLine
  <2>2. Len(Tail(wire)) = Len(wire) - 1 /\ Len(wire) # 0
    BY <2>1 DEF WireOK
  <2>. QED
    BY <1>1, <2>1, <2>2 DEF LinesLeft
<1>3. CASE TakeEnd
  <2>1. result = "reading"
    BY <1>3 DEF TakeEnd
  <2>2. result' # "reading"
    BY <1>3 DEF TakeEnd, Dispatch
  <2>. QED
    BY <1>1, <2>1, <2>2 DEF LinesLeft
<1>. QED
  BY <1>2, <1>3 DEF ReadStream

LEMMA StreamStep ==
    ASSUME AnswerInv, HearInv, CallsNext \/ UNCHANGED allVars
    PROVE  StreamReadOut
<1>. SUFFICES ASSUME Streams, ending # "open"
              PROVE  /\ Streams' /\ ending' = ending
                     /\ LinesLeft' <= LinesLeft
                     /\ ReadStream => LinesLeft' < LinesLeft
  BY DEF StreamReadOut
<1>w. WireOK /\ Len(wire) \in Nat
  BY DEF HearInv, WireOK
<1>r. ReadStream => LinesLeft' < LinesLeft
  BY <1>w, ReadShortens
<1>n. LinesLeft \in Nat
  BY <1>w, LinesLeftTyped
<1>s. reply = "stream" /\ server \in {"agent", "returned"}
  BY DEF Streams, AnswerInv, HandlerInv, NoReply
<1>1. ASSUME UNCHANGED <<wire, result>> PROVE LinesLeft' <= LinesLeft
  BY <1>1, <1>n DEF LinesLeft
<1>2. ASSUME result' # "reading" PROVE LinesLeft' <= LinesLeft
  BY <1>2, <1>n DEF LinesLeft
<1>3. ~Authenticate /\ ~Decode /\ ~StreamEvent /\ ~ConnectionEnds /\ ~ReadBody
  BY <1>s DEF Authenticate, Decode, StreamEvent, WriteEvent, ConnectionEnds, End, ReadBody, Streams
<1>4. ASSUME NEW outcome \in {"nil"} \cup Kinds, AgentReturns(outcome)
      PROVE  reply' = reply /\ ending' = ending /\ LinesLeft' <= LinesLeft
  BY <1>4, <1>s, <1>1 DEF AgentReturns, vars
<1>5. CASE ReadHead \/ UNCHANGED allVars
  <2>1. reply' = reply /\ ending' = ending /\ UNCHANGED <<wire, result>>
    BY <1>5 DEF ReadHead, vars, allVars, callVars
  <2>. QED
    BY <1>1, <1>r, <2>1 DEF Streams
<1>6. CASE Fail \/ Timeout
  <2>1. reply' = reply /\ ending' = ending /\ result' # "reading"
    BY <1>6 DEF Fail, Timeout, ReturnsNow, callVars
  <2>. QED
    BY <1>2, <1>r, <2>1 DEF Streams
<1>7. CASE ReadStream
  <2>1. reply' = reply /\ ending' = ending
    BY <1>7 DEF ReadStream, TakeLine, TakeEnd, callVars
  <2>2. LinesLeft' \in Nat /\ LinesLeft' < LinesLeft
    BY <1>7, <1>w, ReadShortens
  <2>. QED
    BY <1>n, <1>r, <2>1, <2>2 DEF Streams
<1>. QED
  BY <1>3, <1>4, <1>5, <1>6, <1>7, <1>r DEF CallsNext, Streams

(* A stream whose connection has ended is read to its end: for streams of  *)
(* any length, and whatever the agent and the handler go on to do,         *)
(* SendStream returns after as many reads as lines had arrived, and        *)
(* one.  That it reads on is the fairness of the runs.                     *)
THEOREM EndedStreamsAreReadOut ==
    CallsSpec => /\ [](LinesLeft \in Nat /\ (LinesLeft = 0 <=> result # "reading"))
                 /\ [][StreamReadOut]_allVars
<1>1. CallsInit => AnswerInv /\ HearInv
  BY AnswerInit, HearInit
<1>2. AnswerInv /\ HearInv /\ [CallsNext]_allVars => AnswerInv' /\ HearInv'
  BY AnswerStep, HearStep
<1>3. HearInv => LinesLeft \in Nat /\ (LinesLeft = 0 <=> result # "reading")
  BY LinesLeftTyped DEF HearInv
<1>4. AnswerInv /\ HearInv /\ [CallsNext]_allVars => [StreamReadOut]_allVars
  BY StreamStep
<1>. QED
  BY <1>1, <1>2, <1>3, <1>4, PTL DEF CallsSpec
=============================================================================
