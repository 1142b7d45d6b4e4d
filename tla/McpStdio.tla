------------------------------ MODULE McpStdio ------------------------------
(***************************************************************************)
(* Transport.Serve of tmcp: newline-delimited JSON-RPC over a pipe, one    *)
(* line after the other, until the input ends, fails, or the context is    *)
(* canceled between two lines.  An answer that cannot be encoded or        *)
(* written is lost, and Serve goes on.  Requests are served from the       *)
(* tables of McpRegistry while the host still fills them.                  *)
(***************************************************************************)
EXTENDS McpRegistry

CONSTANTS
    Requests,  \* the requests a client makes: [method, key]
    MaxLines,  \* bound: the lines a client writes
    MaxUnread  \* bound: the lines the pipe holds

ASSUME MaxLinesAssumption == MaxLines \in Nat /\ MaxUnread \in Nat \ {0}
ASSUME RequestsAssumption == \A r \in Requests : r.method \in Methods

(* What a line is: empty after trimming, no JSON, a request without an id, *)
(* a request with an id that dispatch refuses, or one that it does not.    *)
NoRequest == [method |-> "ping", key |-> NoName]
Lines == [form : {"blank", "garbage", "note", "invalid"}, request : {NoRequest}]
            \cup [form : {"call"}, request : Requests]

VARIABLES
    unread,    \* how many lines the client has written that Serve has not taken
    partial,   \* the input ended inside the last of them
    ended,     \* "open", or how the input ended: "eof" or "error"
    lines,     \* the lines Serve has taken
    loop,      \* where Serve is
    out,       \* the answers it wrote: [line, class, keys]
    lost,      \* the lines whose answers it could not write: [line, why]
    stdout,    \* "open", or "broken" when writes fail
    ctxDone,   \* the context is canceled
    late       \* the lines taken since then

stdio == <<unread, partial, ended, lines, loop, out, lost, stdout, ctxDone, late>>
vars == <<stdio, registry>>

Init ==
    /\ RegistryInit
    /\ unread = 0
    /\ partial = FALSE /\ ended = "open"
    /\ lines = <<>>
    /\ loop = "starting"
    /\ out = <<>> /\ lost = {}
    /\ stdout = "open"
    /\ ctxDone = FALSE /\ late = 0

(* The client and the pipe.  What a line says is chosen when it is read.   *)
Write ==
    /\ ended = "open" /\ unread < MaxUnread /\ Len(lines) + unread < MaxLines
    /\ unread' = unread + 1
    /\ UNCHANGED <<partial, ended, lines, loop, out, lost, stdout, ctxDone, late, registry>>

(* The input ends after a line, or inside the last one, still unread. *)
EndInput(how, inside) ==
    /\ ended = "open"
    /\ inside => unread > 0
    /\ ended' = how /\ partial' = inside
    /\ UNCHANGED <<unread, lines, loop, out, lost, stdout, ctxDone, late, registry>>

(* Nobody reads the output any more, or its disk is full: the first write  *)
(* that fails makes every later one of the encoder fail.                   *)
BreakStdout ==
    /\ stdout = "open"
    /\ stdout' = "broken"
    /\ UNCHANGED <<unread, partial, ended, lines, loop, out, lost, ctxDone, late, registry>>

CancelContext ==
    /\ ~ctxDone
    /\ ctxDone' = TRUE
    /\ UNCHANGED <<unread, partial, ended, lines, loop, out, lost, stdout, late, registry>>

(* A mutant of Check: the context is looked at only once. *)
BadCheck ==
    /\ loop \in {"starting", "checking"}
    /\ loop' = IF loop = "checking" THEN "reading" ELSE IF ctxDone THEN "canceled" ELSE "checking"
    /\ UNCHANGED <<unread, partial, ended, lines, out, lost, stdout, ctxDone, late, registry>>

(* Serve starts, unless its context is already done; then, before each     *)
(* read, looks at the context.                                             *)
Check ==
    /\ loop \in {"starting", "checking"}
    /\ loop' = IF ctxDone THEN "canceled" ELSE IF loop = "starting" THEN "checking" ELSE "reading"
    /\ UNCHANGED <<unread, partial, ended, lines, out, lost, stdout, ctxDone, late, registry>>

(* ReadBytes returns a line; it blocks while there is none. *)
Read(l) ==
    /\ loop = "reading"
    /\ unread > 0
    /\ unread' = unread - 1
    /\ lines' = Append(lines, l)
    /\ late' = IF ctxDone THEN late + 1 ELSE late
    /\ loop' = "handling"
    /\ UNCHANGED <<partial, ended, out, lost, stdout, ctxDone, registry>>

(* The input ended with nothing more to read. *)
ReadEnd ==
    /\ loop = "reading"
    /\ unread = 0 /\ ended # "open"
    /\ loop' = IF ended = "eof" THEN "done" ELSE "failed"
    /\ UNCHANGED <<unread, partial, ended, lines, out, lost, stdout, ctxDone, late, registry>>

(* A mutant of LastRead: once the input has ended every line is the last. *)
BadLastRead == ended # "open"

(* The read that took the unterminated last line also returned the end. *)
LastRead == unread = 0 /\ partial

ErrorAnswer(class) == [class |-> class, keys |-> {}]

(* A mutant of Answer: notifications are answered too. *)
BadAnswer(l) ==
    CASE l.form = "garbage" -> <<ErrorAnswer("parse error")>>
      [] l.form \in {"call", "note"} -> <<Result(l.request.method, l.request.key)>>
      [] l.form = "invalid" -> <<ErrorAnswer("error")>>
      [] OTHER -> <<>>

(* The line is decoded and dispatched; only a request with an id is        *)
(* answered, or a line that is no request.                                 *)
Answer(l) ==
    CASE l.form = "garbage" -> <<ErrorAnswer("parse error")>>
      [] l.form = "call" -> <<Result(l.request.method, l.request.key)>>
      [] l.form = "invalid" -> <<ErrorAnswer("error")>>
      [] OTHER -> <<>>

(* writeSafe ignores what Encode returns: an answer that is not written is *)
(* lost.                                                                   *)
Goes(answer) == stdout = "open" /\ answer.class # "unencodable"

Why(answer) == IF answer.class = "unencodable" THEN "unencodable" ELSE "stdout"

(* All of this before the next read. *)
Handle ==
    /\ loop = "handling"
    /\ \/ /\ Answer(Last(lines)) = <<>>
          /\ UNCHANGED <<out, lost>>
       \/ \E answer \in Range(Answer(Last(lines))) :
             IF Goes(answer)
             THEN /\ out' = Append(out, [line |-> Len(lines), class |-> answer.class,
                                         keys |-> answer.keys])
                  /\ UNCHANGED lost
             ELSE /\ lost' = lost \cup {[line |-> Len(lines), why |-> Why(answer)]}
                  /\ UNCHANGED out
    /\ loop' = IF ~LastRead THEN "checking" ELSE IF ended = "eof" THEN "done" ELSE "failed"
    /\ UNCHANGED <<unread, partial, ended, lines, stdout, ctxDone, late, registry>>

Serve == Check \/ (\E l \in Lines : Read(l)) \/ ReadEnd \/ Handle

Next ==
    \/ Serve
    \/ Write
    \/ \E how \in {"eof", "error"}, inside \in BOOLEAN : EndInput(how, inside)
    \/ CancelContext
    \/ BreakStdout
    \/ HostStep /\ UNCHANGED stdio

Spec == Init /\ [][Next]_vars
FairSpec == Spec /\ WF_vars(Serve)

-----------------------------------------------------------------------------
Handled == IF loop = "handling" THEN Len(lines) - 1 ELSE Len(lines)

(* A client can pair answers with its requests: they come in the order of  *)
(* the lines, one for every line that is not JSON or has an id, also an    *)
(* unterminated one, none for a notification or a blank line.  Only two    *)
(* things lose an answer: a list of tools that cannot be encoded, which    *)
(* costs that one answer, and a broken output, which costs all that follow.*)
OneAnswerEach ==
    /\ \A i, j \in DOMAIN out : i < j => out[i].line < out[j].line
    /\ {out[i].line : i \in DOMAIN out} \cup {e.line : e \in lost} =
          {n \in 1..Handled : lines[n].form \notin {"blank", "note"}}
    /\ \A i \in DOMAIN out :
          CASE lines[out[i].line].form = "garbage" -> out[i].class = "parse error"
            [] lines[out[i].line].form = "invalid" -> out[i].class = "error"
            [] OTHER -> out[i].class \in {"result", "error"}
    /\ \A e \in lost : \A i \in DOMAIN out : out[i].line # e.line
    /\ \A e \in lost :
          IF e.why = "unencodable"
          THEN lines[e.line].request.method = "tools/list"
          ELSE stdout = "broken" /\ \A i \in DOMAIN out : out[i].line < e.line

(* Cancellation takes effect between lines: at most the line whose read    *)
(* was already under way is still handled.                                 *)
OneLineAfterCancel == late <= 1

(* An input that ends is served to its end: Serve returns, and without a   *)
(* cancellation it has handled every line first.                           *)
EndedInputIsServed ==
    ended # "open" ~>
        loop = "canceled" \/ (loop \in {"done", "failed"} /\ unread = 0 /\ Handled = Len(lines))
=============================================================================
