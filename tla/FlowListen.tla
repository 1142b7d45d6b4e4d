----------------------------- MODULE FlowListen -----------------------------
(***************************************************************************)
(* The Flow actions ta2a.listen and tmcp.listen on top of the listeners:   *)
(* a call resolves the pipelines to serve, mounts them, runs the transport *)
(* and turns what it returned into the result of the action.  Several      *)
(* calls of ta2a.listen race for one transport; of tmcp.listen a behaviour *)
(* has one call, over HTTP or, without an address, over stdio.             *)
(***************************************************************************)
EXTENDS Listeners

CONSTANTS
    Actions,    \* the pipelines the resolver knows
    Unknown,    \* an endpoint name it does not know
    Roles,      \* roles of A2A, tools of MCP
    NoRole,     \* an action without a binding of the transport
    RoleOf,     \* the binding of each action
    NoAction

ASSUME FlowAssumption ==
    /\ Unknown \notin Actions /\ NoAction \notin Actions /\ NoRole \notin Roles
    /\ RoleOf \in [Actions -> Roles \cup {NoRole}]

VARIABLES
    overStdio,  \* tmcp.listen has no address
    stdin,      \* where its Serve is: before a read, in one, or past the last
    cause,      \* what ends a context that ends: a cancellation or a deadline
    call,       \* where each call of the listen action is
    toMount,    \* the actions it resolved
    mounted,    \* the action each role of the transport answers with
    outcome     \* what the call returned

flow == <<overStdio, stdin, cause, call, toMount, mounted, outcome>>

FlowTypeOK ==
    /\ overStdio \in BOOLEAN /\ cause \in {"canceled", "deadline"}
    /\ stdin \in {"off", "checking", "reading", "ended", "failed"}
    /\ call \in [Callers -> {"idle", "resolved", "mounted", "serving", "returned"}]
    /\ toMount \in [Callers -> SUBSET Actions]
    /\ mounted \in [Roles -> Actions \cup {NoAction}]
    /\ outcome \in [Callers -> {"none", "ok", "error"}]

FlowInit ==
    /\ Init
    /\ overStdio \in (IF protocol = "mcp" THEN BOOLEAN ELSE {FALSE})
    /\ stdin = "off"
    /\ cause \in {"canceled", "deadline"}
    /\ call = [c \in Callers |-> "idle"]
    /\ toMount = [c \in Callers |-> {}]
    /\ mounted = [r \in Roles |-> NoAction]
    /\ outcome = [c \in Callers |-> "none"]

Goes(c, where) == call' = [call EXCEPT ![c] = where]

-----------------------------------------------------------------------------
(* resolveActions: the named endpoints, bound or not, or every action with *)
(* a binding of the transport, for a resolver that can list.               *)

Resolved(endpoints) ==
    IF endpoints # {} THEN endpoints ELSE {a \in Actions : RoleOf[a] # NoRole}

(* The resolver comes with the context of the call, the endpoints with its *)
(* input.                                                                  *)
Resolves(resolver, endpoints) ==
    /\ resolver # "none"
    /\ endpoints = {} => resolver = "lists"
    /\ endpoints \subseteq Actions
    /\ Resolved(endpoints) # {}

Resolve(c) ==
    \E resolver \in {"none", "finds", "lists"}, endpoints \in SUBSET (Actions \cup {Unknown}) :
        /\ call[c] = "idle"
        /\ protocol = "mcp" => \A d \in Callers : call[d] = "idle"
        /\ IF Resolves(resolver, endpoints)
           THEN /\ Goes(c, "resolved")
                /\ toMount' = [toMount EXCEPT ![c] = Resolved(endpoints)]
                /\ UNCHANGED outcome
           ELSE /\ Goes(c, "returned")
                /\ outcome' = [outcome EXCEPT ![c] = "error"]
                /\ UNCHANGED toMount
        /\ UNCHANGED <<vars, overStdio, stdin, cause, mounted>>

(* Mount: a later action of a role replaces an earlier one, also while the *)
(* transport serves another call.  Of two in one list the last one wins.   *)
MountAll(c) ==
    /\ call[c] = "resolved"
    /\ Goes(c, "mounted")
    /\ mounted' \in [Roles -> Actions \cup {NoAction}]
    /\ \A r \in Roles :
        LET offered == {a \in toMount[c] : RoleOf[a] = r}
        IN  IF offered = {} THEN mounted'[r] = mounted[r] ELSE mounted'[r] \in offered
    /\ UNCHANGED <<vars, overStdio, stdin, cause, toMount, outcome>>

(* The call goes into Do or ListenAndServe, or serves its own stdin.       *)
Runs(c) ==
    \/ /\ ~overStdio
       /\ AlreadyStarted(c) \/ DoCanceled(c) \/ DoWithoutToken(c) \/ EnterDo(c)
             \/ ListenRefused(TRUE) \/ EnterListen
       /\ UNCHANGED stdin
    \/ overStdio /\ stdin' = "checking" /\ UNCHANGED vars

(* A mutant of Enter: the transport is run before the mount. *)
BadEnter(c) ==
    /\ call[c] \in {"resolved", "mounted"}
    /\ Goes(c, "serving")
    /\ Runs(c)
    /\ UNCHANGED <<overStdio, cause, toMount, mounted, outcome>>

Enter(c) ==
    /\ call[c] = "mounted"
    /\ Goes(c, "serving")
    /\ Runs(c)
    /\ UNCHANGED <<overStdio, cause, toMount, mounted, outcome>>

-----------------------------------------------------------------------------
(* Transport.Serve of tmcp on stdin, as far as its end depends on it:      *)
(* McpStdio says what it does with the lines.                              *)

(* A mutant of StartRead: the context is not looked at between two lines.  *)
BadStartRead(c) ==
    /\ call[c] = "serving"
    /\ stdin = "checking"
    /\ stdin' = "reading"
    /\ UNCHANGED <<vars, overStdio, cause, call, toMount, mounted, outcome>>

(* The context is looked at, then the next line is read; nothing           *)
(* interrupts the read but a line or the end of the input.                 *)
StartRead(c) ==
    /\ call[c] = "serving"
    /\ stdin = "checking" /\ ~ctxDone
    /\ stdin' = "reading"
    /\ UNCHANGED <<vars, overStdio, cause, call, toMount, mounted, outcome>>

(* The client writes a line, which is handled, or the input ends or fails. *)
InputComes ==
    /\ stdin = "reading"
    /\ stdin' \in {"checking", "ended", "failed"}
    /\ UNCHANGED <<vars, overStdio, cause, call, toMount, mounted, outcome>>

-----------------------------------------------------------------------------
(* What the transport returned, and what the action makes of it.           *)

Leaves(c, quiet) ==
    /\ call[c] = "serving"
    /\ Goes(c, "returned")
    /\ outcome' = [outcome EXCEPT ![c] = IF quiet THEN "ok" ELSE "error"]
    /\ UNCHANGED <<vars, overStdio, stdin, cause, toMount, mounted>>

(* errors.Is(err, context.Canceled).  A failed Listen under a canceled     *)
(* context reports the cancellation, or the failure it met first.          *)
IsCanceled(err, quiet) ==
    \/ err = "canceled" /\ (quiet <=> cause = "canceled")
    \/ err = "listen failed" /\ (quiet => ctxDone /\ cause = "canceled")
    \/ err \notin {"canceled", "listen failed"} /\ ~quiet

(* A mutant of LeaveA2A: it asks the context, not the error. *)
BadLeaveA2A(c) ==
    /\ protocol = "a2a"
    /\ IF c = winner THEN stage = "returned" /\ Leaves(c, ctxDone)
                     ELSE answer[c] # "none" /\ Leaves(c, answer[c] = "canceled")

LeaveA2A(c) ==
    \E quiet \in BOOLEAN :
        /\ protocol = "a2a"
        /\ IF c = winner THEN stage = "returned" /\ IsCanceled(result, quiet)
                         ELSE answer[c] # "none" /\ IsCanceled(answer[c], quiet)
        /\ Leaves(c, quiet)

(* Over HTTP any error is dropped once the context is done. *)
LeaveHTTP(c) ==
    /\ protocol = "mcp" /\ ~overStdio
    /\ stage = "returned"
    /\ Leaves(c, result = "nil" \/ ctxDone)

(* ServeStdio returns past the last read, at the end of the input or with  *)
(* its failure, or before a read with the error of the context.            *)
LeaveStdio(c) ==
    /\ overStdio
    /\ \/ stdin = "ended" /\ Leaves(c, TRUE)
       \/ stdin = "failed" /\ Leaves(c, FALSE)
       \/ stdin = "checking" /\ ctxDone /\ Leaves(c, cause = "canceled")

Leave(c) == LeaveA2A(c) \/ LeaveHTTP(c) \/ LeaveStdio(c)

FlowNext ==
    \/ \E c \in Callers : Resolve(c) \/ MountAll(c) \/ Enter(c) \/ StartRead(c) \/ Leave(c)
    \/ InputComes
    \/ (SetToken \/ (ListenerStep /\ UNCHANGED own)) /\ UNCHANGED flow
    \/ /\ protocol = "a2a" => winner # NoCaller
       /\ Environment /\ UNCHANGED own
       /\ UNCHANGED flow

FlowSpec == FlowInit /\ [][FlowNext]_<<vars, flow>>

(* The goroutines of the listener and of each call run; nothing makes a    *)
(* client write to stdin or close it.                                      *)
FairFlowSpec ==
    /\ FlowSpec
    /\ WF_<<vars, flow>>(ListenerStep /\ UNCHANGED <<own, flow>>)
    /\ \A c \in Callers : WF_<<vars, flow>>(MountAll(c) \/ Enter(c) \/ StartRead(c) \/ Leave(c))

-----------------------------------------------------------------------------
(* The call a client can reach: it won Do, or it is tmcp's only one. *)
Serves(c) == IF protocol = "a2a" THEN c = winner ELSE call[c] \in {"serving", "returned"}

(* Once a listener has signalled readiness, every role its call resolved   *)
(* is answered, and by an action of that role, although other calls mount  *)
(* theirs before they are refused, at any moment of its life.              *)
ReadyIsMounted ==
    \A c \in Callers : ready /\ Serves(c) =>
        \A a \in toMount[c] : RoleOf[a] # NoRole =>
            /\ mounted[RoleOf[a]] # NoAction
            /\ RoleOf[mounted[RoleOf[a]]] = RoleOf[a]

(* A listen action ends without an error only when its context was         *)
(* canceled: of ta2a not when the server crashed or its shutdown failed    *)
(* meanwhile, nor on a deadline; of tmcp over HTTP whatever happened once  *)
(* it was, over stdio not on a deadline or after a failed read, but also   *)
(* at the end of the input.                                                *)
QuietOnlyWhenCanceled ==
    \A c \in Callers : outcome[c] = "ok" =>
        IF protocol = "mcp"
        THEN IF overStdio THEN stdin = "ended" \/ (ctxDone /\ cause = "canceled") ELSE ctxDone
        ELSE /\ cause = "canceled"
             /\ IF c = winner THEN ctxDone /\ firstErr = "none" ELSE answer[c] = "canceled"

(* A call still serves for a reason: over stdio it sits in a read, also    *)
(* when its context is done; else its group has no reason to end.          *)
Waits(c) ==
    /\ call[c] = "serving"
    /\ IF overStdio THEN stdin = "reading" ELSE Serves(c) /\ ~GroupDone

(* It has no reason any more. *)
IsOver(c) ==
    /\ call[c] = "serving"
    /\ IF overStdio THEN stdin \in {"ended", "failed"} \/ (stdin = "checking" /\ ctxDone)
       ELSE GroupDone

(* Every call that has resolved its pipelines gets an answer: the refused  *)
(* ones at once, the serving one when its context ends or its server       *)
(* fails; over stdio when its input ends or fails, or at the first line    *)
(* after the context ended, and not before: a read is not interrupted.     *)
ListenCallReturns ==
    \A c \in Callers :
        /\ call[c] = "resolved" ~> call[c] = "returned" \/ Waits(c)
        /\ IsOver(c) ~> call[c] = "returned"
=============================================================================
