------------------------- MODULE ListenerLifecycle -------------------------
(***************************************************************************)
(* The life of an HTTP listener, as ta2a's Transport.Do and tmcp's         *)
(* ListenAndServe both write it: bind, signal readiness, then a group of   *)
(* goroutines (the server, a watcher that shuts it down, for ta2a the      *)
(* cleanup loop) of which the first error stops the others.  Listeners     *)
(* adds how each is entered.  net/http, net and errgroup are external:     *)
(* Serve returns an error when it crashes and ErrServerClosed once         *)
(* Shutdown has begun, and closes its listener either way.                 *)
(***************************************************************************)
EXTENDS Naturals

CONSTANT MaxRequests  \* bound: how many requests are handled at once

ASSUME RequestsAssumption == MaxRequests \in Nat

VARIABLES
    protocol,  \* whose listener it is; it never changes
    ctxDone,   \* the context of the call is canceled
    stage,     \* where the call is
    socket,    \* the listening socket
    ready,     \* readiness was signalled
    cleanup,   \* the cleanup goroutine
    serve,     \* the goroutine in server.Serve
    watch,     \* the goroutine that waits for the end
    active,    \* how many requests are being handled
    firstErr,  \* the group's error: it cancels groupCtx
    result     \* what the call returned

listener == <<protocol, ctxDone, stage, socket, ready, cleanup, serve, watch, active, firstErr, result>>

(* What the two do differently: ta2a runs the cleanup loop (its taskTTL is *)
(* positive), and returns a failed Shutdown although Close worked.         *)
HasCleanup == protocol = "a2a"
FailedDrainIsError == protocol = "a2a"

Stages == {"entering", "binding", "bound", "serving", "returned"}
Sockets == {"none", "open", "closed"}
Goroutine == {"off", "running", "ended"}
Watcher == {"off", "waiting", "draining", "ended", "left"}
GroupErrors == {"none", "crashed", "shutdown failed"}
Results == GroupErrors \cup {"nil", "refused", "listen failed", "canceled"}

TypeOK ==
    /\ protocol \in {"a2a", "mcp"}
    /\ ctxDone \in BOOLEAN /\ ready \in BOOLEAN /\ active \in 0..MaxRequests
    /\ stage \in Stages /\ socket \in Sockets
    /\ cleanup \in Goroutine /\ serve \in Goroutine /\ watch \in Watcher
    /\ firstErr \in GroupErrors /\ result \in Results

InitListener ==
    /\ protocol \in {"a2a", "mcp"}
    /\ ctxDone = FALSE
    /\ stage = "entering"
    /\ socket = "none"
    /\ ready = FALSE
    /\ cleanup = "off" /\ serve = "off" /\ watch = "off"
    /\ active = 0
    /\ firstErr = "none"
    /\ result = "none"

Returns(r) == stage' = "returned" /\ result' = r

(* groupCtx is canceled with its parent, or by the first error. *)
GroupDone == ctxDone \/ firstErr # "none"

Fails(err) == firstErr' = IF firstErr = "none" THEN err ELSE firstErr

Cancel ==
    /\ ~ctxDone
    /\ ctxDone' = TRUE
    /\ UNCHANGED <<protocol, stage, socket, ready, cleanup, serve, watch, active, firstErr, result>>

(* listenConfig.Listen: the address may be taken; a done context fails too. *)
Bind ==
    /\ stage = "binding"
    /\ \/ Returns("listen failed") /\ UNCHANGED socket
       \/ ~ctxDone /\ stage' = "bound" /\ socket' = "open" /\ UNCHANGED result
    /\ UNCHANGED <<protocol, ctxDone, ready, cleanup, serve, watch, active, firstErr>>

(* A mutant of Announce: the bound listener is left open when canceled. *)
BadAnnounce ==
    /\ stage = "bound"
    /\ IF ctxDone
       THEN Returns("canceled") /\ UNCHANGED <<socket, ready, cleanup, serve, watch>>
       ELSE /\ ready' = TRUE /\ stage' = "serving"
            /\ cleanup' = IF HasCleanup THEN "running" ELSE "off"
            /\ serve' = "running" /\ watch' = "waiting"
            /\ UNCHANGED <<socket, result>>
    /\ UNCHANGED <<protocol, ctxDone, active, firstErr>>

(* The context is looked at once more; then the group starts. *)
Announce ==
    /\ stage = "bound"
    /\ IF ctxDone
       THEN Returns("canceled") /\ socket' = "closed" /\ UNCHANGED <<ready, cleanup, serve, watch>>
       ELSE /\ ready' = TRUE /\ stage' = "serving"
            /\ cleanup' = IF HasCleanup THEN "running" ELSE "off"
            /\ serve' = "running" /\ watch' = "waiting"
            /\ UNCHANGED <<socket, result>>
    /\ UNCHANGED <<protocol, ctxDone, active, firstErr>>

(* runCleanupLoop returns when groupCtx is done. *)
CleanupEnds ==
    /\ cleanup = "running"
    /\ GroupDone
    /\ cleanup' = "ended"
    /\ UNCHANGED <<protocol, ctxDone, stage, socket, ready, serve, watch, active, firstErr, result>>

(* server.Serve: an accept error, or ErrServerClosed after Shutdown began. *)
ServeCrashes ==
    /\ serve = "running"
    /\ watch = "waiting"
    /\ serve' = "ended"
    /\ socket' = "closed"
    /\ Fails("crashed")
    /\ UNCHANGED <<protocol, ctxDone, stage, ready, cleanup, watch, active, result>>

ServeCloses ==
    /\ serve = "running"
    /\ watch \in {"draining", "ended"}
    /\ serve' = "ended"
    /\ socket' = "closed"
    /\ UNCHANGED <<protocol, ctxDone, stage, ready, cleanup, watch, active, firstErr, result>>

(* The watcher: another goroutine failed and the context is not done ... *)
WatcherLeaves ==
    /\ watch = "waiting"
    /\ firstErr # "none"
    /\ ~ctxDone
    /\ watch' = "left"
    /\ UNCHANGED <<protocol, ctxDone, stage, socket, ready, cleanup, serve, active, firstErr, result>>

(* ... or the context is done, and the server is shut down. *)
Shutdown ==
    /\ watch = "waiting"
    /\ ctxDone
    /\ watch' = "draining"
    /\ UNCHANGED <<protocol, ctxDone, stage, socket, ready, cleanup, serve, active, firstErr, result>>

Drained ==
    /\ watch = "draining"
    /\ active = 0
    /\ watch' = "ended"
    /\ UNCHANGED <<protocol, ctxDone, stage, socket, ready, cleanup, serve, active, firstErr, result>>

(* A request outlives the 5 seconds: Close drops it, and may itself fail. *)
DrainTimesOut ==
    /\ watch = "draining"
    /\ active > 0
    /\ watch' = "ended"
    /\ \/ IF FailedDrainIsError THEN Fails("shutdown failed") ELSE UNCHANGED firstErr
       \/ Fails("shutdown failed")
    /\ UNCHANGED <<protocol, ctxDone, stage, socket, ready, cleanup, serve, active, result>>

(* A request is taken while the server accepts; a handler returns. *)
Request ==
    /\ \/ /\ serve = "running" /\ watch = "waiting" /\ active < MaxRequests
          /\ active' = active + 1
       \/ active > 0 /\ active' = active - 1
    /\ UNCHANGED <<protocol, ctxDone, stage, socket, ready, cleanup, serve, watch, firstErr, result>>

(* group.Wait: the first error, else the context's. *)
Wait ==
    /\ stage = "serving"
    /\ cleanup # "running" /\ serve = "ended" /\ watch \in {"ended", "left"}
    /\ Returns(IF firstErr # "none" THEN firstErr ELSE IF ctxDone THEN "canceled" ELSE "nil")
    /\ UNCHANGED <<protocol, ctxDone, socket, ready, cleanup, serve, watch, active, firstErr>>

ListenerStep ==
    \/ Bind \/ Announce
    \/ CleanupEnds \/ ServeCloses
    \/ WatcherLeaves \/ Shutdown \/ Drained \/ DrainTimesOut
    \/ Wait

Environment == Cancel \/ ServeCrashes \/ Request

-----------------------------------------------------------------------------
(* When the call has returned nothing of it is left: its goroutines have   *)
(* ended and its socket, if it was opened, is closed on every path.        *)
ReturnedMeansStopped ==
    stage = "returned" =>
        /\ socket # "open"
        /\ cleanup # "running" /\ serve # "running" /\ watch \notin {"waiting", "draining"}

(* The call never ends as if all were well: it returns an error, and says  *)
(* "canceled" only if it was.                                              *)
EndsWithReason ==
    stage = "returned" => result # "nil" /\ (result = "canceled" => ctxDone)
=============================================================================
