------------------------------ MODULE Listeners ------------------------------
(***************************************************************************)
(* The two ways into the listener of ListenerLifecycle: Transport.Do of    *)
(* ta2a, which starts once although callers race for it, and tmcp's        *)
(* ListenAndServe.  protocol says which of the two a behaviour is about.   *)
(***************************************************************************)
EXTENDS ListenerLifecycle

CONSTANTS Callers, NoCaller

ASSUME CallersAssumption == NoCaller \notin Callers

VARIABLES
    started,   \* Transport.started of ta2a
    tokenSet,  \* the bearer token variable of the environment holds a valid token
    winner,    \* the caller of Do the listener runs for
    answer     \* what the other callers of Do got

own == <<started, tokenSet, winner, answer>>
vars == <<listener, own>>

ListenersTypeOK ==
    /\ TypeOK
    /\ started \in BOOLEAN /\ tokenSet \in BOOLEAN
    /\ winner \in Callers \cup {NoCaller}
    /\ answer \in [Callers -> {"none", "already started", "canceled", "no token"}]

Init ==
    /\ InitListener
    /\ started = FALSE
    /\ tokenSet \in BOOLEAN
    /\ winner = NoCaller
    /\ answer = [c \in Callers |-> "none"]

(* The environment variable is set, or unset, by the operator. *)
SetToken ==
    /\ tokenSet' = ~tokenSet
    /\ UNCHANGED <<listener, started, winner, answer>>

-----------------------------------------------------------------------------
(* Do: the checks under startMu, in their order.  A canceled caller uses   *)
(* up the start; one without a token may try again.                        *)

Undecided(c) == protocol = "a2a" /\ answer[c] \in {"none", "no token"} /\ winner # c

Refuse(c, why) ==
    /\ answer' = [answer EXCEPT ![c] = why]
    /\ UNCHANGED <<listener, tokenSet, winner>>

AlreadyStarted(c) ==
    /\ Undecided(c)
    /\ started
    /\ Refuse(c, "already started")
    /\ UNCHANGED started

DoCanceled(c) ==
    /\ Undecided(c)
    /\ ~started
    /\ started' = TRUE
    /\ Refuse(c, "canceled")

DoWithoutToken(c) ==
    /\ Undecided(c)
    /\ ~started
    /\ ~tokenSet
    /\ Refuse(c, "no token")
    /\ UNCHANGED started

(* The listener goes on to bind. *)
Binds ==
    /\ stage' = "binding"
    /\ UNCHANGED <<protocol, ctxDone, socket, ready, cleanup, serve, watch, active, firstErr, result>>

(* A mutant of EnterDo: the start is not remembered. *)
BadEnterDo(c) ==
    /\ Undecided(c)
    /\ ~started /\ tokenSet /\ ~ctxDone
    /\ winner' = c
    /\ Binds
    /\ UNCHANGED <<started, tokenSet, answer>>

EnterDo(c) ==
    /\ Undecided(c)
    /\ ~started /\ tokenSet /\ ~ctxDone
    /\ started' = TRUE
    /\ winner' = c
    /\ Binds
    /\ UNCHANGED <<tokenSet, answer>>

-----------------------------------------------------------------------------
(* ListenAndServe: an address, a context that is not done and a token, in  *)
(* this order; nothing is opened when one is missing.                      *)

ListenRefused(hasAddr) ==
    /\ protocol = "mcp" /\ stage = "entering"
    /\ ~hasAddr \/ ctxDone \/ ~tokenSet
    /\ Returns(IF hasAddr /\ ctxDone THEN "canceled" ELSE "refused")
    /\ UNCHANGED <<protocol, ctxDone, socket, ready, cleanup, serve, watch, active, firstErr, own>>

EnterListen ==
    /\ protocol = "mcp" /\ stage = "entering"
    /\ ~ctxDone /\ tokenSet
    /\ Binds
    /\ UNCHANGED own

-----------------------------------------------------------------------------
Next ==
    \/ \E c \in Callers : \/ AlreadyStarted(c) \/ DoCanceled(c)
                          \/ DoWithoutToken(c) \/ EnterDo(c)
    \/ \E hasAddr \in BOOLEAN : ListenRefused(hasAddr)
    \/ EnterListen
    \/ SetToken
    \/ ListenerStep /\ UNCHANGED own
    \/ (protocol = "a2a" => winner # NoCaller) /\ Environment /\ UNCHANGED own

Spec == Init /\ [][Next]_vars

-----------------------------------------------------------------------------
(* Two callers never run one transport, whatever the order of their checks *)
(* and however often a caller without a token tries again.                 *)
StartsOnce == [][winner # NoCaller => winner' = winner]_vars
=============================================================================
