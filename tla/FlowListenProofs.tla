-------------------------- MODULE FlowListenProofs --------------------------
(***************************************************************************)
(* The listeners and the listen actions of Flow.  First the safety of both *)
(* listeners, for any number of callers and requests: the invariant ties   *)
(* each goroutine of the group to the stage of the call and to what made   *)
(* the watcher move.  Then Flow: to the listener below its actions are one *)
(* more way of calling it, so those theorems hold of them; and what they   *)
(* swallow.                                                                *)
(***************************************************************************)
EXTENDS FlowListen, TLAPS

(* Before the group starts there are no goroutines and there is no error;  *)
(* Do has not begun as long as nobody started.                             *)
BeforeGroup ==
    /\ stage \in {"entering", "binding", "bound"} =>
          cleanup = "off" /\ serve = "off" /\ watch = "off" /\ firstErr = "none"
    /\ stage \in {"entering", "binding"} => socket = "none"
    /\ protocol = "a2a" /\ ~started => stage = "entering"
    /\ winner # NoCaller => started

(* The server's end closed the socket; the watcher waits for a reason.     *)
InGroup ==
    /\ stage = "serving" => serve # "off" /\ watch # "off"
    /\ serve = "ended" => socket = "closed"
    /\ watch \in {"draining", "ended"} => ctxDone
    /\ watch = "left" => firstErr # "none"

ListenerInv == BeforeGroup /\ InGroup /\ ReturnedMeansStopped /\ EndsWithReason

(* Types: the steps of the call, of its goroutines and of what is around.  *)
LEMMA LifecycleTypes ==
    ASSUME TypeOK, ListenerStep \/ Environment
    PROVE  TypeOK'
<1>1. CASE Bind
  BY <1>1 DEF TypeOK, Bind, Returns, Stages, Sockets, Results
<1>2. CASE Announce
  BY <1>2 DEF TypeOK, Announce, Returns, HasCleanup, Stages, Sockets, Results, Goroutine, Watcher
<1>3. CASE CleanupEnds
  BY <1>3 DEF TypeOK, CleanupEnds, Goroutine
<1>4. CASE ServeCloses
  BY <1>4 DEF TypeOK, ServeCloses, Goroutine, Sockets
<1>5. CASE WatcherLeaves \/ Shutdown \/ Drained
  BY <1>5 DEF TypeOK, WatcherLeaves, Shutdown, Drained, Watcher
<1>6. CASE DrainTimesOut
  BY <1>6 DEF TypeOK, DrainTimesOut, Fails, Watcher, GroupErrors
<1>7. CASE Wait
  BY <1>7 DEF TypeOK, Wait, Returns, Stages, Results
<1>8. CASE Cancel
  BY <1>8 DEF TypeOK, Cancel
<1>9. CASE ServeCrashes
  BY <1>9 DEF TypeOK, ServeCrashes, Fails, Goroutine, Sockets, GroupErrors
<1>10. CASE Request
  <2>1. active' \in 0..MaxRequests
    BY <1>10, RequestsAssumption DEF TypeOK, Request
  <2>. QED
    BY <1>10, <2>1 DEF TypeOK, Request
<1>. QED
  BY <1>1, <1>2, <1>3, <1>4, <1>5, <1>6, <1>7, <1>8, <1>9, <1>10 DEF ListenerStep, Environment

(* Types: the ways in. *)
LEMMA EntryTypes == ListenersTypeOK /\ [Next]_vars => ListenersTypeOK'
<1>. SUFFICES ASSUME ListenersTypeOK, [Next]_vars PROVE ListenersTypeOK'
  OBVIOUS
<1>1. ASSUME NEW c \in Callers, AlreadyStarted(c) \/ DoCanceled(c) \/ DoWithoutToken(c)
      PROVE ListenersTypeOK'
  BY <1>1 DEF AlreadyStarted, DoCanceled, DoWithoutToken, Refuse, listener, ListenersTypeOK, TypeOK
<1>2. ASSUME NEW c \in Callers, EnterDo(c) PROVE ListenersTypeOK'
  BY <1>2 DEF EnterDo, Binds, ListenersTypeOK, TypeOK, Stages
<1>3. ASSUME NEW hasAddr \in BOOLEAN, ListenRefused(hasAddr) PROVE ListenersTypeOK'
  BY <1>3 DEF ListenRefused, Returns, own, ListenersTypeOK, TypeOK, Stages, Results
<1>4. CASE EnterListen
  BY <1>4 DEF EnterListen, Binds, own, ListenersTypeOK, TypeOK, Stages
<1>5. CASE SetToken
  BY <1>5 DEF SetToken, listener, ListenersTypeOK, TypeOK
<1>6. CASE (ListenerStep \/ Environment) /\ UNCHANGED own
  BY <1>6, LifecycleTypes DEF own, ListenersTypeOK
<1>7. CASE UNCHANGED vars
  BY <1>7 DEF vars, listener, own, ListenersTypeOK, TypeOK
<1>. QED
  BY <1>1, <1>2, <1>3, <1>4, <1>5, <1>6, <1>7 DEF Next

(* Both listeners stay well typed, whoever races for the start. *)
THEOREM ListenersTyped == Spec => []ListenersTypeOK
<1>1. Init => ListenersTypeOK
  <2>. SUFFICES ASSUME Init PROVE ListenersTypeOK
    OBVIOUS
  <2>1. active \in 0..MaxRequests
    BY RequestsAssumption DEF Init, InitListener
  <2>2. /\ stage \in Stages /\ socket \in Sockets /\ firstErr \in GroupErrors /\ result \in Results
        /\ cleanup \in Goroutine /\ serve \in Goroutine /\ watch \in Watcher
    BY DEF Init, InitListener, Stages, Sockets, Goroutine, Watcher, GroupErrors, Results
  <2>. QED
    BY <2>1, <2>2 DEF Init, InitListener, ListenersTypeOK, TypeOK
<1>. QED
  BY <1>1, EntryTypes, PTL DEF Spec

-----------------------------------------------------------------------------
(* The invariant under the steps of the call and of its goroutines. *)
LEMMA LifecycleStep ==
    ASSUME TypeOK, ListenerInv, ListenerStep \/ Environment, UNCHANGED own
    PROVE  ListenerInv'
<1>. USE DEF ListenerInv, BeforeGroup, InGroup, ReturnedMeansStopped, EndsWithReason, own
<1>1. CASE Bind
  BY <1>1 DEF Bind, Returns
<1>2. CASE Announce
  BY <1>2 DEF Announce, Returns, HasCleanup
<1>3. CASE CleanupEnds
  BY <1>3 DEF CleanupEnds
<1>4. CASE ServeCloses
  BY <1>4 DEF ServeCloses
<1>5. CASE WatcherLeaves
  BY <1>5 DEF WatcherLeaves
<1>6. CASE Shutdown
  BY <1>6 DEF Shutdown
<1>7. CASE Drained
  BY <1>7 DEF Drained
<1>8. CASE DrainTimesOut
  BY <1>8 DEF DrainTimesOut, Fails, FailedDrainIsError
<1>9. CASE Wait
  <2>1. firstErr \notin {"nil", "canceled"}
    BY DEF TypeOK, GroupErrors
  <2>. QED
    BY <1>9, <2>1 DEF Wait, Returns
<1>10. CASE Cancel
  BY <1>10 DEF Cancel
<1>11. CASE ServeCrashes
  BY <1>11 DEF ServeCrashes, Fails
<1>12. CASE Request
  BY <1>12 DEF Request
<1>. QED
  BY <1>1, <1>2, <1>3, <1>4, <1>5, <1>6, <1>7, <1>8, <1>9, <1>10, <1>11, <1>12
     DEF ListenerStep, Environment

(* The invariant under the ways in. *)
LEMMA ListenerNext == ListenersTypeOK /\ ListenerInv /\ [Next]_vars => ListenerInv'
<1>. SUFFICES ASSUME ListenersTypeOK, ListenerInv, [Next]_vars PROVE ListenerInv'
  OBVIOUS
<1>1. ASSUME NEW c \in Callers, AlreadyStarted(c) \/ DoCanceled(c) \/ DoWithoutToken(c)
      PROVE ListenerInv'
  <2>1. UNCHANGED <<listener, tokenSet, winner>>
    BY <1>1 DEF AlreadyStarted, DoCanceled, DoWithoutToken, Refuse
  <2>2. UNCHANGED started \/ started' = TRUE
    BY <1>1 DEF AlreadyStarted, DoCanceled, DoWithoutToken
  <2>. QED
    BY <2>1, <2>2 DEF listener, ListenerInv, BeforeGroup, InGroup,
                ReturnedMeansStopped, EndsWithReason
<1>2. ASSUME NEW c \in Callers, EnterDo(c) PROVE ListenerInv'
  BY <1>2 DEF EnterDo, Undecided, Binds, ListenerInv, BeforeGroup,
              InGroup, ReturnedMeansStopped, EndsWithReason
<1>3. ASSUME NEW hasAddr \in BOOLEAN, ListenRefused(hasAddr) PROVE ListenerInv'
  BY <1>3 DEF ListenRefused, Returns, own, ListenerInv, BeforeGroup,
              InGroup, ReturnedMeansStopped, EndsWithReason
<1>4. CASE EnterListen
  BY <1>4 DEF EnterListen, Binds, own, ListenerInv, BeforeGroup,
              InGroup, ReturnedMeansStopped, EndsWithReason
<1>5. CASE SetToken
  BY <1>5 DEF SetToken, listener, ListenerInv, BeforeGroup, InGroup,
              ReturnedMeansStopped, EndsWithReason
<1>6. CASE (ListenerStep \/ Environment) /\ UNCHANGED own
  BY <1>6, LifecycleStep DEF ListenersTypeOK
<1>7. CASE UNCHANGED vars
  BY <1>7 DEF vars, listener, own, ListenerInv, BeforeGroup, InGroup,
              ReturnedMeansStopped, EndsWithReason
<1>. QED
  BY <1>1, <1>2, <1>3, <1>4, <1>5, <1>6, <1>7 DEF Next

LEMMA ListenerInvariant == Spec => []ListenerInv
<1>1. Init => ListenerInv
  BY DEF Init, InitListener, ListenerInv, BeforeGroup, InGroup, ReturnedMeansStopped, EndsWithReason
<1>. QED
  BY <1>1, ListenerNext, ListenersTyped, PTL DEF Spec

(* When Do or ListenAndServe has returned, on whatever path, no goroutine  *)
(* of it runs and its socket is not open.                                  *)
THEOREM NothingLeftRunning == Spec => []ReturnedMeansStopped
<1>1. ListenerInv => ReturnedMeansStopped
  BY DEF ListenerInv
<1>. QED
  BY <1>1, ListenerInvariant, PTL

(* Neither of them returns nil, and "canceled" only after a cancellation. *)
THEOREM ReturnsAReason == Spec => []EndsWithReason
<1>1. ListenerInv => EndsWithReason
  BY DEF ListenerInv
<1>. QED
  BY <1>1, ListenerInvariant, PTL

(* Once a caller of Do runs the transport no other one ever does. *)
THEOREM OneStart == Spec => StartsOnce
<1>1. ListenerInv /\ [Next]_vars => [winner # NoCaller => winner' = winner]_vars
  BY DEF Next, AlreadyStarted, DoCanceled, DoWithoutToken, Refuse, EnterDo, ListenRefused,
         EnterListen, SetToken, own, ListenerInv, BeforeGroup
<1>. QED
  BY <1>1, ListenerInvariant, PTL DEF Spec, StartsOnce

-----------------------------------------------------------------------------
(* How much of its run a listener has before it: its stages, and in the    *)
(* group the goroutines that have not ended, the watcher's by two steps    *)
(* until it shuts the server down.                                         *)
Running(goroutine) == IF goroutine = "running" THEN 1 ELSE 0
Watching == CASE watch = "waiting" -> 2 [] watch = "draining" -> 1 [] OTHER -> 0

RunLeft == CASE stage = "entering" -> 8
             [] stage = "binding" -> 7
             [] stage = "bound" -> 6
             [] stage = "serving" -> 1 + Running(cleanup) + Running(serve) + Watching
             [] OTHER -> 0

(* The steps that a listener takes of itself use it up, and nothing that   *)
(* happens around it gives any of it back.                                 *)
RunUsed ==
    /\ RunLeft' <= RunLeft
    /\ ListenerStep => RunLeft' < RunLeft

LEMMA RunLeftTyped ==
    TypeOK => RunLeft \in 0..8 /\ (RunLeft = 0 <=> stage = "returned")
<1>. SUFFICES ASSUME TypeOK
              PROVE  RunLeft \in 0..8 /\ (RunLeft = 0 <=> stage = "returned")
  OBVIOUS
<1>1. stage \in {"entering", "binding", "bound", "serving", "returned"}
  BY DEF TypeOK, Stages
<1>2. Running(cleanup) \in 0..1 /\ Running(serve) \in 0..1 /\ Watching \in 0..2
  BY DEF Running, Watching
<1>. QED
  BY <1>1, <1>2 DEF RunLeft

LEMMA RunShortens ==
    ASSUME TypeOK, ListenerInv, ListenerStep
    PROVE  RunLeft' < RunLeft
<1>. USE DEF RunLeft, Running, Watching
<1>1. CASE Bind
  <2>1. stage = "binding" /\ stage' \in {"returned", "bound"}
    BY <1>1 DEF Bind, Returns
  <2>. QED
    BY <2>1
<1>2. CASE Announce
  BY <1>2 DEF Announce, Returns, HasCleanup
<1>s. ASSUME cleanup = "running" \/ serve = "running" \/ watch \in {"waiting", "draining"}
      PROVE  stage = "serving"
  BY <1>s DEF ListenerInv, BeforeGroup, ReturnedMeansStopped, TypeOK, Stages
<1>3. CASE CleanupEnds
  BY <1>3, <1>s DEF CleanupEnds
<1>4. CASE ServeCloses
  BY <1>4, <1>s DEF ServeCloses
<1>5. CASE WatcherLeaves
  BY <1>5, <1>s DEF WatcherLeaves
<1>6. CASE Shutdown
  BY <1>6, <1>s DEF Shutdown
<1>7. CASE Drained \/ DrainTimesOut
  <2>1. watch = "draining" /\ watch' = "ended" /\ UNCHANGED <<stage, cleanup, serve>>
    BY <1>7 DEF Drained, DrainTimesOut
  <2>. QED
    BY <1>s, <2>1
<1>8. CASE Wait
  BY <1>8 DEF Wait, Returns
<1>. QED
  BY <1>1, <1>2, <1>3, <1>4, <1>5, <1>6, <1>7, <1>8 DEF ListenerStep

LEMMA RunNeverGrows ==
    ASSUME ListenersTypeOK, ListenerInv, [Next]_vars
    PROVE  RunLeft' <= RunLeft
<1>. DEFINE Same == UNCHANGED <<stage, cleanup, serve, watch>>
<1>t. TypeOK /\ TypeOK'
  BY EntryTypes DEF ListenersTypeOK
<1>b. RunLeft \in 0..8 /\ RunLeft' \in 0..8
  <2>1. RunLeft \in 0..8
    BY <1>t, RunLeftTyped
  <2>2. TypeOK' => (RunLeft \in 0..8)'
    BY RunLeftTyped, PTL
  <2>. QED
    BY <1>t, <2>1, <2>2
<1>s. ASSUME Same PROVE RunLeft' <= RunLeft
  BY <1>s, <1>b DEF RunLeft, Running, Watching
<1>e. ASSUME stage = "entering" PROVE RunLeft' <= RunLeft
  BY <1>b, <1>e DEF RunLeft
<1>1. ASSUME NEW c \in Callers, AlreadyStarted(c) \/ DoCanceled(c) \/ DoWithoutToken(c)
      PROVE  Same
  BY <1>1 DEF AlreadyStarted, DoCanceled, DoWithoutToken, Refuse, listener
<1>2. ASSUME NEW c \in Callers, EnterDo(c) PROVE stage = "entering"
  BY <1>2 DEF EnterDo, Undecided, ListenerInv, BeforeGroup
<1>3. ASSUME (\E hasAddr \in BOOLEAN : ListenRefused(hasAddr)) \/ EnterListen
      PROVE  stage = "entering"
  BY <1>3 DEF ListenRefused, EnterListen
<1>4. ASSUME SetToken \/ Cancel \/ Request PROVE Same
  BY <1>4 DEF SetToken, Cancel, Request, listener
<1>5. ASSUME ServeCrashes PROVE RunLeft' <= RunLeft
  BY <1>5 DEF ServeCrashes, RunLeft, Running, Watching
<1>6. ASSUME ListenerStep PROVE RunLeft' <= RunLeft
  BY <1>6, <1>t, <1>b, RunShortens
<1>7. CASE UNCHANGED vars
  BY <1>7, <1>s DEF vars, listener
<1>. QED
  BY <1>s, <1>e, <1>1, <1>2, <1>3, <1>4, <1>5, <1>6, <1>7 DEF Next, Environment

(* A listener returns after at most seven steps of its own once it binds,  *)
(* whatever callers, requests, cancellations and a crashing server do in   *)
(* between: no path of the group starts a goroutine again, none waits for  *)
(* one twice.  That the steps are taken is the fairness of the runs.       *)
THEOREM ListenersRunOut ==
    Spec => [](RunLeft \in 0..8 /\ (RunLeft = 0 <=> stage = "returned")) /\ [][RunUsed]_vars
<1>1. ListenersTypeOK => RunLeft \in 0..8 /\ (RunLeft = 0 <=> stage = "returned")
  BY RunLeftTyped DEF ListenersTypeOK
<1>2. ListenersTypeOK /\ ListenerInv /\ [Next]_vars => [RunUsed]_vars
  BY RunShortens, RunNeverGrows DEF ListenersTypeOK, RunUsed
<1>. QED
  BY <1>1, <1>2, ListenersTyped, ListenerInvariant, PTL DEF Spec

-----------------------------------------------------------------------------
(* Flow. *)

(* Calls of the listen action, whatever they resolve and mount, drive the  *)
(* listener as Listeners says: Flow is one of its environments.            *)
LEMMA FlowStepIsListenerStep == [FlowNext]_<<vars, flow>> => [Next]_vars
<1>1. ASSUME NEW c \in Callers, Resolve(c) \/ MountAll(c) \/ StartRead(c) \/ Leave(c)
      PROVE  UNCHANGED vars
  BY <1>1 DEF Resolve, MountAll, StartRead, Leave, LeaveA2A, LeaveHTTP, LeaveStdio, Leaves
<1>2. ASSUME NEW c \in Callers, Enter(c) PROVE Next \/ UNCHANGED vars
  BY <1>2 DEF Enter, Runs, Next
<1>3. CASE InputComes
  BY <1>3 DEF InputComes
<1>. QED
  BY <1>1, <1>2, <1>3 DEF FlowNext, Next, vars

THEOREM FlowImplementsListeners == FlowSpec => Spec
<1>1. FlowInit => Init
  BY DEF FlowInit
<1>. QED
  BY <1>1, FlowStepIsListenerStep, PTL DEF FlowSpec, Spec

-----------------------------------------------------------------------------
(* What a result says of the group it came from. *)
ResultTells ==
    /\ result # "none" => stage = "returned"
    /\ result \in {"canceled", "listen failed"} => firstErr = "none"

LEMMA ResultStep ==
    ASSUME ListenersTypeOK, ListenerInv, ResultTells, [Next]_vars
    PROVE  ResultTells'
<1>. USE DEF ResultTells
<1>1. ASSUME NEW c \in Callers, AlreadyStarted(c) \/ DoCanceled(c) \/ DoWithoutToken(c)
      PROVE ResultTells'
  BY <1>1 DEF AlreadyStarted, DoCanceled, DoWithoutToken, Refuse, listener
<1>2. ASSUME NEW c \in Callers, EnterDo(c) PROVE ResultTells'
  <2>1. stage # "returned"
    BY <1>2 DEF EnterDo, Undecided, ListenerInv, BeforeGroup
  <2>. QED
    BY <1>2, <2>1 DEF EnterDo, Binds
<1>3. ASSUME NEW hasAddr \in BOOLEAN, ListenRefused(hasAddr) PROVE ResultTells'
  BY <1>3 DEF ListenRefused, Returns, ListenerInv, BeforeGroup
<1>4. CASE EnterListen
  BY <1>4 DEF EnterListen, Binds
<1>5. CASE SetToken
  BY <1>5 DEF SetToken, listener
<1>6. CASE Bind \/ Announce
  BY <1>6 DEF Bind, Announce, Returns, ListenerInv, BeforeGroup
<1>7. CASE CleanupEnds \/ ServeCloses \/ WatcherLeaves \/ Shutdown \/ Drained \/ Cancel \/ Request
  BY <1>7 DEF CleanupEnds, ServeCloses, WatcherLeaves, Shutdown, Drained, Cancel, Request
<1>8. CASE DrainTimesOut \/ ServeCrashes
  <2>1. stage # "returned"
    BY <1>8 DEF DrainTimesOut, ServeCrashes, ListenerInv, ReturnedMeansStopped
  <2>. QED
    BY <1>8, <2>1 DEF DrainTimesOut, ServeCrashes
<1>9. CASE Wait
  <2>1. firstErr \notin {"canceled", "listen failed"}
    BY DEF ListenersTypeOK, TypeOK, GroupErrors
  <2>. QED
    BY <1>9, <2>1 DEF Wait, Returns
<1>10. CASE UNCHANGED vars
  BY <1>10 DEF vars, listener
<1>. QED
  BY <1>1, <1>2, <1>3, <1>4, <1>5, <1>6, <1>7, <1>8, <1>9, <1>10
     DEF Next, ListenerStep, Environment

LEMMA ResultInvariant == Spec => []ResultTells
<1>1. Init => ResultTells
  BY DEF Init, InitListener, ResultTells
<1>. QED
  BY <1>1, ResultStep, ListenersTyped, ListenerInvariant, PTL DEF Spec

-----------------------------------------------------------------------------
(* Over stdio a behaviour has one call of tmcp.listen, and one stdin. *)
OneStdioCall ==
    overStdio => /\ protocol = "mcp"
                 /\ \A c, d \in Callers : call[c] # "idle" /\ call[d] # "idle" => c = d

(* A quiet call has returned, and the listener it served with it. *)
QuietInv ==
    /\ QuietOnlyWhenCanceled
    /\ \A c \in Callers : outcome[c] = "ok" =>
        /\ call[c] = "returned"
        /\ protocol = "a2a" /\ c = winner => stage = "returned"
    /\ OneStdioCall

(* What the listener does to its state once the call has returned. *)
LEMMA ReturnedStays ==
    ASSUME ListenersTypeOK, ListenerInv, [Next]_vars
    PROVE  /\ protocol' = protocol /\ (ctxDone => ctxDone')
           /\ stage = "returned" /\ protocol = "a2a" => stage' = "returned" /\ firstErr' = firstErr
<1>. USE DEF ListenerInv, ReturnedMeansStopped, BeforeGroup
<1>1. ASSUME NEW c \in Callers, AlreadyStarted(c) \/ DoCanceled(c) \/ DoWithoutToken(c)
      PROVE UNCHANGED listener
  BY <1>1 DEF AlreadyStarted, DoCanceled, DoWithoutToken, Refuse
<1>2. ASSUME NEW c \in Callers, EnterDo(c)
      PROVE UNCHANGED <<protocol, ctxDone>> /\ stage # "returned"
  BY <1>2 DEF EnterDo, Undecided, Binds
<1>3. ASSUME NEW hasAddr \in BOOLEAN, ListenRefused(hasAddr)
      PROVE UNCHANGED <<protocol, ctxDone>> /\ stage # "returned"
  BY <1>3 DEF ListenRefused
<1>4. CASE EnterListen
  BY <1>4 DEF EnterListen, Binds
<1>5. CASE SetToken
  BY <1>5 DEF SetToken, listener
<1>6. CASE Bind \/ Announce
  <2>1. UNCHANGED <<protocol, ctxDone>> /\ stage # "returned"
    BY <1>6 DEF Bind, Announce
  <2>. QED
    BY <2>1
<1>7. CASE CleanupEnds \/ ServeCloses \/ WatcherLeaves \/ Shutdown \/ Drained \/ Cancel \/ Request
  BY <1>7 DEF CleanupEnds, ServeCloses, WatcherLeaves, Shutdown, Drained, Cancel, Request
<1>8. CASE DrainTimesOut \/ ServeCrashes \/ Wait
  <2>1. UNCHANGED <<protocol, ctxDone>>
    BY <1>8 DEF DrainTimesOut, ServeCrashes, Wait
  <2>2. stage # "returned"
    BY <1>8 DEF DrainTimesOut, ServeCrashes, Wait
  <2>. QED
    BY <2>1, <2>2
<1>9. CASE UNCHANGED vars
  BY <1>9 DEF vars, listener
<1>. QED
  BY <1>1, <1>2, <1>3, <1>4, <1>5, <1>6, <1>7, <1>8, <1>9
     DEF Next, ListenerStep, Environment, listener

(* Calls that are not one's own leave one's answer alone. *)
LEMMA AnswersStay ==
    ASSUME FlowTypeOK, ListenersTypeOK, ListenerInv, OneStdioCall, [FlowNext]_<<vars, flow>>,
           NEW c \in Callers, call[c] = "returned"
    PROVE  /\ answer'[c] = answer[c] /\ outcome'[c] = outcome[c] /\ call'[c] = "returned"
           /\ cause' = cause /\ overStdio' = overStdio
           /\ winner' = c <=> winner = c
           /\ stdin = "ended" => stdin' = "ended"
<1>1. ASSUME NEW d \in Callers, Resolve(d) \/ MountAll(d) \/ Leave(d)
      PROVE d # c /\ UNCHANGED <<vars, cause, overStdio, stdin>>
              /\ outcome'[c] = outcome[c] /\ call'[c] = "returned"
  <2>1. call[d] # "returned"
    BY <1>1 DEF Resolve, MountAll, Leave, LeaveA2A, LeaveHTTP, LeaveStdio, Leaves
  <2>2. call'[c] = call[c]
    BY <1>1, <2>1 DEF Resolve, MountAll, Leave, LeaveA2A, LeaveHTTP, LeaveStdio, Leaves,
                       Goes, FlowTypeOK
  <2>3. outcome'[c] = outcome[c]
    BY <1>1, <2>1 DEF Resolve, MountAll, Leave, LeaveA2A, LeaveHTTP, LeaveStdio, Leaves, FlowTypeOK
  <2>. QED
    BY <1>1, <2>1, <2>2, <2>3 DEF Resolve, MountAll, Leave, LeaveA2A, LeaveHTTP, LeaveStdio, Leaves
<1>2. ASSUME NEW d \in Callers, Enter(d)
      PROVE /\ answer'[c] = answer[c] /\ outcome'[c] = outcome[c] /\ call'[c] = "returned"
            /\ cause' = cause /\ overStdio' = overStdio
            /\ winner' = c <=> winner = c
            /\ stdin = "ended" => stdin' = "ended"
  <2>0. stdin = "ended" => stdin' = "ended"
    <3>1. ~overStdio
      BY <1>2 DEF Enter, OneStdioCall
    <3>. QED
      BY <1>2, <3>1 DEF Enter, Runs
  <2>1. d # c /\ call'[c] = call[c] /\ UNCHANGED <<outcome, cause, overStdio>>
    BY <1>2 DEF Enter, Goes, FlowTypeOK
  <2>2. CASE AlreadyStarted(d) \/ DoCanceled(d) \/ DoWithoutToken(d)
    BY <2>0, <2>1, <2>2 DEF AlreadyStarted, DoCanceled, DoWithoutToken, Refuse, ListenersTypeOK
  <2>3. CASE EnterDo(d)
    <3>1. winner = NoCaller
      BY <2>3 DEF EnterDo, ListenerInv, BeforeGroup, ListenersTypeOK
    <3>. QED
      BY <2>0, <2>1, <2>3, <3>1, CallersAssumption DEF EnterDo
  <2>4. CASE ListenRefused(TRUE) \/ EnterListen \/ UNCHANGED vars
    BY <2>0, <2>1, <2>4 DEF ListenRefused, EnterListen, vars, own
  <2>. QED
    BY <1>2, <2>0, <2>1, <2>2, <2>3, <2>4 DEF Enter, Runs
<1>3. ASSUME (\E d \in Callers : StartRead(d)) \/ InputComes
      PROVE  /\ UNCHANGED <<vars, overStdio, cause, call, outcome>>
             /\ stdin # "ended"
  BY <1>3 DEF StartRead, InputComes
<1>. QED
  BY <1>1, <1>2, <1>3 DEF FlowNext, flow, vars, own, SetToken

LEMMA FlowTypes ==
    ASSUME FlowTypeOK, [FlowNext]_<<vars, flow>>
    PROVE  FlowTypeOK'
<1>1. ASSUME NEW c \in Callers, Resolve(c) PROVE FlowTypeOK'
  <2>. PICK resolver \in {"none", "finds", "lists"}, endpoints \in SUBSET (Actions \cup {Unknown}) :
          /\ \/ /\ Resolves(resolver, endpoints) /\ Goes(c, "resolved")
                /\ toMount' = [toMount EXCEPT ![c] = Resolved(endpoints)]
                /\ UNCHANGED outcome
             \/ /\ Goes(c, "returned")
                /\ outcome' = [outcome EXCEPT ![c] = "error"]
                /\ UNCHANGED toMount
          /\ UNCHANGED <<vars, overStdio, stdin, cause, mounted>>
    BY <1>1 DEF Resolve
  <2>1. Resolves(resolver, endpoints) => Resolved(endpoints) \in SUBSET Actions
    BY DEF Resolves, Resolved
  <2>. QED
    BY <2>1 DEF FlowTypeOK, Goes
<1>2. ASSUME NEW c \in Callers, MountAll(c) PROVE FlowTypeOK'
  BY <1>2 DEF MountAll, FlowTypeOK, Goes
<1>3. ASSUME NEW c \in Callers, Enter(c) PROVE FlowTypeOK'
  BY <1>3 DEF Enter, Runs, FlowTypeOK, Goes
<1>4. ASSUME NEW c \in Callers, Leave(c) PROVE FlowTypeOK'
  BY <1>4 DEF Leave, LeaveA2A, LeaveHTTP, LeaveStdio, Leaves, FlowTypeOK, Goes
<1>5. CASE InputComes \/ \E c \in Callers : StartRead(c)
  BY <1>5 DEF InputComes, StartRead, FlowTypeOK
<1>. QED
  BY <1>1, <1>2, <1>3, <1>4, <1>5 DEF FlowNext, flow, FlowTypeOK

LEMMA FlowTyped == FlowSpec => []FlowTypeOK
<1>1. FlowInit => FlowTypeOK
  BY FlowAssumption DEF FlowInit, FlowTypeOK
<1>. QED
  BY <1>1, FlowTypes, PTL DEF FlowSpec

-----------------------------------------------------------------------------
LEMMA LeavingIsQuiet ==
    ASSUME ListenersTypeOK, ListenerInv, ResultTells, FlowTypeOK, QuietInv,
           NEW c \in Callers, Leave(c), outcome'[c] = "ok"
    PROVE  IF protocol = "mcp"
           THEN IF overStdio THEN stdin = "ended" \/ (ctxDone /\ cause = "canceled") ELSE ctxDone
           ELSE /\ cause = "canceled"
                /\ IF c = winner THEN ctxDone /\ firstErr = "none" /\ stage = "returned"
                                 ELSE answer[c] = "canceled"
<1>1. ASSUME NEW quiet \in BOOLEAN, Leaves(c, quiet) PROVE quiet
  BY <1>1 DEF Leaves, FlowTypeOK
<1>2. CASE LeaveHTTP(c)
  BY <1>1, <1>2 DEF LeaveHTTP, ListenerInv, EndsWithReason
<1>3. CASE LeaveStdio(c)
  BY <1>1, <1>3 DEF LeaveStdio, QuietInv, OneStdioCall
<1>4. CASE LeaveA2A(c) /\ c = winner
  <2>1. stage = "returned" /\ IsCanceled(result, TRUE)
    BY <1>1, <1>4 DEF LeaveA2A, IsCanceled
  <2>2. /\ cause = "canceled"
        /\ result = "canceled" \/ (result = "listen failed" /\ ctxDone)
    BY <2>1 DEF IsCanceled
  <2>3. protocol = "a2a"
    BY <1>4 DEF LeaveA2A
  <2>. QED
    BY <1>4, <2>1, <2>2, <2>3 DEF ResultTells, ListenerInv, EndsWithReason
<1>5. CASE LeaveA2A(c) /\ c # winner
  <2>1. IsCanceled(answer[c], TRUE)
    BY <1>1, <1>5 DEF LeaveA2A, IsCanceled
  <2>2. answer[c] # "listen failed"
    BY DEF ListenersTypeOK
  <2>3. cause = "canceled" /\ answer[c] = "canceled"
    BY <2>1, <2>2 DEF IsCanceled
  <2>. QED
    BY <1>5, <2>3 DEF LeaveA2A
<1>. QED
  BY <1>2, <1>3, <1>4, <1>5 DEF Leave

LEMMA QuietStep ==
    ASSUME ListenersTypeOK, ListenerInv, ResultTells, FlowTypeOK, QuietInv,
           [FlowNext]_<<vars, flow>>
    PROVE  QuietInv'
<1>1. /\ protocol' = protocol /\ (ctxDone => ctxDone')
      /\ stage = "returned" /\ protocol = "a2a" => stage' = "returned" /\ firstErr' = firstErr
  BY FlowStepIsListenerStep, ReturnedStays
<1>2. overStdio' = overStdio
  BY DEF FlowNext, Resolve, MountAll, Enter, StartRead, InputComes, Leave, LeaveA2A, LeaveHTTP,
         LeaveStdio, Leaves, flow
<1>3. ASSUME NEW c \in Callers, outcome'[c] = "ok"
      PROVE /\ IF protocol' = "mcp"
               THEN IF overStdio' THEN stdin' = "ended" \/ (ctxDone' /\ cause' = "canceled")
                    ELSE ctxDone'
               ELSE /\ cause' = "canceled"
                    /\ IF c = winner' THEN ctxDone' /\ firstErr' = "none" ELSE answer'[c] = "canceled"
            /\ call'[c] = "returned"
            /\ protocol' = "a2a" /\ c = winner' => stage' = "returned"
  <2>1. CASE outcome[c] = "ok"
    <3>1. call[c] = "returned"
      BY <2>1 DEF QuietInv
    <3>2. /\ answer'[c] = answer[c] /\ call'[c] = "returned" /\ cause' = cause
          /\ winner' = c <=> winner = c
          /\ stdin = "ended" => stdin' = "ended"
      BY <3>1, AnswersStay DEF QuietInv
    <3>. QED
      BY <1>1, <1>2, <2>1, <3>2 DEF QuietInv, QuietOnlyWhenCanceled, ListenersTypeOK, TypeOK
  <2>2. CASE outcome[c] # "ok"
    <3>1. Leave(c)
      <4>1. ASSUME NEW d \in Callers, Resolve(d) PROVE outcome'[c] # "ok"
        BY <4>1, <2>2 DEF Resolve, FlowTypeOK
      <4>2. ASSUME NEW d \in Callers, MountAll(d) \/ Enter(d) \/ StartRead(d) \/ InputComes
            PROVE  FALSE
        BY <4>2, <2>2, <1>3 DEF MountAll, Enter, StartRead, InputComes
      <4>3. ASSUME NEW d \in Callers, Leave(d), d # c PROVE FALSE
        BY <4>3, <2>2, <1>3 DEF Leave, LeaveA2A, LeaveHTTP, LeaveStdio, Leaves, FlowTypeOK
      <4>. QED
        BY <4>1, <4>2, <4>3, <1>3, <2>2 DEF FlowNext, flow
    <3>2. call'[c] = "returned" /\ UNCHANGED <<vars, overStdio, stdin, cause>>
      BY <3>1 DEF Leave, LeaveA2A, LeaveHTTP, LeaveStdio, Leaves, Goes, FlowTypeOK
    <3>. QED
      BY <1>3, <3>1, <3>2, LeavingIsQuiet DEF vars, listener, own
  <2>. QED
    BY <2>1, <2>2
<1>4. OneStdioCall'
  <2>. SUFFICES ASSUME overStdio
                PROVE  /\ protocol' = "mcp"
                       /\ \A c, d \in Callers : call'[c] # "idle" /\ call'[d] # "idle" => c = d
    BY <1>2 DEF OneStdioCall
  <2>1. protocol = "mcp" /\ \A c, d \in Callers : call[c] # "idle" /\ call[d] # "idle" => c = d
    BY DEF QuietInv, OneStdioCall
  <2>2. ASSUME NEW c \in Callers, Resolve(c)
        PROVE  /\ \A d \in Callers : call[d] = "idle"
               /\ \E where : call' = [call EXCEPT ![c] = where]
    BY <2>1, <2>2 DEF Resolve, Goes
  <2>3. ASSUME NEW c \in Callers, MountAll(c) \/ Enter(c) \/ StartRead(c) \/ Leave(c)
        PROVE  /\ call[c] # "idle"
               /\ call' = call \/ \E where : call' = [call EXCEPT ![c] = where]
    BY <2>3 DEF MountAll, Enter, StartRead, Leave, LeaveA2A, LeaveHTTP, LeaveStdio, Leaves, Goes
  <2>4. CASE UNCHANGED call
    BY <1>1, <2>1, <2>4
  <2>5. CASE \E c \in Callers : Resolve(c) \/ MountAll(c) \/ Enter(c) \/ StartRead(c) \/ Leave(c)
    BY <1>1, <2>1, <2>2, <2>3, <2>5 DEF FlowTypeOK
  <2>. QED
    BY <2>4, <2>5 DEF FlowNext, InputComes, flow
<1>. QED
  BY <1>1, <1>2, <1>3, <1>4 DEF QuietInv, QuietOnlyWhenCanceled

(* A listen action reports every end of its transport but a cancellation:  *)
(* no crash, failed shutdown or deadline of ta2a.listen is taken for a     *)
(* normal end, however it races with the cancellation, nor is a failed     *)
(* read or a deadline of tmcp.listen over stdio.                           *)
THEOREM QuietEnds == FlowSpec => []QuietOnlyWhenCanceled
<1>1. FlowInit => QuietInv
  BY DEF FlowInit, QuietInv, QuietOnlyWhenCanceled, OneStdioCall
<1>2. QuietInv => QuietOnlyWhenCanceled
  BY DEF QuietInv
<1>. QED
  BY <1>1, <1>2, QuietStep, FlowTyped, FlowImplementsListeners, ListenersTyped,
     ListenerInvariant, ResultInvariant, PTL DEF FlowSpec

-----------------------------------------------------------------------------
(* Mounting.  A call that has mounted left an action at each of its roles; *)
(* other calls replace actions by actions of the same role.                *)
MountInv ==
    /\ \A r \in Roles : mounted[r] # NoAction => RoleOf[mounted[r]] = r
    /\ \A c \in Callers : call[c] = "idle" => toMount[c] = {}
    /\ \A c \in Callers : call[c] \notin {"idle", "resolved"} =>
          \A a \in toMount[c] : RoleOf[a] # NoRole => mounted[RoleOf[a]] # NoAction
    /\ \A c \in Callers : winner = c => call[c] \in {"serving", "returned"}

LEMMA MountStep ==
    ASSUME FlowTypeOK, ListenersTypeOK, MountInv, [FlowNext]_<<vars, flow>>
    PROVE  MountInv'
<1>0. /\ call \in [Callers -> {"idle", "resolved", "mounted", "serving", "returned"}]
      /\ toMount \in [Callers -> SUBSET Actions]
      /\ mounted \in [Roles -> Actions \cup {NoAction}]
      /\ winner \in Callers \cup {NoCaller}
  BY DEF FlowTypeOK, ListenersTypeOK
<1>1. ASSUME NEW c \in Callers, Resolve(c) PROVE MountInv'
  <2>1. /\ call[c] = "idle" /\ UNCHANGED <<winner, mounted>>
        /\ \/ call' = [call EXCEPT ![c] = "resolved"]
              /\ \E S : toMount' = [toMount EXCEPT ![c] = S]
           \/ call' = [call EXCEPT ![c] = "returned"] /\ toMount' = toMount
    BY <1>1 DEF Resolve, Goes, vars, own
  <2>. QED
    BY <1>0, <2>1 DEF MountInv
<1>2. ASSUME NEW c \in Callers, MountAll(c) PROVE MountInv'
  <2>1. /\ call[c] = "resolved" /\ call' = [call EXCEPT ![c] = "mounted"]
        /\ UNCHANGED <<winner, toMount>>
    BY <1>2 DEF MountAll, Goes, vars, own
  <2>2. \A r \in Roles :
           \/ mounted'[r] = mounted[r] /\ {a \in toMount[c] : RoleOf[a] = r} = {}
           \/ mounted'[r] \in {a \in toMount[c] : RoleOf[a] = r}
    BY <1>2 DEF MountAll
  <2>3. \A r \in Roles : mounted'[r] # NoAction => RoleOf[mounted'[r]] = r
    BY <2>2 DEF MountInv
  <2>4. \A r \in Roles : mounted[r] # NoAction => mounted'[r] # NoAction
    BY <1>0, <2>2, FlowAssumption
  <2>5. \A a \in toMount[c] : RoleOf[a] # NoRole => mounted'[RoleOf[a]] # NoAction
    <3>. SUFFICES ASSUME NEW a \in toMount[c], RoleOf[a] # NoRole
                  PROVE mounted'[RoleOf[a]] # NoAction
      OBVIOUS
    <3>1. RoleOf[a] \in Roles
      BY <1>0, FlowAssumption
    <3>2. mounted'[RoleOf[a]] \in toMount[c]
      BY <2>2, <3>1
    <3>. QED
      BY <1>0, <3>2, FlowAssumption
  <2>6. \A d \in Callers : \A a \in toMount[d] : RoleOf[a] # NoRole => RoleOf[a] \in Roles
    BY <1>0, FlowAssumption
  <2>. QED
    BY <1>0, <2>1, <2>3, <2>4, <2>5, <2>6 DEF MountInv
<1>3. ASSUME NEW c \in Callers, Enter(c) PROVE MountInv'
  <2>1. /\ call[c] = "mounted" /\ call' = [call EXCEPT ![c] = "serving"]
        /\ UNCHANGED <<toMount, mounted>>
    BY <1>3 DEF Enter, Goes
  <2>2. winner' = winner \/ winner' = c
    BY <1>3 DEF Enter, Runs, AlreadyStarted, DoCanceled, DoWithoutToken, Refuse, EnterDo,
                ListenRefused, EnterListen, vars, own
  <2>. QED
    BY <1>0, <2>1, <2>2 DEF MountInv
<1>4. ASSUME NEW c \in Callers, Leave(c) PROVE MountInv'
  <2>1. /\ call[c] = "serving" /\ call' = [call EXCEPT ![c] = "returned"]
        /\ UNCHANGED <<toMount, mounted, winner>>
    BY <1>4 DEF Leave, LeaveA2A, LeaveHTTP, LeaveStdio, Leaves, Goes, vars, own
  <2>. QED
    BY <1>0, <2>1 DEF MountInv
<1>5. ASSUME UNCHANGED <<flow, winner>> PROVE MountInv'
  BY <1>5 DEF flow, MountInv
<1>6. CASE InputComes \/ \E c \in Callers : StartRead(c)
  BY <1>6 DEF InputComes, StartRead, vars, own, MountInv
<1>. QED
  BY <1>1, <1>2, <1>3, <1>4, <1>5, <1>6 DEF FlowNext, SetToken, vars, own

(* A transport that has signalled readiness answers every role its call    *)
(* resolved, by an action of that role, whatever other calls mount.        *)
THEOREM ReadyRolesAreMounted == FlowSpec => []ReadyIsMounted
<1>1. FlowInit => MountInv
  BY CallersAssumption DEF FlowInit, Init, MountInv
<1>2. FlowTypeOK /\ MountInv => ReadyIsMounted
  <2>. SUFFICES ASSUME FlowTypeOK, MountInv, NEW c \in Callers, Serves(c),
                       NEW a \in toMount[c], RoleOf[a] # NoRole
                PROVE /\ mounted[RoleOf[a]] # NoAction
                      /\ RoleOf[mounted[RoleOf[a]]] = RoleOf[a]
    BY DEF ReadyIsMounted
  <2>1. call[c] \in {"serving", "returned"}
    BY DEF Serves, MountInv
  <2>2. RoleOf[a] \in Roles
    BY FlowAssumption DEF FlowTypeOK
  <2>. QED
    BY <2>1, <2>2 DEF MountInv
<1>. QED
  BY <1>1, <1>2, MountStep, FlowTyped, FlowImplementsListeners, ListenersTyped, PTL DEF FlowSpec
=============================================================================
