# Formal models of transportai

Module-by-module TLA+ models of the two transports of this repository, the
A2A agent server (`src/ta2a`) and the MCP server (`src/tmcp`), checked with TLC
and, where it says so, proved with TLAPS.  Line numbers below are those of
`src/`; `PROJECT.json` maps every definition to the lines it stands for.

## 1. The system

### Components

| component | code | state it keeps | operations |
|---|---|---|---|
| A2A task store and approval pauses | `ta2a/role_send.go`, `role_task.go`, `ta2a.go` | `tasks`, `tasksByContext`, `pendingApprovals`, `taskSeq` under `taskMu` (the counter is atomic) | `Send` (snapshot, approval state machine, execution, recording), `Get`, `Cancel`, the cleanup loop |
| A2A message stream | `ta2a/handlers.go` | the event stream of one request, `tokensStreamed`, `streamedArtifacts` | `handleStream` around `Send`, `YieldToken`, `YieldArtifact`; `handleCancel` |
| A2A webhook delivery | `ta2a/role_webhook.go` | one goroutine per stored outcome, its attempt | `dispatchWebhook` |
| A2A argument precedence | `ta2a/role_merge.go`, `helpers.go`, `role_send.go` | none | `executeWithPrecedence`, `applyAnyPayload` |
| A2A texts, templates, artifacts | `ta2a/types.go`, `role_format.go`, `helpers.go` | none | `Validate`, `normalizeMessageText`, `evaluateCompositeTemplate`; results to artifacts and text |
| A2A client | `ta2a/client.go` | the parser of one stream | `Card`, `Send`, `Get`, `Cancel`, `SendStream` |
| A2A endpoints, routes, authentication | `ta2a/handlers.go`, `http_routes.go`, `http_auth.go` | none of their own | authenticate, decode, validate, call the agent, encode |
| A2A card, roles, identity | `ta2a/role_agent.go`, `identity.go`, `options.go` | configuration | card building, copying of metadata |
| HTTP listeners | `ta2a/ta2a.go` `Do`, `tmcp/http_server.go` | `started`, `server`, a group of goroutines | start, serve, shut down |
| Flow listen actions | `ta2a/nexssflow/`, `tmcp/nexssflow/` | none of their own | `ta2a.listen`, `tmcp.listen`: resolve, mount, run, report |
| Flow modifiers | `ta2a/nexssflow/` | the bindings of a builder | `:a2a`, `:a2a_prompt`, `:a2a_triggers`, ..., `Mount` |
| MCP sessions over HTTP | `tmcp/sse.go` | `sessions`: session id -> channel of responses | `serveSSE`, `serveHTTPMessage` |
| MCP over stdio | `tmcp/tmcp.go` | none between lines | `Serve`, `dispatch` |
| MCP registry and handlers | `tmcp/tmcp.go`, `handlers_*.go` | `actions`, `resources`, `templates`, `prompts` under `mu` | `Mount`, `Register*`, list, call, read |
| MCP input schemas | `tmcp/schema.go` | none | `buildJSONSchema`, `BuildInputSchema` |

### How they interact

A client posts to an endpoint; the handler authenticates, decodes and validates,
then calls `Send`, which reads and writes the task store, runs the mounted action
(code of the host, external here) and launches a webhook goroutine for the
stored outcome once the lock is released.  The stream endpoint first picks the task id itself, passes it on
in the message's metadata, and writes events from callbacks the action calls
while it runs.  The cleanup loop shares the store's lock.  On the MCP side a
connection to `/mcp/sse` owns a channel in the session table, and posts that name
the session execute their request and push the response into that channel.  `Do`
and `ListenAndServe` own sockets and goroutine groups around all of this, and the
listen actions of Flow pipelines mount their pipelines and call them.

### What is hard

* `Send` holds no lock from its snapshot (`prepareTaskContext`, a read lock) over
  the approval state machine (a write lock) to the recording (another write
  lock): pauses, approvals, cancellations and sweeps fall in between.
* Time: tasks and approvals expire by different clocks' readings, the sweep may
  work with an old tick.
* The webhook network loses, delays and reorders; a timed out request may still
  arrive.
* Streams end early, sessions are replaced or leave while responses are on their
  way, channels are full, responses cannot be encoded or written.
* A read of stdin blocks, and no cancellation interrupts it.
* Goroutine groups must end whatever fails first, and who called them must learn
  why they ended.
* Configuration and payloads are assembled in layers (modifiers, arguments, parts,
  templates), where zero, absent and unfit values mean different things.

`PROJECT.json` lists the hazards, each at its line, with the properties for it.

## 2. Modules

| module | models | composed with |
|---|---|---|
| `Approvals` | the promise of human-in-the-loop pauses, message by message: abstract | |
| `A2ATasks` | the task store, every `Send` a process | implements `Approvals` |
| `A2AStream` | `handleStream`, its events, and `handleCancel` | extends `A2ATasks` |
| `Webhook` | the delivery goroutines and their network | launched by `A2ATasks.Launch` |
| `A2AClientStream` | `parseSSEStream` over a connection that breaks | reads what `A2AStream` writes |
| `A2ACalls` | one call end to end: client method, handler, agent, response | extends `A2AClientStream` |
| `ArgPrecedence` | the layers of an action's input, typed and untyped side by side | |
| `TaskTexts` | validation and text of a message, templates of a task | |
| `ListenerLifecycle` | what both listeners share: bind, group of goroutines, shutdown | |
| `Listeners` | the entries of `Do` and `ListenAndServe` | extends `ListenerLifecycle` |
| `FlowListen` | `ta2a.listen` and `tmcp.listen` | extends `Listeners`, implements it |
| `FlowModifiers` | the modifiers of a pipeline and the binding that is mounted | |
| `McpSessions` | `serveSSE` and `serveHTTPMessage` | |
| `McpRegistry` | `Mount`, the `Register...` methods, the handlers that read their tables | served by `McpStdio` |
| `McpStdio` | `Serve` and `dispatch` | extends `McpRegistry` |
| `JSONSchema` | `buildJSONSchema` over types that refer to one another | |
| `MC...` | small instances for TLC; `MCValues` holds the four sequential modules | |
| `...Proofs` | theorems and proofs, a module for each component; `ValuesProofs` those of `ArgPrecedence`, `FlowModifiers`, `JSONSchema` and `TaskTexts` | |

Definitions named `Bad...` stand before the definition they vary.  Each is that
definition with a plausible slip; they show that a property notices it, and no
specification uses them.

### A2ATasks

A call is one `Send` and also stands for its message.  Its `pc` follows the lock
regions of the code:

| state | code |
|---|---|
| `idle` -> `opened` (`OpenStream`) | `handleStream` looks up or allocates the id, lines 162-171 |
| -> `hitl` or `executing` (`Prepare`) or `refused` (`RefuseRole`) | role lookup, `prepareTaskContext` |
| `hitl` -> ... (`Approve`, `Reject`, `RefuseUndecided`, `RefuseAnswer`, `RefuseExpired`, `Pause`, `Proceed`) | the branches of `applyHITLState`, each under one `taskMu.Lock` |
| `executing` -> `recording` (`Execute`) | the action and `buildTaskResult` |
| `recording` -> `recorded` (`Record`) | `recordTask`, under `taskMu.Lock`; without a callback `finished` at once |
| `recorded` -> `finished` (`Announce`) | the lock is released; `go dispatchWebhook`, lines 89-91 |

`loc` is what `Send` carries in local variables from its snapshot: this is where
the interleavings bite.  `Cancel`, `Sweep` and `Tick` run beside the calls.
`Sweep(tick)` takes any past tick because the loop may wait for the lock.

Abstractions: a message is its role, context, callback, whether it came by the
stream endpoint, and what its text is to the approval protocol (`approve`,
`reject`, a trigger word, other).  The comparison in the code is with `msg.Text`
only, so a trigger word inside a part counts as "other".  Task ids are numbers;
a client may use one as a context id, and may name one in the metadata of a
direct message, as the code allows (`NamedID`).  `taskSeq.Add` happens
right after the read lock is released; as no step reads the counter and the
store together, it is merged with the snapshot.  Results and artifacts
are left to `A2AStream`.  Left out: an action that returns a `Task` of its own, and
mounting roles while messages are sent.  `Get` and `Validate` change nothing.

### A2AStream

Adds to `A2ATasks` the sequence of events of each stream, the chunks and artifacts
the running action yields, one by one and as often as it likes, and its result (a
list of artifacts, which may name one twice; some text or none; an error).  `Open` is
the announcement.  After `Send` the handler writes event by event, and other calls
run in between: `CloseWithError`, or `WriteText`, one `WriteArtifact` for each
artifact the task lists (written only if that name was not streamed), and `Complete`.
`handler` says where it is, `looked` how far its loop has come.  Artifacts are told
apart by name, as in the code.  An action yields from one goroutine.

`CancelTask` (or `CancelUnknown`) and `AnswerCancel` are the two lock regions of
`handleCancel`, the cancellation and the `Get` after it; a Send, another cancellation
or a sweep may fall between them.  One such request is followed at a time: what it is
answered depends on the store alone, and other requests act on the store as the plain
`Cancel` of `A2ATasks`, which runs beside it.

### Webhook

One process per goroutine: `posting`, `waiting`, `sleeping` between at most three
attempts.  The network is a set of requests and a set of answers; the receiver
takes them in any order and accepts or refuses.  `GiveUpWaiting` is the five-second
timeout, after which the request may still arrive.  Each request carries its
number (`X-A2a-Delivery-Attempt`).

### A2AClientStream and A2ACalls

The wire is a sequence of lines (`event:`, `data:`, blank).  The connection ends
with an EOF or an error after any line; a line cut in the middle is dropped by
`ReadString`'s error.  The callback may be absent or return an error.

`A2ACalls` puts this into one call of any of the five methods.  `server` is where
the handler is: it authenticates (token of the environment, verifier of the host),
decodes and validates, then runs the agent, each refusal being an answer of its
own.  `reply` is the response it wrote, which the client may or may not get:
`Fail` is a request that does not get through, a response that does not come back,
a context that ends; `Timeout` is `http.Client.Timeout`, which `SendStream` sets to
zero.  The server goes on in any case.  What the agent does is only that it ran
and what it returned.

### ArgPrecedence and TaskTexts

`DefaultArgs`, data parts in order, text, `Args`: one action per layer, applied to
a typed request (a record of fields) and to an untyped payload (a map) side by
side.  The constant `Held[f]` says what a field makes of a JSON value: fractions
are cut by integer fields, values a field cannot take are refused (outside the
domain) and the field stays as it was.

`TaskTexts` walks over the parts of a message, for `Validate` and for
`normalizeMessageText`, and replaces the placeholders of a template spelling by
spelling, in any order.  A text is a sequence of tokens; a value that was filled in
may look like a placeholder.

### ListenerLifecycle, Listeners and FlowListen

`protocol` is `a2a` or `mcp` and never changes.  The two listeners differ in their
entry (`Do` starts once, under `startMu`; `ListenAndServe` checks address, context
and token), in the cleanup loop, and in whether a shutdown that timed out is an
error.  The environment cancels the context, makes `Serve` fail, and sends
requests that may last for ever.

`FlowListen` adds the listen actions: `Resolve` (named endpoints, or all a resolver
can list), `MountAll`, `Enter` into the listener, `Leave` with what the listener
returned.  Two calls of `ta2a.listen` race for one transport; the refused one has
mounted its roles by then.  A behaviour has one call of `tmcp.listen`, over HTTP or,
without an address, over stdio.  There `stdin` says how far `Serve` is: it looks at
the context (`StartRead`), then reads; the environment lets the read return a line,
the end or a failure (`InputComes`), or never; `LeaveStdio` returns only past such a read, or
before the next one when the context is done.  What `Serve` does with the lines is in
`McpStdio`.  `ta2a.listen` drops an error that is `context.Canceled`, `tmcp.listen` any
error once its context is done; the context ends by cancellation or deadline.

### FlowModifiers and JSONSchema

A builder holds bindings; each modifier reads the first one, copies it and routes
the copy, and `HITLConfig` is shared by pointer (`configs` is the heap).  Whether
`Builder.Route`, which is not in this repository, keeps an earlier binding beside
the new one is a parameter of each behaviour.  `Mounted` is what `Mount` takes.

`JSONSchema` is the depth-first walk of `buildJSONSchemaVisited` with its frames and its
one shared map of types being visited.  A schema is the set of its nodes.

### McpSessions

Connections, each with the session id it read from the clock (two may read the
same), its channel and what it has written; posts, from dispatch over the lookup
to the send, which may block, time out or be aborted.  A body that is no JSON request
is refused first (`RefuseBody`).  `Emit` takes a response from the channel and writes
it, or drops it when `json.Marshal` fails (`Unencodable`: the host gave a tool
an input schema of a type JSON has no form for); its post was answered 202 by then.

### McpRegistry and McpStdio

`McpRegistry` has the tables the host fills: `actions` by tool name, `resources`
by URI, `prompts`, and the number of `templates`.  `Mount` is one step, as the code
holds `t.mu` for the whole batch, and writes for each named action both the tool
and its document.  Each handler (`ToolsList`, `ResourcesRead`, ...) looks at one
table once, so it is a value of the current tables.  A resource remembers whose it
is (an action's, or the host's own), a prompt whether it can be built.  An action may
lack `Executable`, and one in `Unencodable` makes the list of tools a result that no encoder
takes.  Parameters that do not decode are answered like a key no table has: with
an error.  Left out:
the log level and the completion resolver (single values nothing else reads), and
the failures of actions, resources and prompts that are the host's code.

`McpStdio` reads lines of five forms (blank, unparsable, a notification, a request
that `dispatch` refuses, a request), one after the other, possibly together with the
end of the input; host calls fall between any two steps.  `unread` counts the lines
written and not read; what a line says is chosen when it is read, which is the same
to everyone, as nobody else reads it.  `Answer` is what `dispatch` answers.
`writeSafe` ignores the error of `Encode`: an answer that cannot be encoded is lost
alone, and once stdout is broken (`BreakStdout`, any moment) every answer is.  `lost` keeps
the lines concerned, with the reason, and `Serve` goes on.

## 3. Runs

All runs are exhaustive on their instance.  The largest reach 1.8 million distinct states
(`stream` 1,775,883, `tasks_mixed` 1,658,452, `mcp_stdio` 1,348,312), `tasks_serial` 488,662,
`tasks_race` 409,562, `flow_listen` 324,560, `mcp_sessions` 52,276.

| run | instance | shows |
|---|---|---|
| `tasks_race` | 4 Sends, 3 at a time, on one context: triggers, approvals, rejections; cancellations, one step of the clock beyond the TTL, sweeps | a pause is answered at most once, nothing guarded runs unapproved, the store implements `Approvals` |
| `tasks_mixed` | 3 Sends, 2 at a time, guarded, plain, unmounted, with callbacks and with task ids of their own; cancellations, clock 0, 1, 2, sweeps | types; transitions tell the status; contexts do not meet in one task; the context index never dangles while no task id is used as a context; stored outcomes are announced, in spite of the step between |
| `tasks_serial` | 3 Sends one at a time, by context and by task id; cancellations, clock 0, 1, 2, sweeps | paused tasks are answerable, approvals continue the paused task, contexts and approvals are kept until answered or expired, and expired ones leave |
| `v_resume`, `v_continuation` | 4 and 3 Sends, 2 at a time | the findings below |
| `stream` | 2 calls: streaming without a context or guarded on one, or a direct call beside them; one artifact, returned twice or not at all, up to 2 chunks and artifacts yielded; a cancellation request and others beside it, one step of the clock, sweeps | exactly one closing event by the time a handler is back, what was yielded is not sent again, the announced id is kept, what a cancellation is answered |
| `webhook` | 2 deliveries, 3 attempts | delivered was accepted, deliveries end |
| `client` | any method, request, credential and verdict; 3 events cut anywhere | what the callback hears is what was written (the last call may miss its data after a clean end), answers are true, calls return |
| `values` | two fields and five JSON values; pipelines of 4 modifiers; all pairs of types of up to 2 fields; messages of parts, templates | the highest layer wins and typed and untyped agree; an approval survives its pipeline; a schema unfolds its type; a text keeps its parts; templates are filled in |
| `flow_listen` | 2 calls of `ta2a.listen` or one of `tmcp.listen`, 3 pipelines, one role, one request; reads of stdin that return or not | nothing is left running, ready roles are mounted, only a cancellation (over stdio also the end of the input) is quiet, one start, calls return when they are over |
| `mcp_sessions` | 2 connections, 2 ids, 3 posts (a request, one whose response cannot be encoded, a notification), capacity 1 | responses reach the session they are for, once; no session leaks; accepted responses that can be encoded are written, by a replaced connection too; posts end |
| `mcp_stdio` | 3 lines, 2 unread; 2 calls of the host out of two batches, a resource, a prompt, a template; a tool that cannot be listed, one that cannot be called; stdout breaks at any moment | answers in order, one each but for those lost to an encoding or a broken stdout; at most one line after a cancellation, ended input is served, documents follow their tools |

### Bounds and why they are enough

* `MaxInFlight` is how many Sends overlap.  Races of approvals need a pause and two
  answers in flight, and a fourth call to pause again once one returned: three of
  four.  The races between snapshot and recording need two.  The promises of `tasks_serial` hold only
  without overlap (this is what the findings show), so it has one.
* `MaxHistory` 2 and `MaxTransitions` 3 (8 and larger in the code) are reached by
  three messages and a cancellation.
* `TTL` 1 and `Times` 0, 1, 2: a task can be touched after another one or an approval
  of the same context, and still outlive it.  `tasks_race` and `stream` read the
  clock as 0 or 2 only, before the TTL or past it.  The clock stops at its last
  reading; `PendingLeaves` is about approvals young enough to expire before.
* `Capacity` 1 instead of 16: full and empty channels are both met with three posts.
* `MaxAttempts` is the 3 of the code.  `MaxEvents` 3 and `MaxParts` 2 let every case
  happen more than once.  `MaxYields` 2: an artifact twice, a chunk and an artifact, two
  chunks; results list an artifact twice or none.  `MaxRequests` 1 tells none from some, which is
  all a shutdown looks at.
* `MaxModifiers` 4: a role, a trigger list, a prompt and one that comes between or
  starts over.  Two struct types with two fields each recurse directly, through one
  another, and through lists.
* `MaxLines` 3: a list, a call and a read of what it showed.  `MaxCalls` 2 puts two batches,
  or a batch and a resource of the host, in both orders; the batches hold two actions
  of one tool name, in one batch and apart, and an action without a name; the tool
  that wins may be the one whose schema has no JSON form.  The
  run's clients list, call and read a tool; the other requests have no property that
  needs them.
* `SYMMETRY` over calls is used in runs of invariants, action properties and the
  refinement without fairness only.

`CHECK_DEADLOCK FALSE` stands where a behaviour ends: all deliveries made, input
read, calls returned.  The runs of the task store and of the stream keep the
deadlock check: a sweep is always possible.

### Fairness

* `A2ATasks`: the clock ticks and the cleanup loop sweeps with a fresh tick
  (a `time.Ticker`); no Send is forced to progress.
* `Webhook`: each goroutine runs; a request ends by its timeout and a sleep ends.
* `A2ACalls`: the client reads a head, a line or an end that is there, and its timer
  fires; neither server nor network is forced to anything.
* `FlowListen`: each call and the goroutines of the listener run, `Listen` and
  `Shutdown` return (the latter has a timeout); nobody is forced to cancel, and
  requests need not end.  Nothing makes a read of stdin return: `tmcp.go:164-166` says
  that a cancellation does not.  `ListenCallReturns` therefore lets a call over stdio sit in a
  read for ever, canceled or not, and promises its return only once its input has ended or
  failed, or when the context is done at a look between two lines.
* `McpSessions`: handlers run, the five seconds of a blocked post end; no client
  is forced to open, leave or post.
* `McpStdio`: `Serve` runs when a line or the end of the input is there.

## 4. Proofs

| theorem | statement | module |
|---|---|---|
| `TypeCorrect` | `Spec => []TypeOK` | `A2ATasksProofs` |
| `PausesResolvedOnce` | `Spec => []ResolvedOnce` | `A2ATasksProofs` |
| `GuardedRunsAreApproved` | `Spec => []OnlyApprovedRun` | `A2ATasksProofs` |
| `StoreKeepsThePromise` | `Spec => ImplementsApprovals` | `A2ATasksProofs` |
| `TransitionsAreAStory` | `Spec => []TransitionsTellTheStatus` | `A2ATasksProofs` |
| `RecordsStayBounded` | `Spec => []RecordBounded` | `A2ATasksProofs` |
| `OutcomesAreAnnounced` | `Spec => []OutcomeAnnounced` | `A2ATasksProofs` |
| `ContextsStayApart` | `Spec => []ContextsIsolated` | `A2ATasksProofs` |
| `IndexIsSound` | `Spec => []IndexedTaskExists` | `A2ATasksProofs` |
| `SerialApprovalsResume` | `MaxInFlight = 1 /\ Spec /\ []NoIdGuessed => []ApprovalResumesPausedTask` | `A2ATasksProofs` |
| `SerialContextsContinue` | `MaxInFlight = 1 /\ Spec /\ []NoIdGuessed => ContinuationKept` | `A2ATasksProofs` |
| `SerialPausesAnswerable` | the same premises and `"input-required" \notin Outcomes`, `=> []PausedIsAnswerable` | `A2ATasksProofs` |
| `StreamImplementsStore` | `StreamSpec => Spec` (that of `A2ATasks`) | `A2AStreamProofs` |
| `StreamsAreWellFormed` | `StreamSpec => []StreamGrammar` | `A2AStreamProofs` |
| `ArtifactsArriveOnce` | `StreamSpec => []ArtifactsOnce` | `A2AStreamProofs` |
| `AnnouncedIdsAreKept` | `StreamSpec => []AnnouncedIdKept` | `A2AStreamProofs` |
| `CancellationsAreAnswered` | `StreamSpec => []CancelAnswered` | `A2AStreamProofs` |
| `AdaptersAgree` | `Spec => []UntypedAgreesWithTyped` | `ValuesProofs` |
| `LastLayerWins` | `Spec => []HighestLayerWins` | `ValuesProofs` |
| `ApprovalsAreMounted` | `ModifiersInit /\ [][ModifiersNext]_modifierVars => []ApprovalSurvives` | `ValuesProofs` |
| `SchemasUnfold` | `SchemaInit /\ [][SchemaNext]_schemaVars => []SchemaUnfolds` | `ValuesProofs` |
| `TextKeepsAllParts` | `TextsInit /\ [][TextsNext]_textVars => []TextKeepsParts` | `ValuesProofs` |
| `TemplatesAreFilledIn` | `TextsInit /\ [][TextsNext]_textVars => []FilledIn` | `ValuesProofs` |
| `DeliveriesTyped` | `Spec => []TypeOK` | `WebhookProofs` |
| `DeliveredAreAccepted` | `Spec => []DeliveredWasAccepted` | `WebhookProofs` |
| `AttemptsAreNumbered` | `Spec => []AttemptsNumbered` | `WebhookProofs` |
| `DeliveriesRunOut` | `Spec => []` (`StepsLeft` is zero exactly at an end) `/\ [][RunsOut]_vars` | `WebhookProofs` |
| `ListenersTyped` | `Spec => []ListenersTypeOK` | `FlowListenProofs` |
| `NothingLeftRunning` | `Spec => []ReturnedMeansStopped` | `FlowListenProofs` |
| `ReturnsAReason` | `Spec => []EndsWithReason` | `FlowListenProofs` |
| `OneStart` | `Spec => StartsOnce` | `FlowListenProofs` |
| `ListenersRunOut` | `Spec => []` (`RunLeft` is zero exactly on return) `/\ [][RunUsed]_vars` | `FlowListenProofs` |
| `FlowImplementsListeners` | `FlowSpec => Spec` (that of `Listeners`) | `FlowListenProofs` |
| `QuietEnds` | `FlowSpec => []QuietOnlyWhenCanceled` | `FlowListenProofs` |
| `ReadyRolesAreMounted` | `FlowSpec => []ReadyIsMounted` | `FlowListenProofs` |
| `CallersAreToldTheTruth` | `CallsSpec => []AnswerIsTrue` | `A2ACallsProofs` |
| `StreamsAreHeardAsWritten` | `CallsSpec => []HeardAsWritten` | `A2ACallsProofs` |
| `EndedStreamsAreReadOut` | `CallsSpec => []` (`LinesLeft` is zero exactly on return) `/\ [][StreamReadOut]_allVars` | `A2ACallsProofs` |
| `SessionsTyped` | `Spec => []TypeOK` | `McpSessionsProofs` |
| `ResponsesReachTheirSession` | `Spec => []DeliveredOnceToAddressee` | `McpSessionsProofs` |
| `TableIsClean` | `Spec => []NoSessionLeaks` | `McpSessionsProofs` |
| `AcceptedIsNotDropped` | `Spec => []AcceptedIsOnItsWay` | `McpSessionsProofs` |
| `SuccessorsAreSafe` | `Spec => SessionEndsWithItsOwner` | `McpSessionsProofs` |
| `StreamsKeepOrder` | `Spec => [][KeptOrder]_vars` | `McpSessionsProofs` |
| `DocumentsAreOfTheirTools` | `Spec => []DocsFollowTools` | `McpStdioProofs` |
| `CancellationIsPrompt` | `Spec => []OneLineAfterCancel` | `McpStdioProofs` |
| `AnswersPairWithLines` | `Spec => []OneAnswerEach` | `McpStdioProofs` |
| `InputIsServedToItsEnd` | `Spec => []ServedToTheEnd /\ []` (`ServeLeft` is zero exactly on return) `/\ [][ServeRunsOut]_vars` | `McpStdioProofs` |

The theorems hold for every value of the constants that satisfies the named
assumptions of the module and of those it extends: sentinels are no members of the
sets they stand out of, bounds are natural numbers, statuses are statuses, error
kinds are none of the words that stand for something else, a context
in `Contexts` is no task id (clients that use a task id as a context are in `Keys`), the
struct types of a program are finitely many, a result that failed lists no artifact, those that
cannot be executed or encoded are among the actions or posts, a request that
`dispatch` takes is one of `Methods`.  Thus for all calls,
contexts, roles and bounds of `A2ATasks` and `A2AStream`; all fields, values, sources and messages
of `ArgPrecedence`; pipelines of any length; all struct types, recursive in any way;
all deliveries, callers, connections, posts, batches and lines of the others;
streams of any length.

The type invariants of `Webhook` and `Listeners`, `AttemptsNumbered`,
`EndsWithReason`, `RecordBounded`, and of `McpSessions` its type invariant,
`AcceptedIsOnItsWay` and `SessionEndsWithItsOwner` are proved instead of run.

### The task store

* `TypeCorrect`: the type invariant is inductive once an executing call is known
  to carry a task id and a task's transitions are known not to be empty; the
  lemmas about `Put`, `Without` and `Trim` say what these do to the domains and
  lengths.
* `PausesResolvedOnce`: `ResolvedOnce` alone is not inductive.  `ApprovalInv` adds
  that a waiting message is that of a paused call, that no two keys hold the same
  message, and that a message somebody took is paused too: a message enters the
  table only from its own `hitl` step, so never again after it was taken.
* `GuardedRunsAreApproved` follows from the same invariant: a call reaches the
  action by `Proceed` (text "other"), by `Approve`, or from a role without approval.
* `StoreKeepsThePromise` is a refinement: `PhaseOf` reads off `pc`, `took` and the table
  which phase of `Approvals` a message is in.  `ApprovalInv` makes the cases of `PhaseOf`
  exclude each other: `Stands` gives the phase case by case (`PhaseCases`), in the state
  before a step and in the one after, and each action of the store is one of `Approvals` or a stutter.
* `TransitionsAreAStory`, `RecordsStayBounded`: `RecordInv` says of each stored task and of
  each `loc` in flight that its transitions are linked and where they end, and how
  long they and the history are.  A call in flight needs it because its story is
  stored later, over whatever the store says by then.  `Trim` keeps a suffix, which is
  linked and ends where the whole did.
* `OutcomesAreAnnounced`: inductive, with the Send between its two steps as part of it
  (`AboutToAnnounce`): `loc` of a call that has recorded does not change until it announces,
  from that copy, whatever has become of the stored task; a cancellation launches under
  the lock that stores it.

* `ContextsStayApart`, `IndexIsSound`: `ContextsIsolated` says nothing of a Send in flight,
  which records a task from its snapshot later.  `IsolationInv` therefore speaks of
  all that ties a task id to a context (`Binds`): the index, the stored record and the
  messages in its history, the call that will record it, the stream that has
  announced it; all of one id name one context, and the id has been handed
  out.  `KeyInv` adds that an answer is of the context of the message it took, `SeenInv`
  that no message is kept before it was sent.  Ids that clients name themselves are
  excepted, as in the property.  The index is sound while no client uses a task id as
  its context (`NoIdAsContext`): a task without a context can be continued by its id, and
  then its record and the index say different things of it.
* `SerialApprovalsResume`, `SerialContextsContinue`, `SerialPausesAnswerable`: `SerialInv` says that
  the stored task of a context is the one the index leads to, that a pause in the
  table is stored and no older than its record, and that the Send which runs works
  on both.  Their premises are what the code needs.  `MaxInFlight = 1`: with two the
  runs `v_resume` and `v_continuation` refute the conclusions, which are the findings.
  `NoIdGuessed`: a context that is a task id leads to the task of that id, which
  fails only if a client used the id before it was handed out or after the task
  was gone.  `"input-required" \notin Outcomes`: `buildTaskResult` lets an
  action return a task with any status, and one that says `input-required` by itself has no
  approval in the table.

### The stream

* `StreamImplementsStore`: each step of the stream is a step of the store or leaves its
  variables alone, so all theorems of `A2ATasks` without premises of their own hold of it;
  the following use its type invariant.
* The next three share `StreamInv`, of four parts.  `Order`: which events may stand where.
  `Course`: how far the handler is, and that it is back exactly if a closing event is the
  last.  `Carried`: how often each name was written, yielded and listed up to where the loop
  is (`CountAppended` and `CountNext` move the counts along).  `Announced`: a Send of a message
  without a context has the announced id in `loc` from its snapshot on.  `HandlerKinds` sorts the
  steps: each is silent for a stream or adds one event to it at a known place
  of its handler, and one lemma `...Keeps` for each kind preserves the parts.
* `CancellationsAreAnswered`: `OnlySendsRevive` shows of the whole store that a step after which
  a task is stored and not canceled, and was not so before, is a Send recording it.
  `CancelInv` keeps that such a Send had not recorded when the cancellation took effect.
  It may have begun since: a message that continues a canceled task runs it again.

### The others

* `AdaptersAgree`: `Agreement` keeps, layer by layer, that the typed fields equal the
  keys of the payload.  `SameGiven` is the heart: what one source gives to both.
* `LastLayerWins`: `Precedence` says of each layer, by its own steps, what the layers so
  far left in a field; `LayersOneByOne` takes the concatenation of layers apart, whose
  number depends on the data parts.
* `ApprovalsAreMounted`: `BuilderInv` says that every binding of a builder that keeps one,
  and the config all bindings share after a leading approval modifier, say what the
  modifiers so far meant.  The last modifier of a kind is a maximum
  over a list, which `LastOfAppended` moves along when the list grows.
* `SchemasUnfold`: the schema at the end is right because the walk is right on the way.
  `FramesOK`: the frames are nested paths of different types, those being visited, so
  there are no more than types.  `Joint`: every struct written above the place the
  walk is at is the struct of a frame, and nothing is written beyond the fields the
  frames have taken; so a type is being visited exactly if a node above has it
  (`NodesOK`).  `Children`: the fields taken so far are written once with their types; a
  frame is left when all are.  `Ready` is what a call of
  `buildJSONSchemaVisited` finds, and the four lemmas `VisitKeeps...` what it leaves.
* `TextKeepsAllParts` and `TemplatesAreFilledIn`: a text is put together a part, or a key, at
  a time, and the properties compare it with `FlattenSeq` of a sequence, which the library
  defines by recursion.  The induction is on a set of lengths, not on an operator:
  `SetInduction` takes a least element from a non-empty set of naturals, `SeqInduction`
  carries that to sequences, and `FlattenAppend` makes `FlattenSeq` of one sequence more a
  concatenation.  From there `Content`, `Tokens` and `Spread` (one token replaced by
  several, everywhere) distribute over what they are applied to.  The invariants are
  `Gathered` (the text says what the parts done so far say) and `Pieces` (the output is
  the template with the keys done so far spread out); that the keys can come in any order
  is `SpreadTwice`: no value holds a placeholder, so one pass after the other is one pass.
* `DeliveredAreAccepted` and `AttemptsAreNumbered`: the invariant adds that a goroutine
  about to post has nothing of its attempt on the network or at the receiver yet,
  and that numbers never exceed the attempts made.
* `NothingLeftRunning` and `ReturnsAReason`: `BeforeGroup` and `InGroup` tie each goroutine
  to the stage of the call and to what made the watcher move (a draining watcher
  knows of a cancellation, one that left of an error).  `Wait` then finds everything
  ended, with a reason.
* `OneStart`: somebody runs the transport only once `started` is set, and nobody enters
  with it set.
* `ListenersRunOut`, `DeliveriesRunOut`, `EndedStreamsAreReadOut`, `InputIsServedToItsEnd` (its second
  and third part) say of a liveness property what no fairness is needed for: a
  number of steps left, zero exactly where the activity has returned, which each step of its own
  makes smaller and no other step makes larger.  Nothing can then go on for ever;
  that an activity which has not returned can take a step, and takes it, stays with the runs.  The
  ranks need the invariants: no goroutine of a group runs before the group, no line
  comes on a connection that has ended.
* `FlowImplementsListeners`: each action of `FlowListen` is an action of `Listeners` or
  changes none of its variables, so the theorems about `Listeners` hold of it as well, and
  the next two use them.
* `QuietEnds`: `QuietInv` adds that a quiet call has returned, together with the listener
  it served, and that over stdio there is one call (`OneStdioCall`), so that no other moves
  the `stdin` it left at its end; `ResultTells`, proved of `Listeners`, says that a listener with a result has
  returned and that the result "canceled" comes from a group without an error.
* `ReadyRolesAreMounted`: `MountInv` says that a call which has mounted left an action at
  each of its roles.  Other calls replace actions by actions of the same role, and
  none removes one.
* `CallersAreToldTheTruth`: `HandlerInv` says what the handler has established at each
  place, `ReplyInv` what a response of a call that is no stream may be, `ResultInv` that
  such a call returns the response or that it does not know.
* `StreamsAreHeardAsWritten`: `HearInv` names the line the reader waits for.  The lines on
  the wire are a chain that starts there (`OnTheWire`), each determined by the one
  before it (`Follows`), and the parser holds the part of that event before the line
  (`Parsed`).  Writing lengthens the chain at its end, a failure cuts it, reading
  moves its start.
* The theorems of `McpSessions` share one invariant: `Owners` (a session in the table
  belongs to a connection that has not returned and was given that id), `Routes` (a
  post sends to a connection with the id it named), `Deliveries` (what went into a
  channel was accepted for it, once), `Lost` (what was accepted and can be
  encoded is in the channel or was written).
* `StreamsKeepOrder`: what went through a connection (written, then waiting) is extended by an
  accepted post and by nothing else; a write moves its boundary, and a response that cannot be
  encoded is taken out at the boundary (`Dropped`, `DropThrough`).
* `DocumentsAreOfTheirTools`: `DocsFollowTools` is inductive by itself.  `MountKeepsDocs`
  shows it for any function of tools laid over the tables, thus without looking at
  how a batch resolves its duplicates; URIs of different tools differ.
* `AnswersPairWithLines`: `AnswersInv` is the property for the lines handled so far, of which
  the last line is one only after its answer was written or lost (`Settled`); what is lost to
  a broken stdout stands behind all that was written, as it never mends.  `EveryRequestAnswered` says that each method gives one
  result or one error, whatever the host has registered by then.
* `CancellationIsPrompt`: a line read after the cancellation leaves `Serve` outside of
  `reading`, and `Check` does not let it back.

### What is model-checked only

Liveness under fairness is out of the prover's reach: `PendingLeaves`, `DeliveryEnds`,
`CallReturns`, `ListenCallReturns`, `PostsEnd`, `AcceptedIsWritten`, `EndedInputIsServed`.  Of
`DeliveryEnds`, `EndedInputIsServed`, the second half of `CallReturns` and the listener's part of
`ListenCallReturns` the safety half is proved (a rank that only shrinks, see above), and of
`AcceptedIsWritten` that nothing overtakes an accepted response (`StreamsKeepOrder`).

Every other property of a run is a theorem.  The two `v_` runs refute, for overlapping
Sends, what the serial theorems prove without overlap.

## 5. Findings

* **An approval may continue the wrong task** (`v_resume`, `role_send.go:36`).  The task
  id, history and transitions an approval works with come from the snapshot
  before the lock of `applyHITLState`.  When the pause is recorded in between, the
  approval executes the paused message under a new task id, and the paused task
  stays `input-required`.  The comment at `role_send.go:99` says the state machine
  runs under a single lock "to avoid TOCTOU between pause/approve/reject".  The
  same snapshot makes `role_send.go:164` call an approval expired that was just
  given.
* **A sweep makes a context forget a live task** (`v_continuation`, `ta2a.go:285`).  Two
  concurrent messages of a new context make two tasks; when the older one expires,
  the context entry and the pending approval are deleted although they belong to the
  younger one.  `README.md:80` promises continuation by `contextId`.

Observed, without a text that says otherwise: a pause and a rejection append the
message to an already trimmed history, so nine messages are stored with
`maxTaskHistory` 8 (`RecordBounded` says "one more"); a cancellation between the
snapshot and the recording of a Send is overwritten; canceling a paused task leaves
its approval in the table; an unknown MCP session answers 404 after its request
was executed; a response accepted with 202 is lost if its connection leaves, or if it cannot be
encoded (`sse.go:85-88`).  `tmcp.go:208` comments that a failed write to stdout is terminal: `Serve`
itself goes on and executes the requests that follow without an answer
(`OneAnswerEach` says which are lost).  With `os.Stdout` a closed pipe ends the process by
SIGPIPE, so there the comment holds; over any other `io.Writer`, or a full disk, it does not.
After a crash of the server (`ta2a.go:226-230`) `Do` returns without closing the connections, so
handlers of requests may outlive it: `ReturnedMeansStopped` is about the goroutines and the socket
of the group, not about them.

## 6. Not modelled

* Agent card, roles, identity and options: configuration copied into a document or a
  context, one field at a time.
* `autoExtractArtifacts` and `formatAgentResult`: they choose by the Go type of a
  result and format it by reflection.  That a result has artifacts or text is a
  choice of the action in `A2AStream`.
* What a field makes of one JSON value (`assignReflect` and the external
  `action.Assign`): the constant `Held` of `ArgPrecedence`.
* `BuildInputSchema`: a loop over the fields of one struct.
* The bundles of `src/nexssflow`: wiring without state.
* The check of the token in each MCP request: request-local.  Its presence at start is
  in `Listeners`; the A2A check is in `A2ACalls`.
* `tokensStreamed`, and the writer of a stream, under an action that yields from
  goroutines it does not wait for: a data race whose outcomes depend on the host's
  action.
* An action that returns a `Task` of its own, and mounting roles while messages are sent.
* The log level and the completion resolver of MCP, and failures of the host's
  resources, prompts and actions there.
* What the Go runtime does to a process whose stdout is a closed pipe (SIGPIPE).
* The five A2A handlers apart: `A2ACalls` has one path for them.  They differ in what they
  decode and call, not in their order; a slip in a single one would be seen as one of that path.
* Two requests to `/tasks/cancel` followed to their answers at once (see `A2AStream`).

## 7. Plan

All of the plan is done: the task store with its abstract promise, the stream,
webhooks, sessions, listeners, stdio and the registry, the client and the call around
it, argument precedence, the Flow actions and modifiers, schemas, texts and templates,
and the proofs of section 4.

What could be added:

1. Runs with several guarded roles on one context (a pending approval is keyed by
   context, not by role); the constants of `A2ATasks` allow them.
2. `BuildInputSchema` and the formatting of results, if they gain state or recursion.
