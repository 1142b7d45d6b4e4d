----------------------------- MODULE McpRegistry -----------------------------
(***************************************************************************)
(* What an MCP server has to offer: the tables of Transport (package tmcp) *)
(* that the host fills, with Mount and the Register methods, while         *)
(* requests are served from them.  Each operation holds t.mu for all it    *)
(* does to the tables, and each request looks at them once under RLock.    *)
(* What an action, a resource or a prompt makes of a request is outside.   *)
(***************************************************************************)
EXTENDS Naturals, Sequences, SequencesExt

CONSTANTS
    Actions,        \* what the host mounts
    ActionName,     \* the name in the action's meta, or NoName
    BindingName,    \* the name of its first ToolBinding that has one, or NoName
    NoName,
    Executable,     \* the actions that are action.Executable
    Unencodable,    \* those whose ToolBinding has a schema json.Marshal fails on
    Batches,        \* the slices of actions Mount is called with
    HostResources,  \* what RegisterResource is called with: [uri, readable]
    HostPrompts,    \* what RegisterPrompt is called with: [name, builds]
    Host,           \* the author of HostResources, as the actions are of documents
    MaxCalls        \* bound: the calls of the host

ASSUME NamesAssumption ==
    DOMAIN ActionName = Actions /\ DOMAIN BindingName = Actions /\ Host \notin Actions
ASSUME KindsAssumption == Executable \subseteq Actions /\ Unencodable \subseteq Actions
ASSUME BatchesAssumption == Batches \subseteq Seq(Actions)
ASSUME MaxCallsAssumption == MaxCalls \in Nat

VARIABLES
    actions,    \* tool name -> action
    resources,  \* URI -> [of, readable]
    prompts,    \* prompt name -> it has a BuildPrompt
    templates,  \* the resource templates, here only how many
    calls       \* the calls of the host so far

registry == <<actions, resources, prompts, templates, calls>>

RegistryInit ==
    /\ actions = <<>> /\ resources = <<>> /\ prompts = <<>>
    /\ templates = 0
    /\ calls = 0

HostCalls == calls < MaxCalls /\ calls' = calls + 1

(* f with the values of g laid over it. *)
Over(f, g) == [k \in DOMAIN f \cup DOMAIN g |-> IF k \in DOMAIN g THEN g[k] ELSE f[k]]

-----------------------------------------------------------------------------
(* An action without a name is skipped, even when a binding names a tool;  *)
(* a binding's name goes before the action's.                              *)
ToolName(a) == IF BindingName[a] # NoName THEN BindingName[a] ELSE ActionName[a]

(* What a batch mounts: of two actions with one tool name the later.       *)
Mounted(batch) ==
    LET named == SelectSeq(batch, LAMBDA a : ActionName[a] # NoName)
        toolNames == {ToolName(named[i]) : i \in DOMAIN named}
    IN  [n \in toolNames |-> Last(SelectSeq(named, LAMBDA a : ToolName(a) = n))]

(* URIs are pairs: the documents of tools are "action://docs/<tool>".      *)
DocURI(name) == <<"docs", name>>

(* A mutant of DocsOf: the document is filed under the action's own name.  *)
BadDocsOf(tools) ==
    [uri \in {DocURI(ActionName[tools[n]]) : n \in DOMAIN tools} |->
        [of |-> CHOOSE a \in Actions : DocURI(ActionName[a]) = uri, readable |-> TRUE]]

DocsOf(tools) ==
    [uri \in {DocURI(n) : n \in DOMAIN tools} |-> [of |-> tools[uri[2]], readable |-> TRUE]]

Mount(batch) ==
    /\ HostCalls
    /\ actions' = Over(actions, Mounted(batch))
    /\ resources' = Over(resources, DocsOf(Mounted(batch)))
    /\ UNCHANGED <<prompts, templates>>

RegisterResource(r) ==
    /\ HostCalls
    /\ resources' = Over(resources, [uri \in {r.uri} |-> [of |-> Host, readable |-> r.readable]])
    /\ UNCHANGED <<actions, prompts, templates>>

RegisterPrompt(p) ==
    /\ HostCalls
    /\ prompts' = Over(prompts, [name \in {p.name} |-> p.builds])
    /\ UNCHANGED <<actions, resources, templates>>

RegisterTemplate ==
    /\ HostCalls
    /\ templates' = templates + 1
    /\ UNCHANGED <<actions, resources, prompts>>

HostStep ==
    \/ \E batch \in Batches : Mount(batch)
    \/ \E r \in HostResources : RegisterResource(r)
    \/ \E p \in HostPrompts : RegisterPrompt(p)
    \/ RegisterTemplate

-----------------------------------------------------------------------------
(* The handlers.  A class tells a result from an error, and from a result  *)
(* that will not be encoded.  Parameters that do not decode are answered   *)
(* like a key no table has.                                                *)
Listed(keys) == [class |-> "result", keys |-> keys]
Answered(found) == [class |-> IF found THEN "result" ELSE "error", keys |-> {}]

ToolsList ==
    IF \E n \in DOMAIN actions : actions[n] \in Unencodable
    THEN [class |-> "unencodable", keys |-> {}]
    ELSE Listed(DOMAIN actions)
ToolsCall(name) == Answered(name \in DOMAIN actions /\ actions[name] \in Executable)
ResourcesList == Listed(DOMAIN resources)
ResourceTemplatesList == Listed(1..templates)
ResourcesRead(uri) == Answered(uri \in DOMAIN resources /\ resources[uri].readable)
PromptsList == Listed(DOMAIN prompts)
PromptsGet(name) == Answered(name \in DOMAIN prompts /\ prompts[name])
Noop == Answered(TRUE)

(* The methods whose answers tell what is in the tables, and ping. *)
Methods == {"tools/list", "tools/call", "resources/list", "resources/templates/list",
            "resources/read", "prompts/list", "prompts/get", "ping"}

(* What the request of a method for a key (a tool, a URI, a prompt) is     *)
(* answered with.                                                          *)
Result(method, key) ==
    CASE method = "tools/list" -> ToolsList
      [] method = "tools/call" -> ToolsCall(key)
      [] method = "resources/list" -> ResourcesList
      [] method = "resources/templates/list" -> ResourceTemplatesList
      [] method = "resources/read" -> ResourcesRead(key)
      [] method = "prompts/list" -> PromptsList
      [] method = "prompts/get" -> PromptsGet(key)
      [] method = "ping" -> Noop

-----------------------------------------------------------------------------
(* However actions that share a tool name, whole batches and the host's    *)
(* own resources follow each other: every tool has a document, and it      *)
(* describes the action a call of the tool executes, unless the host put a *)
(* resource of its own in its place.                                       *)
DocsFollowTools ==
    \A n \in DOMAIN actions :
        /\ DocURI(n) \in DOMAIN resources
        /\ resources[DocURI(n)].of \in {actions[n], Host}
=============================================================================
