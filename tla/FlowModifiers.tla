--------------------------- MODULE FlowModifiers ---------------------------
(***************************************************************************)
(* The A2A modifiers of a Flow pipeline: each of them reads the bindings   *)
(* the builder has so far and routes another one, and Mount then takes, of *)
(* each role, the last.  A binding refers to its HITLConfig by pointer, so *)
(* bindings derived from one another share it.                             *)
(*                                                                         *)
(* Builder.Route is external: whether it keeps an earlier binding of the   *)
(* same type beside the new one is a parameter of each behaviour.          *)
(***************************************************************************)
EXTENDS Naturals, Sequences, FiniteSetsExt

CONSTANTS
    Roles,         \* role names
    NoRole,        \* the empty name
    Triggers,      \* lists of trigger words, NoTriggers among them
    NoTriggers,    \* the empty list
    Strings,       \* prompts, artifact names, MIME types and templates
    NoString,      \* the empty one
    MaxModifiers   \* bound: the modifiers of a pipeline

ASSUME ModifiersAssumption ==
    /\ NoRole \notin Roles
    /\ NoTriggers \in Triggers
    /\ NoString \in Strings
    /\ MaxModifiers \in Nat

VARIABLES
    routeKeeps,  \* Route keeps an earlier AgentBinding
    actionName,  \* Meta.Name of the pipeline
    applied,     \* the modifiers applied so far
    bindings,    \* the AgentBindings of the builder
    configs      \* the HITLConfigs allocated so far; a pointer is an index

modifierVars == <<routeKeeps, actionName, applied, bindings, configs>>

Nil == 0
NewBinding(role) == [role |-> role, hitl |-> Nil, artifact |-> NoString,
                     mime |-> NoString, summary |-> NoString]
NewConfig == [triggers |-> NoTriggers, prompt |-> NoString]

(* :a2a_artifact, :a2a_mime and :a2a_summary each set a field. *)
Plain == {"artifact", "mime", "summary"}

Modifier ==
    [name : {"a2a"}, role : Roles]
    \cup [name : {"prompt"} \cup Plain, value : Strings]
    \cup [name : {"triggers"}, value : Triggers]
    \cup [name : {"approval"}, role : Roles, triggers : Triggers \ {NoTriggers},
          prompt : Strings \ {NoString}]

-----------------------------------------------------------------------------
ModifiersInit ==
    /\ routeKeeps \in BOOLEAN
    /\ actionName \in Roles \cup {NoRole}
    /\ applied = <<>>
    /\ bindings = <<>>
    /\ configs = <<>>

Route(b) == bindings' = IF routeKeeps THEN Append(bindings, b) ELSE <<b>>

(* updateExistingOrNewBinding starts from the first binding. *)
Current == IF bindings = <<>> THEN NewBinding(actionName) ELSE bindings[1]

(* :a2a starts over. *)
ApplyA2A(m) ==
    /\ m.name = "a2a"
    /\ Route(NewBinding(m.role))
    /\ UNCHANGED configs

(* A mutant of ApplyHITL: the pointer is not tested for nil. *)
BadApplyHITL(m) ==
    /\ m.name \in {"prompt", "triggers"}
    /\ configs' = Append(configs, [NewConfig EXCEPT ![m.name] = m.value])
    /\ Route([Current EXCEPT !.hitl = Len(configs) + 1])

(* :a2a_prompt and :a2a_triggers write through the pointer, or allocate.   *)
ApplyHITL(m) ==
    /\ m.name \in {"prompt", "triggers"}
    /\ \/ /\ Current.hitl = Nil
          /\ configs' = Append(configs, [NewConfig EXCEPT ![m.name] = m.value])
          /\ Route([Current EXCEPT !.hitl = Len(configs) + 1])
       \/ /\ Current.hitl # Nil
          /\ configs' = [configs EXCEPT ![Current.hitl][m.name] = m.value]
          /\ Route(Current)

ApplyPlain(m) ==
    /\ m.name \in Plain
    /\ Route([Current EXCEPT ![m.name] = m.value])
    /\ UNCHANGED configs

(* :a2a_approval, the legacy form. *)
ApplyApproval(m) ==
    /\ m.name = "approval"
    /\ configs' = Append(configs, [triggers |-> m.triggers, prompt |-> m.prompt])
    /\ Route([NewBinding(m.role) EXCEPT !.hitl = Len(configs) + 1])

ModifiersNext ==
    /\ Len(applied) < MaxModifiers
    /\ \E m \in Modifier :
          /\ ApplyA2A(m) \/ ApplyHITL(m) \/ ApplyPlain(m) \/ ApplyApproval(m)
          /\ applied' = Append(applied, m)
    /\ UNCHANGED <<routeKeeps, actionName>>

(* Mount: the binding the transport has for a role. *)
Mounted(role) ==
    bindings[Max({i \in 1..Len(bindings) : bindings[i].role = role})]

MountedRoles == {bindings[i].role : i \in 1..Len(bindings)} \ {NoRole}

-----------------------------------------------------------------------------
(* What a pipeline says, read without the steps: the modifiers since the   *)
(* last one that names a role, and of each kind the last.                  *)
LastOf(names) == Max({0} \cup {i \in 1..Len(applied) : applied[i].name \in names})
Start == LastOf({"a2a", "approval"})
MeantRole == IF Start = 0 THEN actionName ELSE applied[Start].role

Meant(name, none) ==
    LET i == LastOf({name})
    IN  CASE i > Start -> applied[i].value
          [] i <= Start /\ Start > 0 /\ applied[Start].name = "approval"
                        /\ name \in {"triggers", "prompt"} -> applied[Start][name]
          [] OTHER -> none

(* The approval a pipeline asks for guards its role once it is mounted,    *)
(* however its modifiers are ordered, and its other modifiers take effect. *)
(* If Route keeps earlier bindings this is so only for the approval, and   *)
(* only when the pipeline begins with it: after an :a2a each modifier      *)
(* starts again from the bare role, and the last one wins.                 *)
Guards ==
    LET b == Mounted(MeantRole)
        c == IF b.hitl = Nil THEN NewConfig ELSE configs[b.hitl]
    IN  /\ c.triggers = Meant("triggers", NoTriggers)
        /\ c.prompt = Meant("prompt", NoString)

ApprovalSurvives ==
    applied # <<>> /\ MeantRole # NoRole =>
        /\ routeKeeps /\ Start <= 1 /\ applied[1].name \in {"approval", "prompt", "triggers"}
              => MeantRole \in MountedRoles /\ Guards
        /\ ~routeKeeps =>
              /\ MountedRoles = {MeantRole} /\ Guards
              /\ \A f \in Plain : Mounted(MeantRole)[f] = Meant(f, NoString)
=============================================================================
