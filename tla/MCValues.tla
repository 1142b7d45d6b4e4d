------------------------------ MODULE MCValues ------------------------------
(* The sequential computations, one per behaviour: the layers of an        *)
(* action's arguments, the modifiers of a pipeline, the schema of a        *)
(* payload, the texts of a message and of a task.  The others stay at one  *)
(* of their initial states.                                                *)
EXTENDS ArgPrecedence, FlowModifiers, JSONSchema, TaskTexts

CONSTANTS zero, v, w, null, half, r1, r2, none

VARIABLE computed  \* which computation a behaviour is

valuesVars == <<vars, modifierVars, schemaVars, textVars, computed>>

-----------------------------------------------------------------------------
(* A request with a text and an integer, and every kind of source.  half   *)
(* stands for a fraction: the integer field holds its zero whole part, the *)
(* text field refuses it.                                                  *)
HeldValues ==
    [text |-> [raw \in Values |-> raw],
     n |-> [raw \in Values \cup {half} |-> IF raw = half THEN zero ELSE raw]]

MapsOver(S, V) == UNION {[D -> V] : D \in SUBSET S}

SmallSources ==
    {[shape |-> "nil", vals |-> <<>>]}
        \cup {[shape |-> "same", vals |-> m] : m \in [{"text", "n"} -> {zero, v}]}
        \cup {[shape |-> "other", vals |-> m] : m \in [{"n"} -> {zero, v}]}
        \cup {[shape |-> "map", vals |-> m] :
                 m \in MapsOver({"n"}, {zero, w, half}) \cup [{"text", "n"} -> {w, null}]
                          \cup MapsOver({"text"}, {half})}

SmallParts ==
    MapsOver({"n"}, {zero, w, half}) \cup MapsOver({"text"}, {v, null}) \cup [{"n", "x"} -> {w}]

ArgsIdle ==
    /\ defaults = [shape |-> "nil", vals |-> <<>>] /\ args = defaults
    /\ text = zero /\ parts = <<>>

-----------------------------------------------------------------------------
(* Two struct types with up to two fields: recursive in every way. *)
SmallLayouts ==
    LET T == {Leaf, [kind |-> "hidden", of |-> "scalar"], [kind |-> "list", of |-> "scalar"]}
             \cup [kind : {"struct", "list"}, of : Structs]
    IN  [Structs -> UNION {[1..n -> T] : n \in 0..2}]

SchemaIdle == root = "A" /\ fields = [s \in Structs |-> <<>>]

ModifiersIdle == routeKeeps = FALSE /\ actionName = NoRole

-----------------------------------------------------------------------------
(* Parts that say something and parts that do not; templates and values    *)
(* with two spellings of a field, an unknown one, and failing actions.     *)
Word(x) == [kind |-> "word", is |-> x]
Name(x) == [kind |-> "name", is |-> x]
Action(kind) == [kind |-> kind, is |-> ""]

PartOf(type, said, data, link, content) ==
    [type |-> type, text |-> said, data |-> data, link |-> link, content |-> content]

MessageParts ==
    {PartOf("text", <<Word("u")>>, FALSE, <<>>, FALSE),
     PartOf("text", <<Blank>>, FALSE, <<>>, FALSE),
     PartOf("text", <<>>, TRUE, <<>>, FALSE),
     PartOf("file", <<>>, FALSE, <<Word("v")>>, FALSE),
     PartOf("file", <<>>, FALSE, <<>>, TRUE),
     PartOf("data", <<Word("v")>>, TRUE, <<>>, FALSE)}

SmallMessages ==
    [role : {TRUE}, text : {<<>>, <<Blank>>},
     parts : UNION {[1..n -> MessageParts] : n \in 0..3}]
    \cup [role : BOOLEAN, text : {<<Word("u")>>}, parts : {<<>>}]

SmallTemplates ==
    {<<Name("F"), Word("u"), Name("g")>>, <<Name("f"), Name("F")>>,
     <<Name("g"), Action("bad action")>>, <<Action("action"), Name("h")>>}

SmallSpellings == ("f" :> {"f", "F"}) @@ ("g" :> {"g"}) @@ ("h" :> {"h"})

SmallPayloads ==
    UNION {[S -> {<<Word("u")>>, <<Word("v")>>, <<Word("v"), Name("g")>>, <<Action("bad action")>>}] :
              S \in SUBSET {"f", "g"}}

MessageIdle == message = [role |-> TRUE, text |-> <<Word("u")>>, parts |-> <<>>]
TemplateIdle == template = <<Name("f"), Name("F")>> /\ request = <<>> /\ returned = <<>>

-----------------------------------------------------------------------------
ValuesInit ==
    /\ computed \in {"arguments", "modifiers", "schema", "texts in", "texts out"}
    /\ (computed = "arguments" \/ ArgsIdle) /\ Init
    /\ (computed = "modifiers" \/ ModifiersIdle) /\ ModifiersInit
    /\ (computed = "schema" \/ SchemaIdle) /\ SchemaInit
    /\ (computed = "texts in" \/ MessageIdle) /\ (computed = "texts out" \/ TemplateIdle) /\ TextsInit

ValuesNext ==
    /\ UNCHANGED computed
    /\ \/ computed = "arguments" /\ Next /\ UNCHANGED <<modifierVars, schemaVars, textVars>>
       \/ computed = "modifiers" /\ ModifiersNext /\ UNCHANGED <<vars, schemaVars, textVars>>
       \/ computed = "schema" /\ SchemaNext /\ UNCHANGED <<vars, modifierVars, textVars>>
       \/ computed \in {"texts in", "texts out"} /\ TextsNext /\ UNCHANGED <<vars, modifierVars, schemaVars>>

ValuesSpec == ValuesInit /\ [][ValuesNext]_valuesVars
=============================================================================
