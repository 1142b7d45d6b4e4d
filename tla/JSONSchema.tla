----------------------------- MODULE JSONSchema -----------------------------
(***************************************************************************)
(* buildJSONSchemaVisited: a depth-first walk over the type of a payload.  *)
(* Types may refer to themselves, so the walk keeps the struct types it is *)
(* inside of in one map, shared by all its calls: each call adds its type  *)
(* and removes it again when it returns.                                   *)
(*                                                                         *)
(* A schema is the set of its nodes: a path, which says the field taken in *)
(* each struct (Element in a slice or a map), the type there and what is   *)
(* written for it.  Pointers are looked through; scalars and time.Time are *)
(* leaves.  A field may be hidden: not exported, or tagged json:"-".       *)
(***************************************************************************)
EXTENDS Naturals, Sequences, FiniteSets

CONSTANTS
    Structs,   \* struct types
    Layouts    \* what their fields may be: functions Structs -> Seq(Type)

Element == 0
Leaf == [kind |-> "leaf", of |-> "scalar"]
Type == {Leaf, [kind |-> "hidden", of |-> "scalar"]}
        \cup [kind : {"struct"}, of : Structs]
        \cup [kind : {"list"}, of : Structs \cup {"scalar"}]

ASSUME LayoutsAssumption ==
    /\ IsFiniteSet(Structs) /\ "scalar" \notin Structs
    /\ \A f \in Layouts : \A s \in Structs : f[s] \in Seq(Type)

VARIABLES
    fields,    \* the layout of the struct types
    root,      \* the type of the payload
    frames,    \* the calls in progress: [of, path, next]
    visiting,  \* the struct types the walk is inside of
    nodes      \* the schema so far: [path, type, form]

schemaVars == <<fields, root, frames, visiting, nodes>>

SchemaInit ==
    /\ fields \in Layouts
    /\ root \in Structs
    /\ frames = <<>>
    /\ visiting = {}
    /\ nodes = {}

Walked == frames = <<>> /\ nodes # {}

-----------------------------------------------------------------------------
(* One call: a struct that is being visited becomes a bare object, another *)
(* opens a frame; a slice, array or map goes on to its element's type.     *)
Visit(stack, path, type) ==
    LET list == type.kind = "list"
        at == IF list THEN Append(path, Element) ELSE path
        struct == type.of \in Structs
        bare == struct /\ type.of \in visiting
        inner == [kind |-> IF struct THEN "struct" ELSE "leaf", of |-> type.of]
        form == CASE bare -> "bare" [] struct /\ ~bare -> "object" [] OTHER -> "leaf"
    IN  /\ nodes' = nodes \cup {[path |-> at, type |-> inner, form |-> form]}
                          \cup (IF list THEN {[path |-> path, type |-> type, form |-> "list"]}
                                ELSE {})
        /\ IF struct /\ ~bare
           THEN /\ frames' = Append(stack, [of |-> type.of, path |-> at, next |-> 1])
                /\ visiting' = visiting \cup {type.of}
           ELSE frames' = stack /\ UNCHANGED visiting

Top == frames[Len(frames)]
Below == SubSeq(frames, 1, Len(frames) - 1)

Begin ==
    /\ nodes = {}
    /\ Visit(<<>>, <<>>, [kind |-> "struct", of |-> root])
    /\ UNCHANGED <<fields, root>>

NextField ==
    /\ frames # <<>> /\ Top.next <= Len(fields[Top.of])
    /\ LET type == fields[Top.of][Top.next]
           stack == Append(Below, [Top EXCEPT !.next = @ + 1])
       IN  IF type.kind = "hidden" THEN frames' = stack /\ UNCHANGED <<visiting, nodes>>
           ELSE Visit(stack, Append(Top.path, Top.next), type)
    /\ UNCHANGED <<fields, root>>

(* A mutant: the deferred delete is missing. *)
BadLeave ==
    /\ frames # <<>> /\ Top.next > Len(fields[Top.of])
    /\ frames' = Below
    /\ UNCHANGED <<fields, root, nodes, visiting>>

Leave ==
    /\ frames # <<>> /\ Top.next > Len(fields[Top.of])
    /\ frames' = Below
    /\ visiting' = visiting \ {Top.of}
    /\ UNCHANGED <<fields, root, nodes>>

SchemaNext == Begin \/ NextField \/ Leave

-----------------------------------------------------------------------------
(* Whatever types refer to one another, the walk never nests deeper than   *)
(* there are struct types, and the schema it ends with is the payload's    *)
(* type unfolded: a struct is written out everywhere, again beside itself  *)
(* too, except inside itself, where it is a bare object.                   *)
Inside(n, m) == Len(n.path) > Len(m.path) /\ SubSeq(n.path, 1, Len(m.path)) = m.path

SchemaUnfolds ==
    /\ Len(frames) <= Cardinality(Structs)
    /\ Walked =>
        \A n \in nodes :
            /\ n.form = "bare" <=> n.type.kind = "struct" /\ \E m \in nodes :
                                      m.type = n.type /\ Inside(n, m)
            /\ n.form = "list" => \E m \in nodes : m.path = Append(n.path, Element)
            /\ n.form = "object" =>
                  \A i \in 1..Len(fields[n.type.of]) :
                      LET type == fields[n.type.of][i] IN
                      {m.type : m \in {m \in nodes : m.path = Append(n.path, i)}}
                          = IF type.kind = "hidden" THEN {} ELSE {type}
=============================================================================
