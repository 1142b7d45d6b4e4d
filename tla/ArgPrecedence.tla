--------------------------- MODULE ArgPrecedence ---------------------------
(***************************************************************************)
(* executeWithPrecedence: the input of an action is laid over in layers,   *)
(*   DefaultArgs -> data parts, in order -> text -> Args                   *)
(* by two pieces of code: one writes the fields of a typed request         *)
(* (mergeDefaults, mergeOverrides, applyTextToStruct), one the keys of an  *)
(* untyped payload (applyAnyPayload).  Here both work on the same binding  *)
(* and message, layer by layer, side by side.  Requests of type Message,   *)
(* string or []Part take the message as it is and have no layers.          *)
(***************************************************************************)
EXTENDS Naturals, Sequences

CONSTANTS
    Fields,     \* the JSON names of the request's fields
    Others,     \* names the request has no field for
    TextField,  \* the field applyTextToStruct writes to, or NoField
    NoField,
    Values,     \* what fields can hold
    Zero,       \* the zero value among them
    Raws,       \* the JSON values clients and maps give
    Null,       \* null among them
    Held,       \* Held[f][raw]: what field f holds when raw is assigned to it;
                \* a raw value it refuses is not in the domain of Held[f]
    Sources,    \* what DefaultArgs and Args may be
    DataParts,  \* the data of data parts
    Texts,      \* the texts of messages; Zero is the empty one
    MaxParts    \* bound: the data parts of a message

Names == Fields \cup Others
TextKey == "text"

(* A source is nil, a struct of the request's type, a struct of another    *)
(* type, or a map; a struct has a value for each of its fields, a map any  *)
(* JSON values.                                                            *)
Shapes == {"nil", "same", "other", "map"}

IsSource(s) ==
    /\ s.shape \in Shapes
    /\ DOMAIN s.vals \subseteq Names
    /\ s.shape = "same" => DOMAIN s.vals = Fields
    /\ \A k \in DOMAIN s.vals : s.vals[k] \in (IF s.shape = "map" THEN Raws ELSE Values)

ASSUME ValuesAssumption ==
    Zero \in Values /\ Values \subseteq Raws /\ Null \in Raws \ Values /\ Texts \subseteq Values
(* A number may lose its fraction in an integer field; null is refused. *)
ASSUME HeldAssumption ==
    \A f \in Fields :
        /\ Values \subseteq DOMAIN Held[f] /\ DOMAIN Held[f] \subseteq Raws \ {Null}
        /\ \A raw \in DOMAIN Held[f] : Held[f][raw] \in Values
        /\ \A v \in Values : Held[f][v] = v
ASSUME NamesAssumption ==
    TextKey \in Names /\ NoField \notin Names /\ TextField \in Fields \cup {NoField}
ASSUME SourcesAssumption == \A s \in Sources : IsSource(s)
ASSUME PartsAssumption ==
    \A p \in DataParts : DOMAIN p \subseteq Names /\ \A k \in DOMAIN p : p[k] \in Raws
ASSUME MaxPartsAssumption == MaxParts \in Nat

VARIABLES
    defaults,  \* AgentBinding.DefaultArgs
    args,      \* AgentBinding.Args
    parts,     \* the data parts of the message
    text,      \* effectiveText
    layer,     \* the next layer: the defaults, a part, the text, the args
    typed,     \* the fields of the typed request
    untyped    \* the keys of the untyped payload

input == <<defaults, args, parts, text>>

TextLayer == Len(parts) + 1
ArgsLayer == Len(parts) + 2
Done == layer = Len(parts) + 3
vars == <<input, layer, typed, untyped>>

-----------------------------------------------------------------------------
Restricted(f, S) == [k \in S |-> f[k]]
NonZero(f) == Restricted(f, {k \in DOMAIN f : f[k] # Zero})

(* What a map gives a typed request: values its fields refuse are skipped. *)
FromMap(m) ==
    [f \in {k \in DOMAIN m \cap Fields : m[k] \in DOMAIN Held[k]} |-> Held[f][m[f]]]

(* What a source gives a typed request: a struct of another type nothing.  *)
ForTyped(s) ==
    CASE s.shape = "same" -> NonZero(s.vals)
      [] s.shape = "map" -> FromMap(s.vals)
      [] OTHER -> <<>>

(* What it gives an untyped payload (fieldsByJSONName without zero fields). *)
ForUntyped(s) ==
    CASE s.shape \in {"same", "other"} -> NonZero(s.vals)
      [] s.shape = "map" -> s.vals
      [] OTHER -> <<>>

(* mergeDefaults and mergeOverrides. *)
MergeDefaults(dst, given) ==
    [f \in Fields |-> IF dst[f] = Zero /\ f \in DOMAIN given THEN given[f] ELSE dst[f]]

(* A mutant: only zero fields are overridden. *)
BadMergeOverrides(dst, given) ==
    [f \in Fields |-> IF dst[f] = Zero /\ f \in DOMAIN given THEN given[f] ELSE dst[f]]

MergeOverrides(dst, given) ==
    [f \in Fields |-> IF f \in DOMAIN given THEN given[f] ELSE dst[f]]

(* mergeAnyDefaults, and maps.Copy as it and mergeAnyOverrides use it. *)
MergeAnyDefaults(dst, given) ==
    [k \in DOMAIN dst \cup DOMAIN given |->
        IF k \in DOMAIN given /\ (k \in DOMAIN dst => dst[k] \in {Zero, Null})
        THEN given[k] ELSE dst[k]]

Copy(dst, given) ==
    [k \in DOMAIN dst \cup DOMAIN given |-> IF k \in DOMAIN given THEN given[k] ELSE dst[k]]

-----------------------------------------------------------------------------
Init ==
    /\ defaults \in Sources /\ args \in Sources /\ text \in Texts
    /\ parts \in UNION {[1..n -> DataParts] : n \in 0..MaxParts}
    /\ layer = 0
    /\ typed = [f \in Fields |-> Zero]
    /\ untyped = <<>>

ApplyDefaults ==
    /\ layer = 0
    /\ typed' = MergeDefaults(typed, ForTyped(defaults))
    /\ untyped' = MergeAnyDefaults(untyped, ForUntyped(defaults))
    /\ layer' = layer + 1
    /\ UNCHANGED input

ApplyPart ==
    /\ layer \in 1..Len(parts)
    /\ typed' = MergeOverrides(typed, FromMap(parts[layer]))
    /\ untyped' = Copy(untyped, parts[layer])
    /\ layer' = layer + 1
    /\ UNCHANGED input

ApplyText ==
    /\ layer = TextLayer
    /\ typed' = IF text = Zero \/ TextField = NoField THEN typed
                ELSE [typed EXCEPT ![TextField] = text]
    /\ untyped' = IF text = Zero THEN untyped ELSE Copy(untyped, [k \in {TextKey} |-> text])
    /\ layer' = layer + 1
    /\ UNCHANGED input

(* A mutant: Args of the untyped payload fill in what is missing. *)
BadApplyArgs ==
    /\ layer = ArgsLayer
    /\ typed' = MergeOverrides(typed, ForTyped(args))
    /\ untyped' = MergeAnyDefaults(untyped, ForUntyped(args))
    /\ layer' = layer + 1
    /\ UNCHANGED input

ApplyArgs ==
    /\ layer = ArgsLayer
    /\ typed' = MergeOverrides(typed, ForTyped(args))
    /\ untyped' = Copy(untyped, ForUntyped(args))
    /\ layer' = layer + 1
    /\ UNCHANGED input

Next == ApplyDefaults \/ ApplyPart \/ ApplyText \/ ApplyArgs

Spec == Init /\ [][Next]_vars

-----------------------------------------------------------------------------
(* The documented precedence, said without the steps: each field holds     *)
(* what the last layer that gives it a value gave.                         *)
Layers ==
    <<ForTyped(defaults)>>
    \o [i \in 1..Len(parts) |-> FromMap(parts[i])]
    \o <<IF text = Zero \/ TextField = NoField THEN <<>> ELSE [f \in {TextField} |-> text],
         ForTyped(args)>>

HighestLayerWins ==
    Done =>
        \A f \in Fields :
            LET giving == {i \in 1..Len(Layers) : f \in DOMAIN Layers[i]} IN
            IF giving = {} THEN typed[f] = Zero
            ELSE \E i \in giving : /\ \A j \in giving : j <= i
                                   /\ typed[f] = Layers[i][f]

(* "applyAnyPayload adapts A2A's typed-message precedence": an untyped     *)
(* action sees the fields a typed one would see, each as the JSON value    *)
(* its field was assigned from.  Where the two differ is excluded by name: *)
(* a struct of another type (a typed request ignores it), null and values  *)
(* of an unfit type (they overwrite a key and leave a field), and a text   *)
(* whose field is not called "text".                                       *)
Fits(m) == \A f \in DOMAIN m \cap Fields : m[f] \in DOMAIN Held[f]

Comparable ==
    /\ \A s \in {defaults, args} : s.shape # "other" /\ Fits(s.vals)
    /\ \A i \in 1..Len(parts) : Fits(parts[i])
    /\ text = Zero \/ TextField = TextKey

UntypedAgreesWithTyped ==
    Comparable =>
        \A f \in Fields : typed[f] = IF f \in DOMAIN untyped THEN Held[f][untyped[f]] ELSE Zero
=============================================================================
