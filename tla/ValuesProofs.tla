---------------------------- MODULE ValuesProofs ----------------------------
(***************************************************************************)
(* The sequential computations, for every value of their constants.        *)
(*                                                                         *)
(* Arguments: the typed and the untyped way of laying arguments over each  *)
(* other agree, and the last layer that gives a field a value wins.  Both  *)
(* are kept layer by layer, so they are inductive once the accumulators    *)
(* are known to be functions; the work is in what one source gives each.   *)
(*                                                                         *)
(* Modifiers: the builder's last binding says what the modifiers applied   *)
(* so far say of the role they end with.                                   *)
(*                                                                         *)
(* Texts: a text that is put together from texts, a token or a part at a   *)
(* time, is computed by FlattenSeq, by recursion; induction over sequences *)
(* shows that it distributes over what it is put together from.            *)
(*                                                                         *)
(* Schema: the frames are the structs above the place the walk is at, so a *)
(* type that is being visited is the type of a node above; the nodes that  *)
(* are written are the fields the frames have taken.                       *)
(***************************************************************************)
EXTENDS ArgPrecedence, FlowModifiers, JSONSchema, TaskTexts, TLAPS, SequenceTheorems, FiniteSetTheorems

(* The value of a field that a payload shows. *)
At(f, payload) == IF f \in DOMAIN payload THEN Held[f][payload[f]] ELSE Zero

(* A comparable source gives a payload, for the fields of the request, the *)
(* values it gives a typed one: what it gives only the payload is no field *)
(* of the request.                                                         *)
LEMMA SameGiven ==
    ASSUME NEW s \in Sources, s.shape # "other",
           Fits(s.vals)
    PROVE  /\ DOMAIN ForTyped(s) = DOMAIN ForUntyped(s) \cap Fields
           /\ \A f \in DOMAIN ForTyped(s) : ForTyped(s)[f] = Held[f][ForUntyped(s)[f]]
<1>1. IsSource(s)
  BY SourcesAssumption
<1>2. CASE s.shape = "same"
  BY <1>1, <1>2, HeldAssumption DEF IsSource, ForTyped, ForUntyped, NonZero, Restricted
<1>3. CASE s.shape = "map"
  BY <1>1, <1>3 DEF IsSource, ForTyped, ForUntyped, FromMap, Fits
<1>4. CASE s.shape = "nil"
  <2>1. DOMAIN <<>> = {}
    OBVIOUS
  <2>2. QED
    BY <1>4, <2>1 DEF ForTyped, ForUntyped
<1>5. QED
  BY <1>1, <1>2, <1>3, <1>4 DEF IsSource, Shapes

(* Both accumulators are functions, and the fields they share agree. *)
Agreement ==
    /\ defaults \in Sources /\ args \in Sources /\ parts \in Seq(DataParts)
    /\ text \in Texts
    /\ layer \in Nat
    /\ typed = [f \in Fields |-> typed[f]]
    /\ layer = 0 => DOMAIN untyped = {}
    /\ Comparable => \A f \in Fields : typed[f] = At(f, untyped)

LEMMA AgreementInit == Init => Agreement
<1> SUFFICES ASSUME Init PROVE Agreement
  OBVIOUS
<1>1. parts \in Seq(DataParts)
  BY MaxPartsAssumption DEF Init
<1>2. DOMAIN <<>> = {}
  OBVIOUS
<1>3. QED
  BY <1>1, <1>2 DEF Init, Agreement, At

LEMMA AgreementNext == Agreement /\ [Next]_vars => Agreement'
<1> SUFFICES ASSUME Agreement, [Next]_vars PROVE Agreement'
  OBVIOUS
<1>1. CASE UNCHANGED vars
  BY <1>1 DEF Agreement, vars, input, At, Comparable
<1>2. ASSUME ApplyDefaults PROVE Agreement'
  <2> DEFINE given == ForTyped(defaults)
             payload == ForUntyped(defaults)
  <2>1. typed' = [f \in Fields |-> IF typed[f] = Zero /\ f \in DOMAIN given
                                   THEN given[f] ELSE typed[f]]
    BY <1>2 DEF ApplyDefaults, MergeDefaults
  <2>2. untyped' = [k \in DOMAIN payload |-> payload[k]]
    BY <1>2 DEF ApplyDefaults, MergeAnyDefaults, Agreement
  <2>3. ASSUME Comparable' PROVE \A f \in Fields : typed'[f] = At(f, untyped)'
    <3>1. Comparable
      BY <1>2, <2>3 DEF ApplyDefaults, Comparable, input
    <3>2. \A f \in Fields : typed[f] = Zero
      BY <1>2, <3>1 DEF ApplyDefaults, Agreement, At
    <3>3. /\ DOMAIN given = DOMAIN payload \cap Fields
          /\ \A f \in DOMAIN given : given[f] = Held[f][payload[f]]
      BY <3>1, SameGiven DEF Agreement, Comparable
    <3> HIDE DEF given, payload
    <3>4. QED
      BY <2>1, <2>2, <3>2, <3>3 DEF At
  <2>4. QED
    BY <1>2, <2>1, <2>3 DEF ApplyDefaults, Agreement, MergeDefaults, input
<1>3. ASSUME ApplyPart PROVE Agreement'
  <2> DEFINE part == parts[layer]
  <2>1. typed' = [f \in Fields |-> IF f \in DOMAIN FromMap(part)
                                   THEN FromMap(part)[f] ELSE typed[f]]
    BY <1>3 DEF ApplyPart, MergeOverrides
  <2>2. untyped' = [k \in DOMAIN untyped \cup DOMAIN part |->
                       IF k \in DOMAIN part THEN part[k] ELSE untyped[k]]
    BY <1>3 DEF ApplyPart, Copy
  <2>3. ASSUME Comparable' PROVE \A f \in Fields : typed'[f] = At(f, untyped)'
    <3>1. Comparable
      BY <1>3, <2>3 DEF ApplyPart, Comparable, input
    <3>2. Fits(part)
      BY <1>3, <3>1 DEF ApplyPart, Comparable
    <3>3. /\ DOMAIN FromMap(part) = DOMAIN part \cap Fields
          /\ \A f \in DOMAIN FromMap(part) : FromMap(part)[f] = Held[f][part[f]]
      BY <3>2 DEF FromMap, Fits
    <3>4. \A f \in Fields : typed[f] = At(f, untyped)
      BY <3>1 DEF Agreement
    <3> HIDE DEF part
    <3>5. QED
      BY <2>1, <2>2, <3>3, <3>4 DEF At
  <2>4. QED
    BY <1>3, <2>1, <2>3 DEF ApplyPart, Agreement, MergeOverrides, input
<1>4. ASSUME ApplyText PROVE Agreement'
  <2>1. typed' = [f \in Fields |-> typed'[f]]
    BY <1>4 DEF ApplyText, Agreement
  <2>2. ASSUME Comparable' PROVE \A f \in Fields : typed'[f] = At(f, untyped)'
    <3>1. Comparable
      BY <1>4, <2>2 DEF ApplyText, Comparable, input
    <3>2. \A f \in Fields : typed[f] = At(f, untyped)
      BY <3>1 DEF Agreement
    <3>3. CASE text = Zero
      BY <1>4, <3>2, <3>3 DEF ApplyText, At
    <3>4. CASE text # Zero
      <4>1. TextField = TextKey /\ TextField # NoField /\ TextField \in Fields
        BY <3>1, <3>4, NamesAssumption DEF Comparable
      <4>2. typed' = [typed EXCEPT ![TextField] = text]
        BY <1>4, <3>4, <4>1 DEF ApplyText
      <4>3. untyped' = [k \in DOMAIN untyped \cup {TextField} |->
                           IF k = TextField THEN text ELSE untyped[k]]
        BY <1>4, <3>4, <4>1 DEF ApplyText, Copy
      <4>4. QED
        <5>1. text \in Values
          BY ValuesAssumption DEF Agreement
        <5>2. Held[TextField][text] = text
          BY <4>1, <5>1, HeldAssumption
        <5>3. QED
          BY <3>2, <4>1, <4>2, <4>3, <5>2 DEF At, Agreement
    <3>5. QED
      BY <3>3, <3>4
  <2>3. QED
    BY <1>4, <2>1, <2>2 DEF ApplyText, Agreement, input, TextLayer
<1>5. ASSUME ApplyArgs PROVE Agreement'
  <2> DEFINE given == ForTyped(args)
             payload == ForUntyped(args)
  <2>1. typed' = [f \in Fields |-> IF f \in DOMAIN given THEN given[f] ELSE typed[f]]
    BY <1>5 DEF ApplyArgs, MergeOverrides
  <2>2. untyped' = [k \in DOMAIN untyped \cup DOMAIN payload |->
                       IF k \in DOMAIN payload THEN payload[k] ELSE untyped[k]]
    BY <1>5 DEF ApplyArgs, Copy
  <2>3. ASSUME Comparable' PROVE \A f \in Fields : typed'[f] = At(f, untyped)'
    <3>1. Comparable
      BY <1>5, <2>3 DEF ApplyArgs, Comparable, input
    <3>2. \A f \in Fields : typed[f] = At(f, untyped)
      BY <3>1 DEF Agreement
    <3>3. /\ DOMAIN given = DOMAIN payload \cap Fields
          /\ \A f \in DOMAIN given : given[f] = Held[f][payload[f]]
      BY <3>1, SameGiven DEF Agreement, Comparable
    <3> HIDE DEF given, payload
    <3>4. QED
      BY <2>1, <2>2, <3>2, <3>3 DEF At
  <2>4. QED
    BY <1>5, <2>1, <2>3 DEF ApplyArgs, Agreement, MergeOverrides, input, ArgsLayer
<1>6. QED
  BY <1>1, <1>2, <1>3, <1>4, <1>5 DEF Next

(* The untyped adapter applies the typed precedence: whatever the binding  *)
(* and the message, it never shows an action another value of a field.     *)
THEOREM AdaptersAgree == Spec => []UntypedAgreesWithTyped
<1>1. Agreement => UntypedAgreesWithTyped
  BY DEF Agreement, UntypedAgreesWithTyped, At
<1>2. QED
  BY <1>1, AgreementInit, AgreementNext, PTL DEF Spec

-----------------------------------------------------------------------------
(* A concatenation, part by part. *)
LEMMA JoinedUnion ==
    ASSUME NEW S, NEW s \in Seq(S), NEW t \in Seq(S)
    PROVE  /\ s \o t \in Seq(S) /\ Len(s \o t) = Len(s) + Len(t)
           /\ \A i \in 1..Len(s) : (s \o t)[i] = s[i]
           /\ \A j \in 1..Len(t) : (s \o t)[Len(s) + j] = t[j]
<1>1. /\ s \o t \in Seq(S) /\ Len(s \o t) = Len(s) + Len(t)
      /\ \A i \in 1..Len(s) + Len(t) :
            (s \o t)[i] = IF i <= Len(s) THEN s[i] ELSE t[i - Len(s)]
  BY ConcatProperties
<1>2. Len(s) \in Nat /\ Len(t) \in Nat
  OBVIOUS
<1>3. ASSUME NEW j \in 1..Len(t) PROVE (s \o t)[Len(s) + j] = t[j]
  <2>1. Len(s) + j \in 1..Len(s) + Len(t) /\ ~(Len(s) + j <= Len(s)) /\ Len(s) + j - Len(s) = j
    BY <1>2
  <2>. QED
    BY <1>1, <2>1
<1>. QED
  BY <1>1, <1>2, <1>3

(* One value, any values and two more in a row. *)
LEMMA InARow ==
    ASSUME NEW a, NEW n \in Nat, NEW g, NEW b, NEW c
    PROVE  LET row == (<<a>> \o [i \in 1..n |-> g[i]]) \o <<b, c>> IN
           /\ Len(row) = n + 3
           /\ row[1] = a
           /\ \A i \in 1..n : row[i + 1] = g[i]
           /\ row[n + 2] = b /\ row[n + 3] = c
<1>. DEFINE S == {a, b, c} \cup {g[i] : i \in 1..n}
            first == <<a>>
            middle == [i \in 1..n |-> g[i]]
            head == first \o middle
            rest == <<b, c>>
            row == head \o rest
<1>1. first \in Seq(S) /\ Len(first) = 1 /\ first[1] = a
  OBVIOUS
<1>2. middle \in Seq(S) /\ Len(middle) = n /\ \A i \in 1..n : middle[i] = g[i]
  OBVIOUS
<1>3. rest \in Seq(S) /\ Len(rest) = 2 /\ rest[1] = b /\ rest[2] = c
  OBVIOUS
<1>. HIDE DEF S, first, middle, rest
<1>4. /\ head \in Seq(S) /\ Len(head) = 1 + n /\ head[1] = a
      /\ \A i \in 1..n : head[1 + i] = g[i]
  <2>1. /\ head \in Seq(S) /\ Len(head) = Len(first) + Len(middle)
        /\ \A i \in 1..Len(first) : head[i] = first[i]
        /\ \A j \in 1..Len(middle) : head[Len(first) + j] = middle[j]
    BY <1>1, <1>2, JoinedUnion
  <2>. QED
    BY <1>1, <1>2, <2>1
<1>. HIDE DEF head
<1>5. /\ Len(row) = (1 + n) + 2
      /\ \A i \in 1..1 + n : row[i] = head[i]
      /\ row[(1 + n) + 1] = b /\ row[(1 + n) + 2] = c
  <2>1. /\ Len(row) = Len(head) + Len(rest)
        /\ \A i \in 1..Len(head) : row[i] = head[i]
        /\ \A j \in 1..Len(rest) : row[Len(head) + j] = rest[j]
    <3>1. head \in Seq(S) /\ rest \in Seq(S)
      BY <1>3, <1>4
    <3>. QED
      BY <3>1, JoinedUnion
  <2>. QED
    BY <1>3, <1>4, <2>1
<1>. HIDE DEF row
<1>6. row[1] = a
  BY <1>4, <1>5
<1>7. ASSUME NEW i \in 1..n PROVE row[i + 1] = g[i]
  <2>1. i + 1 \in 1..1 + n /\ i + 1 = 1 + i
    OBVIOUS
  <2>. QED
    BY <1>4, <1>5, <2>1
<1>8. n + 3 = (1 + n) + 2 /\ n + 2 = (1 + n) + 1
  OBVIOUS
<1>. QED
  BY <1>5, <1>6, <1>7, <1>8 DEF row, head, first, middle, rest

(* What the text gives, and the layers, one by one. *)
TextGives == IF text = Zero \/ TextField = NoField THEN <<>> ELSE [f \in {TextField} |-> text]

LEMMA LayersOneByOne ==
    ASSUME parts \in Seq(DataParts)
    PROVE  /\ Len(Layers) = Len(parts) + 3 /\ Len(parts) \in Nat
           /\ Layers[1] = ForTyped(defaults)
           /\ \A i \in 1..Len(parts) : Layers[i + 1] = FromMap(parts[i])
           /\ Layers[Len(parts) + 2] = TextGives
           /\ Layers[Len(parts) + 3] = ForTyped(args)
<1>. DEFINE given == [i \in 1..Len(parts) |-> FromMap(parts[i])]
            row == (<<ForTyped(defaults)>> \o [i \in 1..Len(parts) |-> given[i]])
                      \o <<TextGives, ForTyped(args)>>
<1>1. Len(parts) \in Nat
  OBVIOUS
<1>2. Layers = row
  BY DEF Layers, TextGives
<1>. HIDE DEF given
<1>3. /\ Len(row) = Len(parts) + 3
      /\ row[1] = ForTyped(defaults)
      /\ \A i \in 1..Len(parts) : row[i + 1] = given[i]
      /\ row[Len(parts) + 2] = TextGives /\ row[Len(parts) + 3] = ForTyped(args)
  BY <1>1, InARow
<1>. QED
  BY <1>1, <1>2, <1>3 DEF given

(* After each layer a field holds what the last of the layers so far that  *)
(* gives it a value gave: by its own steps, without the bound on layers.   *)
LastGiver(f, k) ==
    \/ (\A i \in 1..k : f \notin DOMAIN Layers[i]) /\ typed[f] = Zero
    \/ \E i \in 1..k : /\ f \in DOMAIN Layers[i] /\ typed[f] = Layers[i][f]
                       /\ \A j \in 1..k : f \in DOMAIN Layers[j] => j <= i

Precedence ==
    /\ Agreement
    /\ layer = 0 => typed = [f \in Fields |-> Zero]
    /\ layer \in 0..Len(parts) + 3
    /\ \A f \in Fields : LastGiver(f, layer)

(* Laying the next layer over the fields keeps it. *)
LEMMA LayerOnTop ==
    ASSUME Precedence, UNCHANGED input, layer' = layer + 1,
           typed' = MergeOverrides(typed, Layers[layer + 1])
    PROVE  \A f \in Fields : LastGiver(f, layer)'
<1>. SUFFICES ASSUME NEW f \in Fields PROVE LastGiver(f, layer)'
  OBVIOUS
<1>1. Layers' = Layers
  BY DEF Layers, input
<1>2. layer \in Nat /\ LastGiver(f, layer)
  BY DEF Precedence, Agreement
<1>3. typed'[f] = IF f \in DOMAIN Layers[layer + 1] THEN Layers[layer + 1][f] ELSE typed[f]
  BY DEF MergeOverrides
<1>. DEFINE L == Layers
<1>4. L' = L /\ typed'[f] = IF f \in DOMAIN L[layer + 1] THEN L[layer + 1][f] ELSE typed[f]
  BY <1>1, <1>3
<1>5. \/ (\A i \in 1..layer : f \notin DOMAIN L[i]) /\ typed[f] = Zero
      \/ \E i \in 1..layer : /\ f \in DOMAIN L[i] /\ typed[f] = L[i][f]
                             /\ \A j \in 1..layer : f \in DOMAIN L[j] => j <= i
  BY <1>2 DEF LastGiver
<1>6. \A i \in 1..layer + 1 : i \in 1..layer \/ i = layer + 1
  BY <1>2
<1>. HIDE DEF L
<1>7. \/ (\A i \in 1..layer + 1 : f \notin DOMAIN L[i]) /\ typed'[f] = Zero
      \/ \E i \in 1..layer + 1 : /\ f \in DOMAIN L[i] /\ typed'[f] = L[i][f]
                                 /\ \A j \in 1..layer + 1 : f \in DOMAIN L[j] => j <= i
  <2>1. CASE f \in DOMAIN L[layer + 1]
    <3>1. \A j \in 1..layer + 1 : j <= layer + 1
      BY <1>2
    <3>. QED
      BY <1>2, <1>4, <2>1, <3>1
  <2>2. CASE f \notin DOMAIN L[layer + 1]
    <3>1. CASE (\A i \in 1..layer : f \notin DOMAIN L[i]) /\ typed[f] = Zero
      BY <1>4, <1>6, <2>2, <3>1
    <3>2. CASE \E i \in 1..layer : /\ f \in DOMAIN L[i] /\ typed[f] = L[i][f]
                                   /\ \A j \in 1..layer : f \in DOMAIN L[j] => j <= i
      <4>1. PICK i \in 1..layer : /\ f \in DOMAIN L[i] /\ typed[f] = L[i][f]
                                  /\ \A j \in 1..layer : f \in DOMAIN L[j] => j <= i
        BY <3>2
      <4>2. i \in 1..layer + 1 /\ typed'[f] = L[i][f]
        BY <1>2, <1>4, <2>2, <4>1
      <4>3. \A j \in 1..layer + 1 : f \in DOMAIN L[j] => j <= i
        BY <1>6, <2>2, <4>1
      <4>. QED
        BY <4>1, <4>2, <4>3
    <3>. QED
      BY <1>5, <3>1, <3>2
  <2>. QED
    BY <2>1, <2>2
<1>. QED
  BY <1>4, <1>7 DEF LastGiver, L

LEMMA PrecedenceNext == Precedence /\ [Next]_vars => Precedence'
<1>. SUFFICES ASSUME Precedence, [Next]_vars PROVE Precedence'
  OBVIOUS
<1>0. Agreement /\ Agreement' /\ parts \in Seq(DataParts) /\ layer \in Nat
      /\ typed = [f \in Fields |-> typed[f]] /\ Len(parts) \in Nat
  BY AgreementNext DEF Precedence, Agreement
<1>1. CASE UNCHANGED vars
  <2>1. Layers' = Layers
    BY <1>1 DEF Layers, vars, input
  <2>2. layer' = layer /\ typed' = typed /\ parts' = parts
    BY <1>1 DEF vars, input
  <2>3. \A f \in Fields : LastGiver(f, layer)' <=> LastGiver(f, layer)
    BY <2>1, <2>2 DEF LastGiver
  <2>. QED
    BY <1>0, <2>2, <2>3 DEF Precedence
<1>2. CASE Next
  <2>1. /\ UNCHANGED input /\ layer' = layer + 1
        /\ typed' = MergeOverrides(typed, Layers[layer + 1]) /\ layer < Len(parts) + 3
    <3>1. CASE ApplyDefaults
      <4>1. \A f \in Fields : typed[f] = Zero
        BY <3>1 DEF ApplyDefaults, Precedence
      <4>2. typed' = MergeOverrides(typed, ForTyped(defaults))
        BY <3>1, <4>1 DEF ApplyDefaults, MergeDefaults, MergeOverrides
      <4>3. Layers[layer + 1] = ForTyped(defaults)
        BY <1>0, <3>1, LayersOneByOne DEF ApplyDefaults
      <4>. QED
        BY <1>0, <3>1, <4>2, <4>3 DEF ApplyDefaults
    <3>2. CASE ApplyPart
      <4>1. Layers[layer + 1] = FromMap(parts[layer])
        BY <1>0, <3>2, LayersOneByOne DEF ApplyPart
      <4>. QED
        BY <1>0, <3>2, <4>1 DEF ApplyPart
    <3>3. CASE ApplyText
      <4>1. layer + 1 = Len(parts) + 2
        BY <1>0, <3>3 DEF ApplyText, TextLayer
      <4>2. Layers[layer + 1] = TextGives
        BY <1>0, <4>1, LayersOneByOne
      <4>3. typed' = MergeOverrides(typed, TextGives)
        <5>1. CASE text = Zero \/ TextField = NoField
          <6>1. DOMAIN <<>> = {}
            OBVIOUS
          <6>. QED
            BY <1>0, <3>3, <5>1, <6>1 DEF ApplyText, MergeOverrides, TextGives
        <5>2. CASE ~(text = Zero \/ TextField = NoField)
          <6>1. typed' = [typed EXCEPT ![TextField] = text]
            BY <3>3, <5>2 DEF ApplyText
          <6>2. TextGives = [f \in {TextField} |-> text]
            BY <5>2 DEF TextGives
          <6>. QED
            BY <1>0, <6>1, <6>2 DEF MergeOverrides
        <5>. QED
          BY <5>1, <5>2
      <4>. QED
        BY <1>0, <3>3, <4>1, <4>2, <4>3 DEF ApplyText
    <3>4. CASE ApplyArgs
      <4>1. layer + 1 = Len(parts) + 3
        BY <1>0, <3>4 DEF ApplyArgs, ArgsLayer
      <4>2. Layers[layer + 1] = ForTyped(args)
        BY <1>0, <4>1, LayersOneByOne
      <4>. QED
        BY <1>0, <3>4, <4>1, <4>2 DEF ApplyArgs
    <3>. QED
      BY <1>2, <3>1, <3>2, <3>3, <3>4 DEF Next
  <2>2. \A f \in Fields : LastGiver(f, layer)'
    BY <2>1, LayerOnTop
  <2>3. layer' \in 0..Len(parts') + 3 /\ layer' # 0
    BY <1>0, <2>1 DEF input
  <2>. QED
    BY <1>0, <2>2, <2>3 DEF Precedence, LastGiver
<1>. QED
  BY <1>1, <1>2

(* DefaultArgs, then data parts, then text, then Args: whatever each of    *)
(* them is, a field of a typed request holds what the last of them that    *)
(* gives it a value gave, or its zero value if none does.                  *)
THEOREM LastLayerWins == Spec => []HighestLayerWins
<1>1. Init => Precedence
  <2>. SUFFICES ASSUME Init PROVE Precedence
    OBVIOUS
  <2>1. Agreement
    BY AgreementInit
  <2>2. \A f \in Fields : LastGiver(f, layer)
    <3>1. layer = 0 /\ \A f \in Fields : typed[f] = Zero
      BY DEF Init
    <3>2. \A i \in 1..0 : FALSE
      OBVIOUS
    <3>. QED
      BY <3>1, <3>2 DEF LastGiver
  <2>3. Len(parts) \in Nat
    BY <2>1 DEF Agreement
  <2>. QED
    BY <2>1, <2>2, <2>3 DEF Init, Precedence
<1>2. Precedence => HighestLayerWins
  <2>. SUFFICES ASSUME Precedence, Done, NEW f \in Fields
                PROVE  LET giving == {i \in 1..Len(Layers) : f \in DOMAIN Layers[i]} IN
                       IF giving = {} THEN typed[f] = Zero
                       ELSE \E i \in giving : /\ \A j \in giving : j <= i
                                              /\ typed[f] = Layers[i][f]
    BY DEF HighestLayerWins
  <2>1. layer = Len(Layers)
    BY LayersOneByOne DEF Done, Precedence, Agreement
  <2>2. LastGiver(f, layer)
    BY DEF Precedence
  <2>. QED
    BY <2>1, <2>2 DEF LastGiver
<1>. QED
  BY <1>1, <1>2, PrecedenceNext, PTL DEF Spec

-----------------------------------------------------------------------------
(* What the modifiers of a pipeline build.                                 *)

(* The last modifier of some names in a list: LastOf as a fact about it. *)
LastIn(s, names) == Max({0} \cup {i \in 1..Len(s) : s[i].name \in names})

IsLast(s, i, names) ==
    /\ i \in 0..Len(s)
    /\ i > 0 => s[i].name \in names
    /\ \A j \in 1..Len(s) : s[j].name \in names => j <= i

LEMMA LastIsMax ==
    ASSUME NEW s, NEW names, NEW i, Len(s) \in Nat, IsLast(s, i, names)
    PROVE  LastIn(s, names) = i
<1>. DEFINE S == {0} \cup {j \in 1..Len(s) : s[j].name \in names}
<1>1. i \in S /\ \A j \in S : i >= j
  BY DEF IsLast
<1>2. \A x \in S : (\A j \in S : x >= j) => x = i
  BY <1>1
<1>3. (CHOOSE x \in S : \A j \in S : x >= j) = i
  BY <1>1, <1>2
<1>. QED
  BY <1>3 DEF LastIn, Max

LEMMA LastOfAppended ==
    ASSUME NEW S, NEW s \in Seq(S), NEW m \in S, NEW names, IsLast(s, LastIn(s, names), names)
    PROVE  /\ LastIn(Append(s, m), names) = IF m.name \in names THEN Len(s) + 1 ELSE LastIn(s, names)
           /\ IsLast(Append(s, m), LastIn(Append(s, m), names), names)
<1>. DEFINE i == IF m.name \in names THEN Len(s) + 1 ELSE LastIn(s, names)
            t == Append(s, m)
<1>1. /\ Len(s) \in Nat /\ Len(t) = Len(s) + 1
      /\ \A j \in 1..Len(s) : t[j] = s[j]
      /\ t[Len(s) + 1] = m
  BY AppendProperties
<1>. HIDE DEF i, t
<1>2. IsLast(t, i, names)
  <2>1. i \in 0..Len(t) /\ (i > 0 => t[i].name \in names)
    BY <1>1 DEF i, IsLast
  <2>2. ASSUME NEW j \in 1..Len(t), t[j].name \in names PROVE j <= i
    <3>1. CASE m.name \in names
      BY <1>1, <3>1 DEF i
    <3>2. CASE m.name \notin names
      <4>1. j # Len(s) + 1
        BY <1>1, <2>2, <3>2
      <4>. QED
        BY <1>1, <2>2, <3>2, <4>1 DEF i, IsLast
    <3>. QED
      BY <3>1, <3>2
  <2>. QED
    BY <2>1, <2>2 DEF IsLast
<1>3. LastIn(t, names) = i
  BY <1>1, <1>2, LastIsMax
<1>. QED
  BY <1>2, <1>3 DEF i, t

(* What a list means, as a fact about it, and after one more modifier. *)
StartIn(s) == LastIn(s, {"a2a", "approval"})
RoleIn(s, none) == IF StartIn(s) = 0 THEN none ELSE s[StartIn(s)].role

MeantIn(s, name, none) ==
    LET i == LastIn(s, {name})
    IN  CASE i > StartIn(s) -> s[i].value
          [] i <= StartIn(s) /\ StartIn(s) > 0 /\ s[StartIn(s)].name = "approval"
                             /\ name \in {"triggers", "prompt"} -> s[StartIn(s)][name]
          [] OTHER -> none

Lasts(s) == \A names : IsLast(s, LastIn(s, names), names)

LEMMA StartOfAppended ==
    ASSUME NEW S, NEW s \in Seq(S), NEW m \in S, Lasts(s), NEW none
    PROVE  /\ StartIn(Append(s, m)) = IF m.name \in {"a2a", "approval"} THEN Len(s) + 1 ELSE StartIn(s)
           /\ RoleIn(Append(s, m), none) = IF m.name \in {"a2a", "approval"} THEN m.role
                                           ELSE RoleIn(s, none)
<1>1. StartIn(Append(s, m)) = IF m.name \in {"a2a", "approval"} THEN Len(s) + 1 ELSE StartIn(s)
  BY LastOfAppended DEF StartIn, Lasts
<1>2. StartIn(s) \in 0..Len(s)
  BY DEF StartIn, Lasts, IsLast
<1>3. /\ Len(s) \in Nat
      /\ \A j \in 1..Len(s) : Append(s, m)[j] = s[j]
      /\ Append(s, m)[Len(s) + 1] = m
  BY AppendProperties
<1>. QED
  BY <1>1, <1>2, <1>3 DEF RoleIn

LEMMA MeantOfAppended ==
    ASSUME NEW S, NEW s \in Seq(S), NEW m \in S, Lasts(s),
           NEW name \in {"triggers", "prompt", "artifact", "mime", "summary"}, NEW none
    PROVE  MeantIn(Append(s, m), name, none) =
             CASE m.name = "a2a" -> none
               [] m.name = "approval" -> (IF name \in {"triggers", "prompt"} THEN m[name] ELSE none)
               [] m.name = name -> m.value
               [] OTHER -> MeantIn(s, name, none)
<1>. DEFINE t == Append(s, m)
            i == LastIn(s, {name})
            j == LastIn(t, {name})
            start == StartIn(s)
<1>1. StartIn(t) = IF m.name \in {"a2a", "approval"} THEN Len(s) + 1 ELSE start
  BY StartOfAppended
<1>2. j = IF m.name = name THEN Len(s) + 1 ELSE i
  BY LastOfAppended DEF Lasts
<1>3. /\ Len(s) \in Nat
      /\ \A k \in 1..Len(s) : t[k] = s[k]
      /\ t[Len(s) + 1] = m
  BY AppendProperties
<1>4. start \in 0..Len(s) /\ i \in 0..Len(s)
  BY DEF StartIn, Lasts, IsLast
<1>5. MeantIn(s, name, none) =
        CASE i > start -> s[i].value
          [] i <= start /\ start > 0 /\ s[start].name = "approval"
                        /\ name \in {"triggers", "prompt"} -> s[start][name]
          [] OTHER -> none
  BY DEF MeantIn
<1>6. MeantIn(t, name, none) =
        CASE j > StartIn(t) -> t[j].value
          [] j <= StartIn(t) /\ StartIn(t) > 0 /\ t[StartIn(t)].name = "approval"
                             /\ name \in {"triggers", "prompt"} -> t[StartIn(t)][name]
          [] OTHER -> none
  BY DEF MeantIn
<1>. HIDE DEF t, i, j, start
<1>7. CASE m.name = "a2a"
  <2>1. StartIn(t) = Len(s) + 1 /\ j = i /\ t[StartIn(t)].name = "a2a"
    BY <1>1, <1>2, <1>3, <1>7
  <2>2. ~(j > StartIn(t))
    BY <1>3, <1>4, <2>1
  <2>. QED
    BY <1>6, <1>7, <2>1, <2>2 DEF t
<1>8. CASE m.name = "approval"
  <2>1. StartIn(t) = Len(s) + 1 /\ j = i /\ t[StartIn(t)] = m
    BY <1>1, <1>2, <1>3, <1>8
  <2>2. ~(j > StartIn(t)) /\ j <= StartIn(t) /\ StartIn(t) > 0
    BY <1>3, <1>4, <2>1
  <2>. QED
    BY <1>6, <1>8, <2>1, <2>2 DEF t
<1>9. CASE m.name = name
  <2>1. StartIn(t) = start /\ j = Len(s) + 1 /\ t[j] = m
    BY <1>1, <1>2, <1>3, <1>9
  <2>2. j > StartIn(t) /\ ~(j <= StartIn(t))
    BY <1>3, <1>4, <2>1
  <2>3. MeantIn(t, name, none) = m.value
    BY <1>6, <2>1, <2>2, Zenon
  <2>4. m.name # "a2a" /\ m.name # "approval"
    BY <1>9
  <2>. QED
    BY <1>9, <2>3, <2>4 DEF t
<1>10. CASE m.name \notin {"a2a", "approval", name}
  <2>1. StartIn(t) = start /\ j = i
    BY <1>1, <1>2, <1>10
  <2>2. (start > 0 => t[start] = s[start]) /\ (i > start => t[i] = s[i])
    BY <1>3, <1>4
  <2>3. MeantIn(t, name, none) = MeantIn(s, name, none)
    BY <1>5, <1>6, <2>1, <2>2
  <2>. QED
    BY <1>10, <2>3 DEF t
<1>. QED
  BY <1>7, <1>8, <1>9, <1>10

-----------------------------------------------------------------------------
(* What the builder has: bindings whose pointers are allocated, and which  *)
(* say what the modifiers so far mean, each of them where Route keeps only *)
(* one, and as to the approval also where it keeps all of a pipeline that  *)
(* began with it; those then share the first config.                       *)
Config == [triggers : Triggers, prompt : Strings]
AgentBinding == [role : Roles \cup {NoRole}, hitl : Nat,
                 artifact : Strings, mime : Strings, summary : Strings]

ConfigOf(b) == IF b.hitl = Nil THEN NewConfig ELSE configs[b.hitl]

SaysApproval(b) ==
    /\ b.role = RoleIn(applied, actionName)
    /\ ConfigOf(b).triggers = MeantIn(applied, "triggers", NoTriggers)
    /\ ConfigOf(b).prompt = MeantIn(applied, "prompt", NoString)

SaysPlain(b) ==
    /\ b.artifact = MeantIn(applied, "artifact", NoString)
    /\ b.mime = MeantIn(applied, "mime", NoString)
    /\ b.summary = MeantIn(applied, "summary", NoString)

BeginsWithApproval ==
    /\ StartIn(applied) <= 1
    /\ Len(applied) > 0 /\ applied[1].name \in {"approval", "prompt", "triggers"}

BuilderTypeOK ==
    /\ routeKeeps \in BOOLEAN /\ actionName \in Roles \cup {NoRole}
    /\ applied \in Seq(Modifier) /\ bindings \in Seq(AgentBinding) /\ configs \in Seq(Config)
    /\ \A i \in 1..Len(bindings) : bindings[i].hitl \in 0..Len(configs)

BuilderInv ==
    /\ BuilderTypeOK
    /\ Lasts(applied)
    /\ Len(applied) = 0 => Len(bindings) = 0 /\ Len(configs) = 0
    /\ Len(applied) > 0 => Len(bindings) > 0
    /\ ~routeKeeps => /\ Len(bindings) <= 1
                      /\ \A i \in 1..Len(bindings) : SaysApproval(bindings[i]) /\ SaysPlain(bindings[i])
    /\ routeKeeps /\ BeginsWithApproval =>
          \A i \in 1..Len(bindings) : bindings[i].hitl = 1 /\ SaysApproval(bindings[i])

(* The binding the next modifier starts from. *)
LEMMA CurrentSays ==
    ASSUME BuilderInv
    PROVE  /\ Current \in AgentBinding /\ Current.hitl \in 0..Len(configs)
           /\ Len(applied) = 0 => Current.hitl = Nil /\ SaysApproval(Current) /\ SaysPlain(Current)
           /\ ~routeKeeps => SaysApproval(Current) /\ SaysPlain(Current)
           /\ routeKeeps /\ BeginsWithApproval => Current.hitl = 1 /\ SaysApproval(Current)
<1>0. BuilderTypeOK /\ Len(bindings) \in Nat /\ Len(configs) \in Nat /\ Len(applied) \in Nat
  BY DEF BuilderInv, BuilderTypeOK
<1>1. CASE Len(bindings) = 0
  <2>1. bindings = <<>> /\ Len(applied) = 0
    BY <1>0, <1>1, EmptySeq DEF BuilderInv, BuilderTypeOK
  <2>2. Current = NewBinding(actionName)
    BY <2>1 DEF Current
  <2>3. \A names : LastIn(applied, names) = 0
    BY <2>1 DEF BuilderInv, Lasts, IsLast
  <2>4. /\ RoleIn(applied, actionName) = actionName
        /\ \A name, none : MeantIn(applied, name, none) = none
    BY <2>3 DEF RoleIn, StartIn, MeantIn
  <2>5. Current \in AgentBinding /\ Current.hitl = Nil
    BY <1>0, <2>2, ModifiersAssumption DEF NewBinding, AgentBinding, BuilderTypeOK, Nil
  <2>6. SaysApproval(Current) /\ SaysPlain(Current)
    BY <2>2, <2>4 DEF NewBinding, SaysApproval, SaysPlain, ConfigOf, NewConfig, Nil
  <2>. QED
    BY <1>0, <2>1, <2>5, <2>6 DEF BeginsWithApproval, Nil
<1>2. CASE Len(bindings) > 0
  <2>1. bindings # <<>> /\ Current = bindings[1] /\ 1 \in 1..Len(bindings) /\ Len(applied) # 0
    BY <1>0, <1>2 DEF Current, BuilderInv
  <2>2. bindings[1] \in AgentBinding
    BY <1>0, <2>1 DEF BuilderTypeOK
  <2>. QED
    BY <1>0, <2>1, <2>2 DEF BuilderInv, BuilderTypeOK
<1>. QED
  BY <1>0, <1>1, <1>2

(* A routed binding that says what it must keeps the builder in order.     *)
LEMMA RoutedKeeps ==
    ASSUME BuilderInv, NEW m \in Modifier, NEW b \in AgentBinding,
           Route(b), applied' = Append(applied, m), UNCHANGED <<routeKeeps, actionName>>,
           configs' \in Seq(Config), Len(configs) <= Len(configs'), b.hitl \in 0..Len(configs'),
           ~routeKeeps => SaysApproval(b)' /\ SaysPlain(b)',
           routeKeeps /\ BeginsWithApproval' => b.hitl = 1 /\ SaysApproval(b)'
    PROVE  BuilderInv'
<1>0. BuilderTypeOK /\ Len(bindings) \in Nat /\ Len(configs) \in Nat /\ Len(applied) \in Nat
      /\ Len(configs') \in Nat
  BY DEF BuilderInv, BuilderTypeOK
<1>1. /\ applied' \in Seq(Modifier) /\ Len(applied') = Len(applied) + 1
      /\ \A i \in 1..Len(applied) : applied'[i] = applied[i]
      /\ applied'[Len(applied) + 1] = m
  BY <1>0, AppendProperties DEF BuilderTypeOK
<1>2. Lasts(applied)'
  <2>1. \A names : IsLast(Append(applied, m), LastIn(Append(applied, m), names), names)
    BY <1>0, LastOfAppended DEF BuilderInv, BuilderTypeOK, Lasts
  <2>. QED
    BY <2>1 DEF Lasts
<1>3. CASE ~routeKeeps
  <2>1. bindings' = <<b>>
    BY <1>3 DEF Route
  <2>2. bindings' \in Seq(AgentBinding) /\ Len(bindings') = 1 /\ bindings'[1] = b
    BY <2>1
  <2>3. BuilderTypeOK'
    BY <1>0, <1>1, <2>2 DEF BuilderTypeOK
  <2>4. (\A i \in 1..Len(bindings) : SaysApproval(bindings[i]) /\ SaysPlain(bindings[i]))'
    <3>. SUFFICES ASSUME NEW i \in 1..Len(bindings')
                  PROVE  (SaysApproval(bindings[i]) /\ SaysPlain(bindings[i]))'
      OBVIOUS
    <3>1. bindings'[i] = b
      BY <2>2
    <3>. QED
      BY <1>3, <3>1 DEF SaysApproval, SaysPlain, ConfigOf
  <2>. QED
    BY <1>0, <1>1, <1>2, <1>3, <2>2, <2>3, <2>4 DEF BuilderInv
<1>4. CASE routeKeeps
  <2>1. bindings' = Append(bindings, b)
    BY <1>4 DEF Route
  <2>2. /\ bindings' \in Seq(AgentBinding) /\ Len(bindings') = Len(bindings) + 1
        /\ \A i \in 1..Len(bindings) : bindings'[i] = bindings[i]
        /\ bindings'[Len(bindings) + 1] = b
    BY <1>0, <2>1, AppendProperties DEF BuilderTypeOK
  <2>3. BuilderTypeOK'
    <3>1. \A i \in 1..Len(bindings') : bindings'[i].hitl \in 0..Len(configs')
      <4>. SUFFICES ASSUME NEW i \in 1..Len(bindings') PROVE bindings'[i].hitl \in 0..Len(configs')
        OBVIOUS
      <4>1. CASE i \in 1..Len(bindings)
        BY <1>0, <2>2, <4>1 DEF BuilderTypeOK
      <4>2. CASE i = Len(bindings) + 1
        BY <2>2, <4>2
      <4>. QED
        BY <1>0, <2>2, <4>1, <4>2
    <3>. QED
      BY <1>0, <1>1, <2>2, <3>1 DEF BuilderTypeOK
  <2>4. ASSUME BeginsWithApproval', NEW i \in 1..Len(bindings')
        PROVE  /\ bindings'[i].hitl = 1 /\ bindings'[i].role = RoleIn(applied', actionName')
               /\ configs'[1].triggers = MeantIn(applied', "triggers", NoTriggers)
               /\ configs'[1].prompt = MeantIn(applied', "prompt", NoString)
    <3>1. /\ b.hitl = 1 /\ b.role = RoleIn(applied', actionName')
          /\ configs'[1].triggers = MeantIn(applied', "triggers", NoTriggers)
          /\ configs'[1].prompt = MeantIn(applied', "prompt", NoString)
      BY <1>4, <2>4 DEF SaysApproval, ConfigOf, Nil
    <3>2. CASE i = Len(bindings) + 1
      BY <2>2, <3>1, <3>2
    <3>3. CASE i \in 1..Len(bindings)
      <4>1. Len(applied) > 0
        BY <1>0, <3>3 DEF BuilderInv
      <4>2. /\ StartIn(applied') = IF m.name \in {"a2a", "approval"} THEN Len(applied) + 1
                                   ELSE StartIn(applied)
            /\ RoleIn(applied', actionName) = IF m.name \in {"a2a", "approval"} THEN m.role
                                              ELSE RoleIn(applied, actionName)
        BY <1>0, StartOfAppended DEF BuilderInv, BuilderTypeOK
      <4>3. m.name \notin {"a2a", "approval"} /\ BeginsWithApproval
        BY <1>0, <1>1, <2>4, <4>1, <4>2 DEF BeginsWithApproval
      <4>4. bindings[i].hitl = 1 /\ bindings[i].role = RoleIn(applied, actionName)
        BY <1>4, <3>3, <4>3 DEF BuilderInv, SaysApproval
      <4>. QED
        BY <2>2, <3>1, <3>3, <4>2, <4>3, <4>4
    <3>. QED
      BY <1>0, <2>2, <3>2, <3>3
  <2>5. (BeginsWithApproval => \A i \in 1..Len(bindings) :
                                  bindings[i].hitl = 1 /\ SaysApproval(bindings[i]))'
    <3>. SUFFICES ASSUME BeginsWithApproval', NEW i \in 1..Len(bindings')
                  PROVE  bindings'[i].hitl = 1 /\ SaysApproval(bindings[i])'
      OBVIOUS
    <3>. QED
      BY <2>4 DEF SaysApproval, ConfigOf, Nil
  <2>. QED
    BY <1>0, <1>1, <1>2, <1>4, <2>2, <2>3, <2>5 DEF BuilderInv
<1>. QED
  BY <1>0, <1>3, <1>4 DEF BuilderTypeOK

(* What the list means after a step. *)
LEMMA StepMeans ==
    ASSUME BuilderInv, NEW m \in Modifier, applied' = Append(applied, m)
    PROVE  /\ Len(applied) \in Nat /\ Len(applied') = Len(applied) + 1
           /\ Len(applied) = 0 => applied'[1] = m
           /\ Len(applied) > 0 => applied'[1] = applied[1]
           /\ StartIn(applied') = IF m.name \in {"a2a", "approval"} THEN Len(applied) + 1
                                  ELSE StartIn(applied)
           /\ \A none : RoleIn(applied', none) = IF m.name \in {"a2a", "approval"} THEN m.role
                                                 ELSE RoleIn(applied, none)
           /\ \A name \in {"triggers", "prompt", "artifact", "mime", "summary"} : \A none :
                 MeantIn(applied', name, none) =
                   CASE m.name = "a2a" -> none
                     [] m.name = "approval" ->
                           (IF name \in {"triggers", "prompt"} THEN m[name] ELSE none)
                     [] m.name = name -> m.value
                     [] OTHER -> MeantIn(applied, name, none)
<1>1. applied \in Seq(Modifier) /\ Lasts(applied)
  BY DEF BuilderInv, BuilderTypeOK
<1>2. /\ Len(applied) \in Nat /\ Len(applied') = Len(applied) + 1
      /\ \A i \in 1..Len(applied) : applied'[i] = applied[i]
      /\ applied'[Len(applied) + 1] = m
  BY <1>1, AppendProperties
<1>3. StartIn(applied') = IF m.name \in {"a2a", "approval"} THEN Len(applied) + 1 ELSE StartIn(applied)
  BY <1>1, StartOfAppended
<1>4. ASSUME NEW none
      PROVE  RoleIn(applied', none) = IF m.name \in {"a2a", "approval"} THEN m.role
                                      ELSE RoleIn(applied, none)
  BY <1>1, StartOfAppended
<1>5. ASSUME NEW name \in {"triggers", "prompt", "artifact", "mime", "summary"}, NEW none
      PROVE  MeantIn(applied', name, none) =
               CASE m.name = "a2a" -> none
                 [] m.name = "approval" -> (IF name \in {"triggers", "prompt"} THEN m[name] ELSE none)
                 [] m.name = name -> m.value
                 [] OTHER -> MeantIn(applied, name, none)
  BY <1>1, MeantOfAppended
<1>. QED
  BY <1>2, <1>3, <1>4, <1>5

Step(m) == applied' = Append(applied, m) /\ UNCHANGED <<routeKeeps, actionName>>

LEMMA A2AKeeps ==
    ASSUME BuilderInv, NEW m \in Modifier, ApplyA2A(m), Step(m)
    PROVE  BuilderInv'
<1>. DEFINE b == NewBinding(m.role)
<1>0. m.name = "a2a" /\ m.role \in Roles /\ Route(b) /\ configs' = configs
  BY DEF ApplyA2A, Modifier, Plain
<1>1. applied' = Append(applied, m) /\ UNCHANGED <<routeKeeps, actionName>>
  BY DEF Step
<1>2. b \in AgentBinding /\ b.hitl = 0 /\ b.role = m.role
      /\ b.artifact = NoString /\ b.mime = NoString /\ b.summary = NoString
  BY <1>0, ModifiersAssumption DEF NewBinding, AgentBinding, Nil
<1>3. configs \in Seq(Config) /\ Len(configs) \in Nat
  BY DEF BuilderInv, BuilderTypeOK
<1>4. SaysApproval(b)' /\ SaysPlain(b)'
  <2>1. RoleIn(applied', actionName') = m.role
    BY <1>0, <1>1, StepMeans
  <2>2. \A name \in {"triggers", "prompt", "artifact", "mime", "summary"} : \A none :
           MeantIn(applied', name, none) = none
    BY <1>0, <1>1, StepMeans
  <2>. HIDE DEF b
  <2>. QED
    BY <1>2, <2>1, <2>2 DEF SaysApproval, SaysPlain, ConfigOf, NewConfig, Nil
<1>5. ~BeginsWithApproval'
  <2>1. CASE Len(applied) = 0
    BY <1>0, <1>1, <2>1, StepMeans DEF BeginsWithApproval
  <2>2. CASE Len(applied) > 0
    BY <1>0, <1>1, <2>2, StepMeans DEF BeginsWithApproval
  <2>. QED
    BY <1>1, <2>1, <2>2, StepMeans
<1>. HIDE DEF b
<1>. QED
  BY <1>0, <1>1, <1>2, <1>3, <1>4, <1>5, RoutedKeeps

LEMMA ApprovalKeeps ==
    ASSUME BuilderInv, NEW m \in Modifier, ApplyApproval(m), Step(m)
    PROVE  BuilderInv'
<1>. DEFINE n == Len(configs)
            routed == [NewBinding(m.role) EXCEPT !.hitl = n + 1]
            new == [triggers |-> m.triggers, prompt |-> m.prompt]
<1>0. /\ m.name = "approval" /\ m.role \in Roles /\ m.triggers \in Triggers /\ m.prompt \in Strings
      /\ Route(routed) /\ configs' = Append(configs, new)
  BY DEF ApplyApproval, Modifier, Plain
<1>1. applied' = Append(applied, m) /\ UNCHANGED <<routeKeeps, actionName>>
  BY DEF Step
<1>2. n \in Nat /\ configs \in Seq(Config) /\ new \in Config
  BY <1>0 DEF BuilderInv, BuilderTypeOK, Config
<1>3. /\ configs' \in Seq(Config) /\ Len(configs') = n + 1 /\ configs'[n + 1] = new
  BY <1>0, <1>2, AppendProperties
<1>4. PICK b \in AgentBinding :
         /\ b = routed /\ b.hitl = n + 1 /\ b.role = m.role
         /\ b.artifact = NoString /\ b.mime = NoString /\ b.summary = NoString
  BY <1>0, <1>2, ModifiersAssumption DEF NewBinding, AgentBinding
<1>. HIDE DEF routed
<1>5. SaysApproval(b)' /\ SaysPlain(b)'
  <2>1. RoleIn(applied', actionName') = m.role
    BY <1>0, <1>1, StepMeans
  <2>2. /\ \A none : MeantIn(applied', "triggers", none) = m.triggers
        /\ \A none : MeantIn(applied', "prompt", none) = m.prompt
        /\ \A name \in {"artifact", "mime", "summary"} : \A none : MeantIn(applied', name, none) = none
    BY <1>0, <1>1, StepMeans
  <2>3. ConfigOf(b)' = new
    BY <1>2, <1>3, <1>4 DEF ConfigOf, Nil
  <2>. QED
    BY <1>4, <2>1, <2>2, <2>3 DEF SaysApproval, SaysPlain
<1>6. BeginsWithApproval' => b.hitl = 1
  <2>1. BeginsWithApproval' => Len(applied) = 0
    BY <1>0, <1>1, StepMeans DEF BeginsWithApproval
  <2>. QED
    BY <1>2, <1>4, <2>1 DEF BuilderInv
<1>. QED
  BY <1>0, <1>1, <1>2, <1>3, <1>4, <1>5, <1>6, RoutedKeeps

(* A plain field: the pointer goes on to the copy. *)
LEMMA PlainKeeps ==
    ASSUME BuilderInv, NEW m \in Modifier, ApplyPlain(m), Step(m)
    PROVE  BuilderInv'
<1>. DEFINE routed == [Current EXCEPT ![m.name] = m.value]
<1>0. /\ m.name \in {"artifact", "mime", "summary"} /\ m.value \in Strings
      /\ Route(routed) /\ configs' = configs
  BY DEF ApplyPlain, Modifier, Plain
<1>1. applied' = Append(applied, m) /\ UNCHANGED <<routeKeeps, actionName>>
  BY DEF Step
<1>2. configs \in Seq(Config) /\ Len(configs) \in Nat
  BY DEF BuilderInv, BuilderTypeOK
<1>3. Current \in AgentBinding /\ Current.hitl \in 0..Len(configs)
  BY CurrentSays
<1>. DEFINE Holds(b) ==
                /\ b.hitl = Current.hitl /\ b.role = Current.role
                /\ b.artifact = IF m.name = "artifact" THEN m.value ELSE Current.artifact
                /\ b.mime = IF m.name = "mime" THEN m.value ELSE Current.mime
                /\ b.summary = IF m.name = "summary" THEN m.value ELSE Current.summary
<1>10. routed \in AgentBinding /\ Holds(routed)
  <2>1. CASE m.name = "artifact"
    BY <1>0, <1>3, <2>1 DEF AgentBinding
  <2>2. CASE m.name = "mime"
    BY <1>0, <1>3, <2>2 DEF AgentBinding
  <2>3. CASE m.name = "summary"
    BY <1>0, <1>3, <2>3 DEF AgentBinding
  <2>. QED
    BY <1>0, <2>1, <2>2, <2>3
<1>4. PICK b \in AgentBinding : b = routed /\ Holds(b)
  <2>. HIDE DEF routed, Holds
  <2>. QED
    BY <1>10
<1>. HIDE DEF routed
<1>5. /\ RoleIn(applied', actionName') = RoleIn(applied, actionName)
      /\ \A none : MeantIn(applied', "triggers", none) = MeantIn(applied, "triggers", none)
      /\ \A none : MeantIn(applied', "prompt", none) = MeantIn(applied, "prompt", none)
      /\ \A name \in {"artifact", "mime", "summary"} : \A none :
            MeantIn(applied', name, none) = IF m.name = name THEN m.value
                                            ELSE MeantIn(applied, name, none)
  BY <1>0, <1>1, StepMeans
<1>6. SaysApproval(Current) => SaysApproval(b)'
  BY <1>0, <1>4, <1>5 DEF SaysApproval, ConfigOf
<1>7. SaysPlain(Current) => SaysPlain(b)'
  BY <1>4, <1>5 DEF SaysPlain
<1>8. BeginsWithApproval' => BeginsWithApproval
  <2>1. BeginsWithApproval' => Len(applied) # 0
    BY <1>0, <1>1, StepMeans DEF BeginsWithApproval
  <2>. QED
    BY <1>0, <1>1, <2>1, StepMeans DEF BeginsWithApproval
<1>9. /\ ~routeKeeps => SaysApproval(b)' /\ SaysPlain(b)'
      /\ routeKeeps /\ BeginsWithApproval' => b.hitl = 1 /\ SaysApproval(b)'
  BY <1>4, <1>6, <1>7, <1>8, CurrentSays
<1>. QED
  BY <1>0, <1>1, <1>2, <1>3, <1>4, <1>9, RoutedKeeps

(* A prompt or triggers, written through the pointer or to a new config. *)
LEMMA HITLKeeps ==
    ASSUME BuilderInv, NEW m \in Modifier, ApplyHITL(m), Step(m)
    PROVE  BuilderInv'
<1>. DEFINE n == Len(configs)
<1>0. /\ m.name \in {"prompt", "triggers"}
      /\ m.name = "prompt" => m.value \in Strings
      /\ m.name = "triggers" => m.value \in Triggers
  BY DEF ApplyHITL, Modifier, Plain
<1>1. applied' = Append(applied, m) /\ UNCHANGED <<routeKeeps, actionName>>
  BY DEF Step
<1>2. configs \in Seq(Config) /\ n \in Nat /\ Nil = 0
  BY DEF BuilderInv, BuilderTypeOK, Nil
<1>3. Current \in AgentBinding /\ Current.hitl \in 0..n
  BY CurrentSays
<1>4. /\ RoleIn(applied', actionName') = RoleIn(applied, actionName)
      /\ \A none : MeantIn(applied', "triggers", none) =
                      IF m.name = "triggers" THEN m.value ELSE MeantIn(applied, "triggers", none)
      /\ \A none : MeantIn(applied', "prompt", none) =
                      IF m.name = "prompt" THEN m.value ELSE MeantIn(applied, "prompt", none)
      /\ \A name \in {"artifact", "mime", "summary"} : \A none :
            MeantIn(applied', name, none) = MeantIn(applied, name, none)
  BY <1>0, <1>1, StepMeans
<1>5. BeginsWithApproval' => Len(applied) = 0 \/ BeginsWithApproval
  BY <1>0, <1>1, StepMeans DEF BeginsWithApproval
(* What a binding says once its config says the new value. *)
<1>6. ASSUME NEW b, NEW old,
             b.role = Current.role, b.artifact = Current.artifact,
             b.mime = Current.mime, b.summary = Current.summary,
             old = ConfigOf(Current), ConfigOf(b)' = [old EXCEPT ![m.name] = m.value],
             old \in Config
      PROVE  /\ SaysApproval(Current) => SaysApproval(b)'
             /\ SaysPlain(Current) => SaysPlain(b)'
  <2>1. /\ ConfigOf(b)'.triggers = IF m.name = "triggers" THEN m.value ELSE old.triggers
        /\ ConfigOf(b)'.prompt = IF m.name = "prompt" THEN m.value ELSE old.prompt
    <3>1. CASE m.name = "triggers"
      BY <1>6, <3>1 DEF Config
    <3>2. CASE m.name = "prompt"
      BY <1>6, <3>2 DEF Config
    <3>. QED
      BY <1>0, <3>1, <3>2
  <2>2. SaysApproval(Current) => SaysApproval(b)'
    BY <1>4, <1>6, <2>1 DEF SaysApproval
  <2>3. SaysPlain(Current) => SaysPlain(b)'
    BY <1>4, <1>6 DEF SaysPlain
  <2>. QED
    BY <2>2, <2>3
<1>7. CASE Current.hitl = Nil
  <2>. DEFINE routed == [Current EXCEPT !.hitl = n + 1]
              new == [NewConfig EXCEPT ![m.name] = m.value]
  <2>1. Route(routed) /\ configs' = Append(configs, new)
    BY <1>7 DEF ApplyHITL
  <2>2. NewConfig \in Config /\ new \in Config
    <3>1. NewConfig \in Config
      BY ModifiersAssumption DEF NewConfig, Config
    <3>2. CASE m.name = "triggers"
      BY <1>0, <3>1, <3>2 DEF Config
    <3>3. CASE m.name = "prompt"
      BY <1>0, <3>1, <3>3 DEF Config
    <3>. QED
      BY <1>0, <3>1, <3>2, <3>3
  <2>3. configs' \in Seq(Config) /\ Len(configs') = n + 1 /\ configs'[n + 1] = new
    <3>. HIDE DEF new
    <3>. QED
      BY <1>2, <2>1, <2>2, AppendProperties
  <2>. DEFINE Holds(b) ==
                  /\ b.hitl = n + 1 /\ b.role = Current.role /\ b.artifact = Current.artifact
                  /\ b.mime = Current.mime /\ b.summary = Current.summary
  <2>11. routed \in AgentBinding /\ Holds(routed)
    BY <1>2, <1>3 DEF AgentBinding
  <2>4. PICK b \in AgentBinding : b = routed /\ Holds(b)
    <3>. HIDE DEF routed, Holds
    <3>. QED
      BY <2>11
  <2>5. ConfigOf(Current) = NewConfig
    BY <1>7 DEF ConfigOf
  <2>6. ConfigOf(b)' = new
    <3>. HIDE DEF new
    <3>. QED
      BY <1>2, <2>3, <2>4 DEF ConfigOf
  <2>. HIDE DEF routed
  <2>7. /\ SaysApproval(Current) => SaysApproval(b)'
        /\ SaysPlain(Current) => SaysPlain(b)'
    BY <1>6, <2>2, <2>4, <2>5, <2>6
  <2>8. routeKeeps /\ BeginsWithApproval' => b.hitl = 1 /\ SaysApproval(b)'
    <3>1. routeKeeps /\ BeginsWithApproval' => Len(applied) = 0
      BY <1>2, <1>5, <1>7, CurrentSays
    <3>. QED
      BY <1>2, <2>4, <2>7, <3>1, CurrentSays DEF BuilderInv
  <2>9. ~routeKeeps => SaysApproval(b)' /\ SaysPlain(b)'
    BY <2>7, CurrentSays
  <2>. HIDE DEF new
  <2>10. Len(configs) <= Len(configs') /\ b.hitl \in 0..Len(configs')
    BY <1>2, <2>3, <2>4
  <2>. QED
    BY <1>1, <2>1, <2>3, <2>4, <2>8, <2>9, <2>10, RoutedKeeps
<1>8. CASE Current.hitl # Nil
  <2>1. Route(Current) /\ configs' = [configs EXCEPT ![Current.hitl][m.name] = m.value]
    BY <1>8 DEF ApplyHITL
  <2>2. PICK b \in AgentBinding : b = Current
    BY <1>3
  <2>3. b.hitl \in 1..n /\ configs[b.hitl] \in Config /\ b.hitl # Nil
    BY <1>2, <1>3, <1>8, <2>2
  <2>4. PICK changed \in Config : changed = [configs[b.hitl] EXCEPT ![m.name] = m.value]
    <3>1. CASE m.name = "triggers"
      BY <1>0, <2>3, <3>1 DEF Config
    <3>2. CASE m.name = "prompt"
      BY <1>0, <2>3, <3>2 DEF Config
    <3>. QED
      BY <1>0, <3>1, <3>2
  <2>5. configs' = [configs EXCEPT ![b.hitl] = changed]
    BY <2>1, <2>2, <2>4
  <2>6. configs' \in Seq(Config) /\ Len(configs') = n /\ configs'[b.hitl] = changed
    BY <1>2, <2>3, <2>5, ExceptSeq
  <2>7. ConfigOf(Current) = configs[b.hitl] /\ ConfigOf(b)' = changed
    BY <2>2, <2>3, <2>6 DEF ConfigOf
  <2>8. /\ SaysApproval(Current) => SaysApproval(b)'
        /\ SaysPlain(Current) => SaysPlain(b)'
    BY <1>6, <2>2, <2>3, <2>4, <2>7
  <2>9. routeKeeps /\ BeginsWithApproval' => b.hitl = 1 /\ SaysApproval(b)'
    BY <1>5, <1>8, <2>2, <2>8, CurrentSays
  <2>10. ~routeKeeps => SaysApproval(b)' /\ SaysPlain(b)'
    BY <2>8, CurrentSays
  <2>11. Route(b) /\ Len(configs) <= Len(configs') /\ b.hitl \in 0..Len(configs')
    BY <1>2, <2>1, <2>2, <2>3, <2>6
  <2>. QED
    BY <1>1, <2>6, <2>9, <2>10, <2>11, RoutedKeeps
<1>. QED
  BY <1>7, <1>8

LEMMA BuilderNext == BuilderInv /\ [ModifiersNext]_modifierVars => BuilderInv'
<1>. SUFFICES ASSUME BuilderInv, [ModifiersNext]_modifierVars PROVE BuilderInv'
  OBVIOUS
<1>1. CASE UNCHANGED modifierVars
  BY <1>1 DEF modifierVars, BuilderInv, BuilderTypeOK, Lasts, SaysApproval, SaysPlain, ConfigOf,
              BeginsWithApproval
<1>2. ASSUME NEW m \in Modifier, ApplyA2A(m) \/ ApplyHITL(m) \/ ApplyPlain(m) \/ ApplyApproval(m),
             Step(m)
      PROVE  BuilderInv'
  BY <1>2, A2AKeeps, HITLKeeps, PlainKeeps, ApprovalKeeps
<1>. QED
  BY <1>1, <1>2 DEF ModifiersNext, Step

(* Where all bindings have one role, Mount takes the last of them. *)
LEMMA LastIsMounted ==
    ASSUME NEW role, Len(bindings) \in Nat, Len(bindings) > 0,
           \A i \in 1..Len(bindings) : bindings[i].role = role
    PROVE  Mounted(role) = bindings[Len(bindings)]
<1>. DEFINE n == Len(bindings)
            S == {i \in 1..n : bindings[i].role = role}
<1>1. n \in S /\ \A i \in S : n >= i
  OBVIOUS
<1>2. \A x \in S : (\A i \in S : x >= i) => x = n
  BY <1>1
<1>3. (CHOOSE x \in S : \A i \in S : x >= i) = n
  BY <1>1, <1>2
<1>. QED
  BY <1>3 DEF Mounted, Max

(* Where the invariant says what every binding says, so does the mounted.  *)
LEMMA BuilderSays == BuilderInv => ApprovalSurvives
<1>. SUFFICES ASSUME BuilderInv, applied # <<>>, MeantRole # NoRole PROVE
        /\ routeKeeps /\ Start <= 1 /\ applied[1].name \in {"approval", "prompt", "triggers"}
              => MeantRole \in MountedRoles /\ Guards
        /\ ~routeKeeps => /\ MountedRoles = {MeantRole} /\ Guards
                          /\ \A f \in Plain : Mounted(MeantRole)[f] = Meant(f, NoString)
  BY DEF ApprovalSurvives
<1>0. Len(applied) \in Nat /\ Len(applied) > 0 /\ Len(bindings) \in Nat /\ Len(bindings) > 0
  BY EmptySeq DEF BuilderInv, BuilderTypeOK
<1>1. Start = StartIn(applied) /\ MeantRole = RoleIn(applied, actionName)
  BY DEF Start, LastOf, StartIn, LastIn, MeantRole, RoleIn
<1>2. \A name, none : Meant(name, none) = MeantIn(applied, name, none)
  BY <1>1 DEF Meant, MeantIn, LastOf, LastIn
<1>3. ASSUME \A i \in 1..Len(bindings) : SaysApproval(bindings[i])
      PROVE  /\ MountedRoles = {MeantRole} /\ Guards
             /\ Mounted(MeantRole) = bindings[Len(bindings)]
  <2>1. \A i \in 1..Len(bindings) : bindings[i].role = MeantRole
    BY <1>1, <1>3 DEF SaysApproval
  <2>2. Mounted(MeantRole) = bindings[Len(bindings)] /\ SaysApproval(bindings[Len(bindings)])
    BY <1>0, <1>3, <2>1, LastIsMounted
  <2>3. MountedRoles = {MeantRole}
    BY <1>0, <2>1 DEF MountedRoles
  <2>4. Guards
    BY <1>2, <2>2 DEF Guards, SaysApproval, ConfigOf
  <2>. QED
    BY <2>2, <2>3, <2>4
<1>4. CASE routeKeeps /\ Start <= 1 /\ applied[1].name \in {"approval", "prompt", "triggers"}
  <2>1. \A i \in 1..Len(bindings) : SaysApproval(bindings[i])
    BY <1>0, <1>1, <1>4 DEF BuilderInv, BeginsWithApproval
  <2>. QED
    BY <1>3, <1>4, <2>1
<1>5. CASE ~routeKeeps
  <2>1. \A i \in 1..Len(bindings) : SaysApproval(bindings[i]) /\ SaysPlain(bindings[i])
    BY <1>5 DEF BuilderInv
  <2>2. \A f \in Plain : bindings[Len(bindings)][f] = Meant(f, NoString)
    BY <1>0, <1>2, <2>1 DEF SaysPlain, Plain
  <2>. QED
    BY <1>3, <1>5, <2>1, <2>2
<1>. QED
  BY <1>4, <1>5

(* Whatever the modifiers and their order, the role a pipeline ends with   *)
(* is mounted with the approval it asks for.                               *)
THEOREM ApprovalsAreMounted ==
    ModifiersInit /\ [][ModifiersNext]_modifierVars => []ApprovalSurvives
<1>1. ModifiersInit => BuilderInv
  <2>. SUFFICES ASSUME ModifiersInit PROVE BuilderInv
    OBVIOUS
  <2>1. applied = <<>> /\ bindings = <<>> /\ configs = <<>>
    BY DEF ModifiersInit
  <2>2. ASSUME NEW names PROVE IsLast(applied, LastIn(applied, names), names)
    <3>1. IsLast(applied, 0, names)
      BY <2>1 DEF IsLast
    <3>2. LastIn(applied, names) = 0
      BY <2>1, <3>1, LastIsMax
    <3>. QED
      BY <3>1, <3>2
  <2>3. BuilderTypeOK
    BY <2>1 DEF ModifiersInit, BuilderTypeOK
  <2>. QED
    BY <2>1, <2>2, <2>3 DEF BuilderInv, Lasts, BeginsWithApproval
<1>. QED
  BY <1>1, BuilderNext, BuilderSays, PTL

-----------------------------------------------------------------------------
(* The walk over the type of a payload: paths.                             *)

Prefix(p, q) == Len(p) <= Len(q) /\ \A i \in 1..Len(p) : q[i] = p[i]

Path == Seq(Nat)

LEMMA PathsGrow ==
    ASSUME NEW q \in Path, NEW i \in Nat
    PROVE  /\ Append(q, i) \in Path /\ Len(q) \in Nat /\ Len(Append(q, i)) = Len(q) + 1
           /\ \A j \in 1..Len(q) : Append(q, i)[j] = q[j]
           /\ Append(q, i)[Len(q) + 1] = i
           /\ Prefix(q, Append(q, i))
<1>1. /\ Append(q, i) \in Path /\ Len(q) \in Nat /\ Len(Append(q, i)) = Len(q) + 1
      /\ \A j \in 1..Len(q) : Append(q, i)[j] = q[j]
      /\ Append(q, i)[Len(q) + 1] = i
  BY AppendProperties DEF Path
<1>. QED
  BY <1>1 DEF Prefix

LEMMA SameLength ==
    ASSUME NEW p \in Path, NEW q \in Path, Prefix(p, q), Len(p) = Len(q)
    PROVE  p = q
<1>1. \A i \in 1..Len(p) : p[i] = q[i]
  BY DEF Prefix
<1>. QED
  BY <1>1, SeqEqual DEF Path

LEMMA PrefixTrans ==
    ASSUME NEW p \in Path, NEW q \in Path, NEW r \in Path, Prefix(p, q), Prefix(q, r)
    PROVE  Prefix(p, r) /\ (Len(p) < Len(q) => r[Len(p) + 1] = q[Len(p) + 1])
<1>1. Len(p) \in Nat /\ Len(q) \in Nat /\ Len(r) \in Nat
  BY DEF Path
<1>. QED
  BY <1>1 DEF Prefix

LEMMA PrefixOfGrown ==
    ASSUME NEW p \in Path, NEW q \in Path, NEW i \in Nat, Prefix(p, Append(q, i))
    PROVE  p = Append(q, i) \/ Prefix(p, q)
<1>1. Len(p) \in Nat /\ Len(q) \in Nat
  BY DEF Path
<1>. DEFINE t == Append(q, i)
<1>0. /\ t \in Path /\ Len(t) = Len(q) + 1 /\ Prefix(p, t)
      /\ \A j \in 1..Len(q) : t[j] = q[j]
  BY PathsGrow
<1>. HIDE DEF t
<1>2. CASE Len(p) = Len(q) + 1
  <2>1. p = t
    BY <1>0, <1>2, SameLength
  <2>. QED
    BY <2>1 DEF t
<1>3. CASE Len(p) # Len(q) + 1
  BY <1>0, <1>1, <1>3 DEF Prefix
<1>. QED
  BY <1>2, <1>3

LEMMA GrownPrefix ==
    ASSUME NEW p \in Path, NEW q \in Path, NEW i \in Nat, Prefix(Append(q, i), p)
    PROVE  Prefix(q, p) /\ Len(q) < Len(p) /\ p[Len(q) + 1] = i
<1>1. Len(p) \in Nat /\ Len(q) \in Nat
  BY DEF Path
<1>2. Len(Append(q, i)) = Len(q) + 1 /\ Append(q, i)[Len(q) + 1] = i
      /\ \A j \in 1..Len(q) : Append(q, i)[j] = q[j]
  BY PathsGrow
<1>. QED
  BY <1>1, <1>2 DEF Prefix

LEMMA GrownAlike ==
    ASSUME NEW p \in Path, NEW q \in Path, NEW i \in Nat, NEW j \in Nat,
           Append(p, i) = Append(q, j)
    PROVE  p = q /\ i = j
<1>. DEFINE s == Append(p, i)
            t == Append(q, j)
<1>0. /\ Len(p) \in Nat /\ Len(s) = Len(p) + 1 /\ s[Len(p) + 1] = i
      /\ \A k \in 1..Len(p) : s[k] = p[k]
  BY PathsGrow
<1>1. /\ Len(q) \in Nat /\ Len(t) = Len(q) + 1 /\ t[Len(q) + 1] = j
      /\ \A k \in 1..Len(q) : t[k] = q[k]
  BY PathsGrow
<1>2. s = t
  OBVIOUS
<1>. HIDE DEF s, t
<1>3. i = j /\ Len(p) = Len(q) /\ \A k \in 1..Len(p) : p[k] = q[k]
  BY <1>0, <1>1, <1>2
<1>. QED
  BY <1>3, SeqEqual DEF Path

LEMMA InsideMeans ==
    ASSUME NEW n, NEW m, n.path \in Path, m.path \in Path
    PROVE  Inside(n, m) <=> Prefix(m.path, n.path) /\ Len(m.path) < Len(n.path)
<1>. DEFINE p == m.path
            q == n.path
<1>1. Len(p) \in Nat /\ Len(q) \in Nat
  BY DEF Path
<1>2. ASSUME Len(p) < Len(q)
      PROVE  /\ SubSeq(q, 1, Len(p)) \in Path /\ Len(SubSeq(q, 1, Len(p))) = Len(p)
             /\ \A i \in 1..Len(p) : SubSeq(q, 1, Len(p))[i] = q[i]
  <2>1. 1 \in 1..Len(q) + 1 /\ Len(p) \in 0..Len(q)
    BY <1>1, <1>2
  <2>. HIDE DEF p, q
  <2>2. q \in Seq(Nat)
    BY DEF q, Path
  <2>. QED
    BY <1>1, <2>1, <2>2, SubSeqProperties DEF Path
<1>. HIDE DEF p, q
<1>3. ASSUME Len(p) < Len(q), Prefix(p, q) PROVE SubSeq(q, 1, Len(p)) = p
  <2>1. \A i \in 1..Len(p) : SubSeq(q, 1, Len(p))[i] = p[i]
    BY <1>2, <1>3 DEF Prefix
  <2>2. p \in Seq(Nat) /\ SubSeq(q, 1, Len(p)) \in Seq(Nat)
    BY <1>2, <1>3 DEF p, Path
  <2>. QED
    BY <1>2, <1>3, <2>1, <2>2, SeqEqual
<1>4. ASSUME Len(p) < Len(q), SubSeq(q, 1, Len(p)) = p PROVE Prefix(p, q)
  BY <1>1, <1>2, <1>4 DEF Prefix
<1>. QED
  BY <1>1, <1>3, <1>4 DEF Inside, p, q

-----------------------------------------------------------------------------
Form == {"bare", "object", "list", "leaf"}
Frame == [of : Structs, path : Path, next : Nat \ {0}]
Node == [path : Path, type : Type, form : Form]
StructType(s) == [kind |-> "struct", of |-> s]
ObjectOf(f) == [path |-> f.path, type |-> StructType(f.of), form |-> "object"]

FramesOK(F, V) ==
    /\ F \in Seq(Frame)
    /\ V = {F[k].of : k \in 1..Len(F)}
    /\ \A j, k \in 1..Len(F) : j < k => /\ F[j].of # F[k].of
                                        /\ Prefix(F[j].path, F[k].path)
                                        /\ Len(F[j].path) < Len(F[k].path)

NodesOK(N) ==
    /\ N \subseteq Node
    /\ \A n \in N : /\ n.form \in {"bare", "object"} <=> n.type.kind = "struct"
                    /\ n.form = "list" => n.type.kind = "list"
    /\ \A n, m \in N : n.path = m.path => n = m
    /\ \A n \in N : n.form = "bare" <=>
          /\ n.type.kind = "struct"
          /\ \E m \in N : m.type = n.type /\ Prefix(m.path, n.path) /\ Len(m.path) < Len(n.path)
    /\ \A n \in N : n.form = "list" => \E m \in N : m.path = Append(n.path, Element)

Joint(F, N) ==
    /\ \A k \in 1..Len(F) : ObjectOf(F[k]) \in N
    /\ \A k \in 1..Len(F), m \in N :
          m.type.kind = "struct" /\ Prefix(m.path, F[k].path)
              => \E j \in 1..Len(F) : F[j].path = m.path
    /\ \A k \in 1..Len(F), n \in N :
          Prefix(F[k].path, n.path) /\ Len(F[k].path) < Len(n.path)
              => n.path[Len(F[k].path) + 1] < F[k].next

Exact(N, path, type) ==
    /\ type.kind = "hidden" => \A m \in N : m.path # path
    /\ type.kind # "hidden" => /\ \E m \in N : m.path = path
                               /\ \A m \in N : m.path = path => m.type = type

Children(L, F, N) ==
    \A n \in N : n.form = "object" =>
        \A i \in 1..Len(L[n.type.of]) :
            (\A k \in 1..Len(F) : F[k].path = n.path => i < F[k].next)
                => Exact(N, Append(n.path, i), L[n.type.of][i])

-----------------------------------------------------------------------------
(* What one call writes, and when it may be made: nothing is written at or *)
(* below its path, and it is below the frames, at a field they have taken. *)
Reached(path, type) == IF type.kind = "list" THEN Append(path, Element) ELSE path
Opens(V, type) == type.of \in Structs /\ type.of \notin V

NewNode(V, path, type) ==
    [path |-> Reached(path, type),
     type |-> [kind |-> IF type.of \in Structs THEN "struct" ELSE "leaf", of |-> type.of],
     form |-> IF type.of \notin Structs THEN "leaf" ELSE IF type.of \in V THEN "bare" ELSE "object"]
ListNode(path, type) == [path |-> path, type |-> type, form |-> "list"]
NewFrame(path, type) == [of |-> type.of, path |-> Reached(path, type), next |-> 1]

NodesAfter(V, N, path, type) ==
    N \cup {NewNode(V, path, type)}
      \cup (IF type.kind = "list" THEN {ListNode(path, type)} ELSE {})
FramesAfter(F, V, path, type) == IF Opens(V, type) THEN Append(F, NewFrame(path, type)) ELSE F
VisitingAfter(V, type) == IF Opens(V, type) THEN V \cup {type.of} ELSE V

Ready(F, V, N, path, type) ==
    /\ FramesOK(F, V) /\ NodesOK(N) /\ Joint(F, N)
    /\ path \in Path /\ type \in Type /\ type.kind # "hidden"
    /\ \A n \in N : ~Prefix(path, n.path)
    /\ \A m \in N : Prefix(m.path, path) => \E k \in 1..Len(F) : Prefix(m.path, F[k].path)
    /\ \A k \in 1..Len(F) : /\ Prefix(F[k].path, path) /\ Len(F[k].path) < Len(path)
                            /\ path[Len(F[k].path) + 1] < F[k].next

LEMMA VisitWrites ==
    ASSUME NEW F, NEW path, NEW type
    PROVE  Visit(F, path, type) <=> /\ nodes' = NodesAfter(visiting, nodes, path, type)
                                    /\ frames' = FramesAfter(F, visiting, path, type)
                                    /\ visiting' = VisitingAfter(visiting, type)
  BY DEF Visit, NodesAfter, NewNode, ListNode, NewFrame, FramesAfter, VisitingAfter, Opens, Reached

(* The new nodes, and what is below or above them. *)
LEMMA NewNodes ==
    ASSUME NEW F, NEW V, NEW N, NEW path, NEW type, Ready(F, V, N, path, type)
    PROVE  /\ NewNode(V, path, type) \in Node /\ ListNode(path, type) \in Node
           /\ Reached(path, type) \in Path
           /\ Prefix(path, Reached(path, type)) /\ Prefix(path, path)
           /\ Len(path) \in Nat
           /\ type.kind = "list" => Len(Reached(path, type)) = Len(path) + 1
           /\ type.kind # "list" =>
                 /\ Reached(path, type) = path
                 /\ [kind |-> IF type.of \in Structs THEN "struct" ELSE "leaf", of |-> type.of] = type
           /\ \A n \in N : n.path \in Path /\ n.path # path /\ n.path # Reached(path, type)
           /\ \A n \in N : ~Prefix(Reached(path, type), n.path)
           /\ \A p \in Path : Prefix(p, Reached(path, type)) => p = Reached(path, type) \/ Prefix(p, path)
<1>. DEFINE place == Reached(path, type)
<1>1. path \in Path /\ Len(path) \in Nat /\ type \in Type /\ type.kind # "hidden"
      /\ \A n \in N : n.path \in Path /\ ~Prefix(path, n.path)
  BY DEF Ready, NodesOK, Node, Path
<1>2. Prefix(path, path)
  BY <1>1 DEF Prefix
<1>4. /\ place \in Path /\ Prefix(path, place) /\ Len(place) \in Nat
      /\ type.kind = "list" => Len(place) = Len(path) + 1
      /\ type.kind # "list" => place = path
      /\ \A p \in Path : Prefix(p, place) => p = place \/ Prefix(p, path)
  <2>1. CASE type.kind = "list"
    <3>1. place = Append(path, 0) /\ 0 \in Nat
      BY <2>1 DEF Reached, Element
    <3>2. place \in Path /\ Len(place) = Len(path) + 1 /\ Prefix(path, place)
      BY <1>1, <3>1, PathsGrow
    <3>3. \A p \in Path : Prefix(p, place) => p = place \/ Prefix(p, path)
      BY <1>1, <3>1, PrefixOfGrown
    <3>. HIDE DEF place
    <3>. QED
      BY <1>1, <2>1, <3>2, <3>3
  <2>2. CASE type.kind # "list"
    <3>1. place = path
      BY <2>2 DEF Reached
    <3>. HIDE DEF place
    <3>. QED
      BY <1>1, <1>2, <2>2, <3>1
  <2>. QED
    BY <2>1, <2>2
<1>5. \/ type = Leaf /\ type.of \notin Structs /\ type.kind = "leaf"
      \/ type.kind = "struct" /\ type.of \in Structs /\ type = [kind |-> "struct", of |-> type.of]
      \/ type.kind = "list" /\ type.of \in Structs \cup {"scalar"}
  BY <1>1, LayoutsAssumption DEF Type, Leaf
<1>6. "scalar" \notin Structs
  BY LayoutsAssumption
<1>7. [kind |-> IF type.of \in Structs THEN "struct" ELSE "leaf", of |-> type.of] \in Type
  BY <1>5, <1>6 DEF Type, Leaf
<1>8. type.kind # "list" =>
        [kind |-> IF type.of \in Structs THEN "struct" ELSE "leaf", of |-> type.of] = type
  BY <1>5, <1>6 DEF Leaf
<1>9. NewNode(V, path, type) \in Node /\ ListNode(path, type) \in Node
  <2>. HIDE DEF place
  <2>1. place \in Path
    BY <1>4
  <2>. QED
    BY <1>1, <1>7, <2>1 DEF NewNode, ListNode, Node, Form, place
<1>10. \A n \in N : n.path # path /\ n.path # place /\ ~Prefix(place, n.path)
  <2>. HIDE DEF place
  <2>. QED
    BY <1>1, <1>2, <1>4, PrefixTrans
<1>. HIDE DEF place
<1>. QED
  BY <1>1, <1>2, <1>4, <1>8, <1>9, <1>10 DEF place

(* A node above the new one that stands for a struct is a frame's.         *)
LEMMA AboveAreFrames ==
    ASSUME NEW F, NEW V, NEW N, NEW path, NEW type, Ready(F, V, N, path, type),
           NEW m \in N, m.type.kind = "struct", Prefix(m.path, Reached(path, type))
    PROVE  \E k \in 1..Len(F) : F[k].path = m.path /\ m = ObjectOf(F[k])
<1>1. m.path \in Path /\ m.path # Reached(path, type)
  BY NewNodes
<1>2. Prefix(m.path, path)
  BY <1>1, NewNodes
<1>3. PICK k \in 1..Len(F) : Prefix(m.path, F[k].path)
  BY <1>2 DEF Ready
<1>4. PICK j \in 1..Len(F) : F[j].path = m.path
  BY <1>3 DEF Ready, Joint
<1>5. ObjectOf(F[j]) \in N /\ ObjectOf(F[j]).path = F[j].path
  BY DEF Ready, Joint, ObjectOf
<1>6. m = ObjectOf(F[j])
  BY <1>4, <1>5 DEF Ready, NodesOK
<1>. QED
  BY <1>4, <1>6

(* The frames are above the new node. *)
LEMMA FramesAreAbove ==
    ASSUME NEW F, NEW V, NEW N, NEW path, NEW type, Ready(F, V, N, path, type), NEW k \in 1..Len(F)
    PROVE  /\ F[k] \in Frame /\ F[k].path \in Path /\ Len(F[k].path) \in Nat
           /\ Len(F[k].path) < Len(path)
           /\ Prefix(F[k].path, path) /\ Prefix(F[k].path, Reached(path, type))
           /\ Len(F[k].path) < Len(Reached(path, type))
           /\ path[Len(F[k].path) + 1] < F[k].next
           /\ Reached(path, type)[Len(F[k].path) + 1] < F[k].next
           /\ ~Prefix(path, F[k].path)
<1>. DEFINE place == Reached(path, type)
            q == F[k].path
<1>1. F[k] \in Frame /\ Prefix(q, path) /\ Len(q) < Len(path) /\ path[Len(q) + 1] < F[k].next
  BY DEF Ready, FramesOK
<1>2. q \in Path /\ Len(q) \in Nat
  BY <1>1 DEF Frame, Path
<1>3. path \in Path /\ place \in Path /\ Prefix(path, place)
  BY NewNodes DEF Ready
<1>. HIDE DEF place, q
<1>6. Len(path) \in Nat /\ Len(place) \in Nat
  BY <1>3 DEF Path
<1>4. Prefix(q, place) /\ place[Len(q) + 1] = path[Len(q) + 1]
  BY <1>1, <1>2, <1>3, PrefixTrans
<1>5. Len(q) < Len(place) /\ ~Prefix(path, q)
  BY <1>1, <1>2, <1>3, <1>6 DEF Prefix
<1>. QED
  BY <1>1, <1>2, <1>4, <1>5 DEF place, q

LEMMA VisitKeepsNodes ==
    ASSUME NEW F, NEW V, NEW N, NEW path, NEW type, Ready(F, V, N, path, type)
    PROVE  NodesOK(NodesAfter(V, N, path, type))
<1>. DEFINE A == NewNode(V, path, type)
            B == ListNode(path, type)
            place == Reached(path, type)
            N2 == NodesAfter(V, N, path, type)
<1>1. NodesOK(N) /\ V = {F[k].of : k \in 1..Len(F)}
  BY DEF Ready, FramesOK
<1>2. \A n \in N2 : n \in N \/ n = A \/ (type.kind = "list" /\ n = B)
  BY DEF NodesAfter
<1>3. N \subseteq N2 /\ A \in N2 /\ (type.kind = "list" => B \in N2)
  BY DEF NodesAfter
<1>4. /\ A.path = place /\ A.type.of = type.of
      /\ A.type.kind = (IF type.of \in Structs THEN "struct" ELSE "leaf")
      /\ A.form = (IF type.of \notin Structs THEN "leaf"
                   ELSE IF type.of \in V THEN "bare" ELSE "object")
      /\ type.of \in Structs => A.type = StructType(type.of)
  BY DEF NewNode, StructType
<1>5. B.path = path /\ B.type = type /\ B.form = "list"
  BY DEF ListNode
<1>6. A \in Node /\ B \in Node
  BY NewNodes
<1>7. /\ place \in Path /\ path \in Path /\ Len(path) \in Nat /\ Len(place) \in Nat /\ Prefix(path, place)
      /\ type.kind = "list" => Len(place) = Len(path) + 1
      /\ Prefix(path, path)
      /\ \A n \in N : n.path \in Path /\ n.path # path /\ n.path # place
      /\ \A n \in N : ~Prefix(path, n.path) /\ ~Prefix(place, n.path)
  <2>1. path \in Path /\ \A n \in N : ~Prefix(path, n.path)
    BY DEF Ready
  <2>2. /\ place \in Path /\ Len(path) \in Nat /\ Prefix(path, place)
        /\ type.kind = "list" => Len(place) = Len(path) + 1
        /\ Prefix(path, path)
        /\ \A n \in N : n.path \in Path /\ n.path # path /\ n.path # place
        /\ \A n \in N : ~Prefix(place, n.path)
    BY NewNodes
  <2>. HIDE DEF place
  <2>3. Len(place) \in Nat
    BY <2>2 DEF Path
  <2>. QED
    BY <2>1, <2>2, <2>3
<1>. HIDE DEF A, B, place, N2
<1>8. N2 \subseteq Node
  BY <1>1, <1>2, <1>6 DEF NodesOK
<1>9. ASSUME NEW n \in N2
      PROVE  /\ n.form \in {"bare", "object"} <=> n.type.kind = "struct"
             /\ n.form = "list" => n.type.kind = "list"
  <2>1. CASE n \in N
    BY <1>1, <2>1 DEF NodesOK
  <2>2. CASE n = A
    BY <1>4, <2>2
  <2>3. CASE type.kind = "list" /\ n = B
    BY <1>5, <2>3
  <2>. QED
    BY <1>2, <2>1, <2>2, <2>3
<1>10. ASSUME NEW n \in N2, NEW m \in N2, n.path = m.path PROVE n = m
  <2>1. CASE n \in N /\ m \in N
    BY <1>1, <1>10, <2>1 DEF NodesOK
  <2>2. A.path = place /\ (type.kind = "list" => B.path = path /\ A.path # B.path)
    BY <1>4, <1>5, <1>7
  <2>. QED
    BY <1>2, <1>7, <1>10, <2>1, <2>2
(* Nothing is below the new nodes, so old ones have the same above them. *)
<1>11. ASSUME NEW n \in N, NEW m \in N2, Prefix(m.path, n.path) PROVE m \in N
  BY <1>2, <1>4, <1>5, <1>7, <1>11
<1>12. ASSUME NEW n \in N2
       PROVE  n.form = "bare" <=>
                /\ n.type.kind = "struct"
                /\ \E m \in N2 : m.type = n.type /\ Prefix(m.path, n.path)
                                 /\ Len(m.path) < Len(n.path)
  <2>1. CASE n \in N
    BY <1>1, <1>3, <1>11, <2>1 DEF NodesOK
  <2>2. CASE type.kind = "list" /\ n = B
    BY <1>5, <2>2
  <2>3. CASE n = A
    <3>1. ASSUME A.form = "bare"
          PROVE  /\ A.type.kind = "struct"
                 /\ \E m \in N2 : m.type = A.type /\ Prefix(m.path, place) /\ Len(m.path) < Len(place)
      <4>1. type.of \in Structs /\ type.of \in V
        BY <1>4, <3>1
      <4>2. PICK k \in 1..Len(F) : F[k].of = type.of
        BY <1>1, <4>1
      <4>3. ObjectOf(F[k]) \in N
        BY DEF Ready, Joint
      <4>4. ObjectOf(F[k]).type = A.type /\ ObjectOf(F[k]).path = F[k].path
        BY <1>4, <4>1, <4>2 DEF ObjectOf
      <4>5. Prefix(F[k].path, place) /\ Len(F[k].path) < Len(place)
        BY FramesAreAbove DEF place
      <4>. QED
        BY <1>3, <1>4, <4>1, <4>3, <4>4, <4>5
    <3>2. ASSUME A.type.kind = "struct",
                 NEW m \in N2, m.type = A.type, Prefix(m.path, place), Len(m.path) < Len(place)
          PROVE  A.form = "bare"
      <4>2. m \in N
        BY <1>2, <1>4, <1>5, <1>7, <3>2
      <4>3. PICK k \in 1..Len(F) : m = ObjectOf(F[k])
        BY <3>2, <4>2, AboveAreFrames DEF place
      <4>4. m.type.of = F[k].of
        BY <4>3 DEF ObjectOf, StructType
      <4>5. type.of \in V /\ type.of \in Structs
        BY <1>1, <1>4, <3>2, <4>4
      <4>. QED
        BY <1>4, <4>5
    <3>. QED
      BY <1>4, <2>3, <3>1, <3>2
  <2>. QED
    BY <1>2, <2>1, <2>2, <2>3
<1>13. ASSUME NEW n \in N2, n.form = "list" PROVE \E m \in N2 : m.path = Append(n.path, Element)
  <2>1. CASE n \in N
    BY <1>1, <1>3, <1>13, <2>1 DEF NodesOK
  <2>2. CASE type.kind = "list" /\ n = B
    <3>1. place = Append(path, Element)
      BY <2>2 DEF place, Reached
    <3>. QED
      BY <1>3, <1>4, <1>5, <2>2, <3>1
  <2>. QED
    BY <1>2, <1>4, <1>13, <2>1, <2>2
<1>. HIDE DEF NodesOK
<1>14. NodesOK(N2)
  BY <1>8, <1>9, <1>10, <1>12, <1>13 DEF NodesOK
<1>. QED
  BY <1>14 DEF N2

LEMMA VisitKeepsFrames ==
    ASSUME NEW F, NEW V, NEW N, NEW path, NEW type, Ready(F, V, N, path, type)
    PROVE  FramesOK(FramesAfter(F, V, path, type), VisitingAfter(V, type))
<1>. DEFINE f == NewFrame(path, type)
            G == FramesAfter(F, V, path, type)
            n == Len(F)
<1>0. FramesOK(F, V)
  BY DEF Ready
<1>1. F \in Seq(Frame) /\ n \in Nat /\ V = {F[k].of : k \in 1..n}
  BY <1>0 DEF FramesOK
<1>2. CASE ~Opens(V, type)
  BY <1>0, <1>2 DEF FramesAfter, VisitingAfter
<1>3. CASE Opens(V, type)
  <2>1. f \in Frame /\ f.of = type.of /\ f.path = Reached(path, type)
    BY <1>3, NewNodes DEF NewFrame, Frame, Opens
  <2>2. G = Append(F, f) /\ VisitingAfter(V, type) = V \cup {type.of}
    BY <1>3 DEF FramesAfter, VisitingAfter
  <2>. HIDE DEF f, G
  <2>3. /\ G \in Seq(Frame) /\ Len(G) = n + 1 /\ G[n + 1] = f
        /\ \A k \in 1..n : G[k] = F[k]
    BY <1>1, <2>1, <2>2, AppendProperties
  <2>4. ASSUME NEW j \in 1..Len(G), NEW k \in 1..Len(G), j < k
        PROVE  /\ G[j].of # G[k].of /\ Prefix(G[j].path, G[k].path)
               /\ Len(G[j].path) < Len(G[k].path)
    <3>1. j \in 1..n /\ G[j] = F[j]
      BY <1>1, <2>3, <2>4
    <3>2. CASE k \in 1..n
      BY <1>0, <2>3, <2>4, <3>1, <3>2 DEF FramesOK
    <3>3. CASE k = n + 1
      <4>1. F[j].of # type.of
        BY <1>1, <1>3, <3>1 DEF Opens
      <4>2. Prefix(F[j].path, Reached(path, type)) /\ Len(F[j].path) < Len(Reached(path, type))
        BY <3>1, FramesAreAbove
      <4>. QED
        BY <2>1, <2>3, <3>1, <3>3, <4>1, <4>2
    <3>. QED
      BY <1>1, <2>3, <3>2, <3>3
  <2>5. VisitingAfter(V, type) = {G[k].of : k \in 1..Len(G)}
    <3>1. \A k \in 1..Len(G) : k \in 1..n \/ k = n + 1
      BY <1>1, <2>3
    <3>2. n + 1 \in 1..Len(G) /\ \A k \in 1..n : k \in 1..Len(G)
      BY <1>1, <2>3
    <3>. QED
      BY <1>1, <2>1, <2>2, <2>3, <3>1, <3>2
  <2>6. FramesOK(G, VisitingAfter(V, type))
    BY <2>3, <2>4, <2>5 DEF FramesOK
  <2>. QED
    BY <2>6 DEF G
<1>. QED
  BY <1>2, <1>3

LEMMA VisitKeepsJoint ==
    ASSUME NEW F, NEW V, NEW N, NEW path, NEW type, Ready(F, V, N, path, type)
    PROVE  Joint(FramesAfter(F, V, path, type), NodesAfter(V, N, path, type))
<1>. DEFINE A == NewNode(V, path, type)
            B == ListNode(path, type)
            place == Reached(path, type)
            N2 == NodesAfter(V, N, path, type)
            f == NewFrame(path, type)
            G == FramesAfter(F, V, path, type)
            n == Len(F)
<1>0. F \in Seq(Frame) /\ n \in Nat /\ Joint(F, N)
  BY DEF Ready, FramesOK
<1>1. \A m \in N2 : m \in N \/ m = A \/ (type.kind = "list" /\ m = B)
  BY DEF NodesAfter
<1>2. N \subseteq N2 /\ A \in N2
  BY DEF NodesAfter
<1>3. A.path = place /\ B.path = path /\ B.type = type
  BY DEF NewNode, ListNode
<1>11. path \in Path /\ \A m \in N : ~Prefix(path, m.path)
  BY DEF Ready
<1>12. \A m \in N : m.path \in Path /\ ~Prefix(place, m.path)
  BY NewNodes
<1>4. \A m \in N : m.path \in Path /\ ~Prefix(path, m.path) /\ ~Prefix(place, m.path)
  BY <1>11, <1>12
<1>13. /\ place \in Path /\ Prefix(path, place) /\ Prefix(path, path)
       /\ type.kind = "list" => Len(place) = Len(path) + 1
  BY NewNodes
<1>5. /\ place \in Path /\ path \in Path /\ Prefix(path, place) /\ Prefix(path, path)
      /\ type.kind = "list" => Len(place) = Len(path) + 1
  BY <1>11, <1>13
<1>6. \A k \in 1..n : /\ F[k].path \in Path /\ Prefix(F[k].path, path) /\ Prefix(F[k].path, place)
                      /\ path[Len(F[k].path) + 1] < F[k].next /\ place[Len(F[k].path) + 1] < F[k].next
                      /\ ~Prefix(path, F[k].path)
  BY FramesAreAbove
<1>. HIDE DEF A, B, place, N2, f, G
<1>7. Len(place) \in Nat /\ Len(path) \in Nat
  BY <1>5 DEF Path
(* The frames of before. *)
<1>8. ASSUME NEW k \in 1..n
      PROVE  /\ ObjectOf(F[k]) \in N2
             /\ \A m \in N2 : m.type.kind = "struct" /\ Prefix(m.path, F[k].path)
                                => \E j \in 1..n : F[j].path = m.path
             /\ \A m \in N2 : Prefix(F[k].path, m.path) /\ Len(F[k].path) < Len(m.path)
                                => m.path[Len(F[k].path) + 1] < F[k].next
  <2>1. ObjectOf(F[k]) \in N2
    BY <1>0, <1>2 DEF Joint
  <2>2. ASSUME NEW m \in N2, m.type.kind = "struct", Prefix(m.path, F[k].path)
        PROVE  \E j \in 1..n : F[j].path = m.path
    <3>1. m.path # path /\ m.path # place
      BY <1>5, <1>6, <2>2, PrefixTrans
    <3>2. m \in N
      BY <1>1, <1>3, <3>1
    <3>. QED
      BY <1>0, <2>2, <3>2 DEF Joint
  <2>3. ASSUME NEW m \in N2, Prefix(F[k].path, m.path), Len(F[k].path) < Len(m.path)
        PROVE  m.path[Len(F[k].path) + 1] < F[k].next
    <3>1. CASE m \in N
      BY <1>0, <2>3, <3>1 DEF Joint
    <3>2. CASE m.path = path \/ m.path = place
      BY <1>6, <3>2
    <3>. QED
      BY <1>1, <1>3, <3>1, <3>2
  <2>. QED
    BY <2>1, <2>2, <2>3
<1>9. CASE ~Opens(V, type)
  <2>1. G = F
    BY <1>9 DEF FramesAfter, G
  <2>2. Joint(F, N2)
    BY <1>8 DEF Joint
  <2>. QED
    BY <2>1, <2>2 DEF G, N2
<1>10. CASE Opens(V, type)
  <2>1. f \in Frame /\ f.of = type.of /\ f.path = place /\ f.next = 1
    BY <1>10, <1>5 DEF NewFrame, Frame, Opens, f, place
  <2>2. G = Append(F, f)
    BY <1>10 DEF FramesAfter, G, f
  <2>3. /\ Len(G) = n + 1 /\ G[n + 1] = f
        /\ \A k \in 1..n : G[k] = F[k]
    BY <1>0, <2>1, <2>2, AppendProperties
  <2>4. \A k \in 1..Len(G) : k \in 1..n \/ k = n + 1
    BY <1>0, <2>3
  <2>5. \A k \in 1..n : k \in 1..Len(G)
    BY <1>0, <2>3
  <2>6. ObjectOf(f) = A
    BY <1>10, <2>1 DEF ObjectOf, A, NewNode, StructType, Opens, place
  <2>7. ASSUME NEW m \in N2, m.type.kind = "struct", Prefix(m.path, place)
        PROVE  \E j \in 1..Len(G) : G[j].path = m.path
    <3>1. CASE m \in N
      <4>1. PICK j \in 1..n : F[j].path = m.path
        BY <2>7, <3>1, AboveAreFrames DEF place
      <4>. QED
        BY <2>3, <2>5, <4>1
    <3>2. CASE m = A
      BY <1>0, <1>3, <2>1, <2>3, <3>2
    <3>3. m # B \/ type.kind # "list"
      BY <1>3, <2>7
    <3>. QED
      BY <1>1, <3>1, <3>2, <3>3
  <2>8. ASSUME NEW m \in N2, Prefix(place, m.path), Len(place) < Len(m.path) PROVE FALSE
    BY <1>1, <1>3, <1>4, <1>5, <1>7, <2>8
  <2>9. ASSUME NEW k \in 1..Len(G)
        PROVE  /\ ObjectOf(G[k]) \in N2
               /\ \A m \in N2 : m.type.kind = "struct" /\ Prefix(m.path, G[k].path)
                                  => \E j \in 1..Len(G) : G[j].path = m.path
               /\ \A m \in N2 : Prefix(G[k].path, m.path) /\ Len(G[k].path) < Len(m.path)
                                  => m.path[Len(G[k].path) + 1] < G[k].next
    <3>1. CASE k \in 1..n
      <4>1. G[k] = F[k]
        BY <2>3, <3>1
      <4>2. \A j \in 1..n : j \in 1..Len(G) /\ G[j] = F[j]
        BY <2>3, <2>5
      <4>. QED
        BY <1>8, <3>1, <4>1, <4>2
    <3>2. CASE k = n + 1
      BY <1>2, <2>1, <2>3, <2>6, <2>7, <2>8, <3>2
    <3>. QED
      BY <2>4, <3>1, <3>2
  <2>10. Joint(G, N2)
    BY <2>9 DEF Joint
  <2>. QED
    BY <2>10 DEF G, N2
<1>. QED
  BY <1>9, <1>10

(* The fields taken so far are written, if the one that is being visited   *)
(* has the type it is visited with.                                        *)
ChildrenBut(L, F, N, path, type) ==
    \A n \in N : n.form = "object" =>
        \A i \in 1..Len(L[n.type.of]) :
            (\A k \in 1..Len(F) : F[k].path = n.path => i < F[k].next)
                => IF Append(n.path, i) = path THEN L[n.type.of][i] = type
                   ELSE Exact(N, Append(n.path, i), L[n.type.of][i])

LEMMA VisitKeepsChildren ==
    ASSUME NEW F, NEW V, NEW N, NEW path, NEW type, Ready(F, V, N, path, type),
           NEW L, \A s \in Structs : L[s] \in Seq(Type), ChildrenBut(L, F, N, path, type)
    PROVE  Children(L, FramesAfter(F, V, path, type), NodesAfter(V, N, path, type))
<1>. DEFINE A == NewNode(V, path, type)
            B == ListNode(path, type)
            place == Reached(path, type)
            N2 == NodesAfter(V, N, path, type)
            f == NewFrame(path, type)
            G == FramesAfter(F, V, path, type)
<1>0. F \in Seq(Frame) /\ Len(F) \in Nat /\ NodesOK(N) /\ type.kind # "hidden" /\ path \in Path
  BY DEF Ready, FramesOK
<1>1. \A m \in N2 : m \in N \/ m = A \/ (type.kind = "list" /\ m = B)
  BY DEF NodesAfter
<1>2. N \subseteq N2 /\ A \in N2 /\ (type.kind = "list" => B \in N2)
  BY DEF NodesAfter
<1>3. A.path = place /\ B.path = path /\ B.type = type /\ B.form = "list"
  BY DEF NewNode, ListNode
<1>4. /\ type.kind = "list" => place = Append(path, 0)
      /\ type.kind # "list" => place = path /\ A.type = type
  BY NewNodes DEF NewNode, Reached, Element
<1>5. \A m \in N : m.path \in Path /\ m.path # path
  BY NewNodes
<1>6. A.form = "object" => Opens(V, type)
  BY DEF NewNode, Opens
<1>7. Opens(V, type) => G = Append(F, f) /\ f \in Frame /\ f.path = place /\ f.next = 1
  BY NewNodes DEF FramesAfter, NewFrame, Frame, Opens
<1>8. ~Opens(V, type) => G = F
  BY DEF FramesAfter
<1>. HIDE DEF A, B, place, N2, f, G
<1>9. /\ Len(G) \in Nat /\ \A k \in 1..Len(F) : k \in 1..Len(G) /\ G[k] = F[k]
      /\ Opens(V, type) => Len(G) \in 1..Len(G) /\ G[Len(G)] = f
  <2>1. CASE Opens(V, type)
    <3>1. G = Append(F, f) /\ f \in Frame
      BY <1>7, <2>1
    <3>2. Len(G) = Len(F) + 1 /\ G[Len(F) + 1] = f /\ \A k \in 1..Len(F) : G[k] = F[k]
      BY <1>0, <3>1, AppendProperties
    <3>. QED
      BY <1>0, <3>2
  <2>2. CASE ~Opens(V, type)
    BY <1>0, <1>8, <2>2
  <2>. QED
    BY <2>1, <2>2
<1>10. ASSUME NEW n \in N, n.form = "object", NEW i \in 1..Len(L[n.type.of]),
              \A k \in 1..Len(G) : G[k].path = n.path => i < G[k].next
       PROVE  Exact(N2, Append(n.path, i), L[n.type.of][i])
  <2>1. \A k \in 1..Len(F) : F[k].path = n.path => i < F[k].next
    BY <1>9, <1>10
  <2>2. IF Append(n.path, i) = path THEN L[n.type.of][i] = type
        ELSE Exact(N, Append(n.path, i), L[n.type.of][i])
    BY <1>10, <2>1 DEF ChildrenBut
  <2>3. CASE Append(n.path, i) = path
    <3>1. \E m \in N2 : m.path = path
      BY <1>2, <1>3, <1>4
    <3>2. path # Append(path, 0)
      <4>1. Len(Append(path, 0)) = Len(path) + 1 /\ Len(path) \in Nat
        BY <1>0, PathsGrow
      <4>. QED
        BY <4>1
    <3>3. \A m \in N2 : m.path = path => m.type = type
      BY <1>1, <1>3, <1>4, <1>5, <3>2
    <3>. QED
      BY <1>0, <2>2, <2>3, <3>1, <3>3 DEF Exact
  <2>4. CASE Append(n.path, i) # path
    <3>1. Append(n.path, i) # place
      <4>1. CASE type.kind = "list"
        <5>1. i \in Nat /\ i # 0 /\ 0 \in Nat /\ n.path \in Path
          BY <1>5, <1>10
        <5>2. Append(n.path, i) # Append(path, 0)
          BY <1>0, <5>1, GrownAlike
        <5>. QED
          BY <1>4, <4>1, <5>2
      <4>2. CASE type.kind # "list"
        BY <1>4, <2>4, <4>2
      <4>. QED
        BY <4>1, <4>2
    <3>2. \A m \in N2 : m.path = Append(n.path, i) => m \in N
      BY <1>1, <1>3, <2>4, <3>1
    <3>3. Exact(N, Append(n.path, i), L[n.type.of][i])
      BY <2>2, <2>4
    <3>. QED
      BY <1>2, <3>2, <3>3 DEF Exact
  <2>. QED
    BY <2>3, <2>4
<1>11. ASSUME A.form = "object", NEW i \in 1..Len(L[A.type.of]),
              \A k \in 1..Len(G) : G[k].path = A.path => i < G[k].next
       PROVE  FALSE
  <2>1. i < 1
    BY <1>3, <1>6, <1>7, <1>9, <1>11
  <2>. QED
    BY <2>1
<1>12. Children(L, G, N2)
  <2>. SUFFICES ASSUME NEW n \in N2, n.form = "object", NEW i \in 1..Len(L[n.type.of]),
                       \A k \in 1..Len(G) : G[k].path = n.path => i < G[k].next
                PROVE  Exact(N2, Append(n.path, i), L[n.type.of][i])
    BY DEF Children
  <2>1. n # B
    BY <1>3
  <2>2. CASE n \in N
    BY <1>10, <2>2
  <2>3. CASE n = A
    BY <1>11, <2>3
  <2>. QED
    BY <1>1, <2>1, <2>2, <2>3
<1>. QED
  BY <1>12 DEF G, N2

-----------------------------------------------------------------------------
(* The frames with the next field of the last one taken.                   *)
Advanced(F) == Append(SubSeq(F, 1, Len(F) - 1), [F[Len(F)] EXCEPT !.next = @ + 1])

LEMMA TakesOneField ==
    ASSUME NEW F \in Seq(Frame), F # <<>>
    PROVE  /\ Advanced(F) \in Seq(Frame) /\ Len(F) \in 1..Len(F) /\ Len(Advanced(F)) = Len(F)
           /\ \A k \in 1..Len(F) : /\ F[k] \in Frame
                                   /\ Advanced(F)[k].of = F[k].of /\ Advanced(F)[k].path = F[k].path
                                   /\ k # Len(F) => Advanced(F)[k].next = F[k].next
           /\ Advanced(F)[Len(F)].next = F[Len(F)].next + 1
<1>. DEFINE n == Len(F)
            B == SubSeq(F, 1, n - 1)
            t == [F[n] EXCEPT !.next = @ + 1]
<1>1. n \in Nat /\ n > 0 /\ n \in 1..n
  BY EmptySeq, LenProperties
<1>2. \A k \in 1..n : F[k] \in Frame
  BY ElementOfSeq
<1>3. t \in Frame /\ t.of = F[n].of /\ t.path = F[n].path /\ t.next = F[n].next + 1
  BY <1>1, <1>2 DEF Frame
<1>4. B \in Seq(Frame) /\ Len(B) = n - 1 /\ \A k \in 1..n - 1 : B[k] = F[k]
  <2>1. 1 \in 1..Len(F) + 1 /\ n - 1 \in 0..Len(F)
    BY <1>1
  <2>2. /\ B \in Seq(Frame)
        /\ Len(B) = IF 1 <= n - 1 THEN n - 1 - 1 + 1 ELSE 0
        /\ \A k \in 1..n - 1 - 1 + 1 : B[k] = F[1 + k - 1]
    BY <2>1, SubSeqProperties
  <2>. HIDE DEF n, B
  <2>3. \A k \in 1..n - 1 : k \in 1..n - 1 - 1 + 1 /\ 1 + k - 1 = k
    BY <1>1
  <2>. QED
    BY <1>1, <2>2, <2>3
<1>. HIDE DEF n, B, t
<1>5. /\ Append(B, t) \in Seq(Frame) /\ Len(Append(B, t)) = n /\ Append(B, t)[n] = t
      /\ \A k \in 1..n - 1 : Append(B, t)[k] = F[k]
  BY <1>1, <1>3, <1>4, AppendProperties
<1>6. Advanced(F) = Append(B, t)
  BY DEF Advanced, B, t, n
<1>7. \A k \in 1..n : k = n \/ k \in 1..n - 1
  BY <1>1
<1>. QED
  BY <1>1, <1>2, <1>3, <1>5, <1>6, <1>7 DEF n

(* Taking a field keeps what is known of the frames, and the field that is *)
(* taken is ready to be visited, or hidden.                                *)
LEMMA FieldTaken ==
    ASSUME NEW L, \A s \in Structs : L[s] \in Seq(Type),
           NEW F, NEW V, NEW N,
           FramesOK(F, V), NodesOK(N), Joint(F, N), Children(L, F, N),
           F # <<>>, F[Len(F)].next <= Len(L[F[Len(F)].of])
    PROVE  LET top  == F[Len(F)]
               G    == Advanced(F)
               path == Append(top.path, top.next)
               type == L[top.of][top.next]
           IN  /\ FramesOK(G, V) /\ Joint(G, N)
               /\ type.kind # "hidden" => Ready(G, V, N, path, type) /\ ChildrenBut(L, G, N, path, type)
               /\ type.kind = "hidden" => Children(L, G, N)
<1>. DEFINE n == Len(F)
            top == F[n]
            G == Advanced(F)
            q == top.path
            path == Append(q, top.next)
            type == L[top.of][top.next]
<1>1. F \in Seq(Frame)
  BY DEF FramesOK
<1>2. /\ G \in Seq(Frame) /\ n \in 1..n /\ Len(G) = n /\ n \in Nat
      /\ \A k \in 1..n : /\ F[k] \in Frame /\ G[k].of = F[k].of /\ G[k].path = F[k].path
                         /\ k # n => G[k].next = F[k].next
      /\ G[n].next = top.next + 1
  BY <1>1, TakesOneField, LenProperties
<1>3. \A k \in 1..n : /\ F[k].path \in Path /\ F[k].next \in Nat /\ F[k].next > 0
                      /\ F[k].of \in Structs /\ G[k].next >= F[k].next
                      /\ Len(F[k].path) \in Nat
  <2>1. \A k \in 1..n : F[k].path \in Path /\ F[k].next \in Nat /\ F[k].next > 0 /\ F[k].of \in Structs
    BY <1>2 DEF Frame
  <2>. HIDE DEF n, G
  <2>2. \A k \in 1..n : Len(F[k].path) \in Nat
    BY <2>1, LenProperties DEF Path
  <2>. QED
    BY <1>2, <2>1, <2>2 DEF n
<1>4. q \in Path /\ top.next \in Nat /\ top.next > 0 /\ top.of \in Structs /\ top.next <= Len(L[top.of])
  BY <1>2, <1>3
<1>5. type \in Type
  <2>1. L[top.of] \in Seq(Type) /\ top.next \in 1..Len(L[top.of])
    BY <1>4
  <2>. QED
    BY <2>1, ElementOfSeq
<1>. HIDE DEF n, top, G, q, path, type
<1>6. FramesOK(G, V)
  <2>1. V = {G[k].of : k \in 1..Len(G)}
    BY <1>2 DEF FramesOK, n
  <2>2. ASSUME NEW j \in 1..n, NEW k \in 1..n, j < k
        PROVE  /\ G[j].of # G[k].of /\ Prefix(G[j].path, G[k].path)
               /\ Len(G[j].path) < Len(G[k].path)
    <3>1. /\ F[j].of # F[k].of /\ Prefix(F[j].path, F[k].path)
          /\ Len(F[j].path) < Len(F[k].path)
      BY <2>2 DEF FramesOK, n
    <3>2. G[j].of = F[j].of /\ G[j].path = F[j].path /\ G[k].of = F[k].of /\ G[k].path = F[k].path
      BY <1>2
    <3>. QED
      BY <3>1, <3>2
  <2>3. G \in Seq(Frame) /\ Len(G) = n
    BY <1>2
  <2>4. \A j, k \in 1..n : j < k => /\ G[j].of # G[k].of /\ Prefix(G[j].path, G[k].path)
                                    /\ Len(G[j].path) < Len(G[k].path)
    BY <2>2
  <2>. QED
    BY <2>1, <2>3, <2>4 DEF FramesOK
<1>7. Joint(G, N)
  <2>1. \A k \in 1..n : ObjectOf(G[k]) = ObjectOf(F[k])
    BY <1>2 DEF ObjectOf
  <2>2. \A k \in 1..n : ObjectOf(G[k]) \in N
    BY <2>1 DEF Joint, n
  <2>3. \A k \in 1..n, m \in N :
          m.type.kind = "struct" /\ Prefix(m.path, G[k].path) => \E j \in 1..n : G[j].path = m.path
    BY <1>2 DEF Joint, n
  <2>4. ASSUME NEW k \in 1..n, NEW m \in N, Prefix(G[k].path, m.path), Len(G[k].path) < Len(m.path)
        PROVE  m.path[Len(G[k].path) + 1] < G[k].next
    <3>1. m.path[Len(F[k].path) + 1] < F[k].next
      BY <1>2, <2>4 DEF Joint, n
    <3>2. m.path[Len(F[k].path) + 1] \in Nat
      <4>1. m.path \in Seq(Nat)
        BY DEF NodesOK, Node, Path
      <4>2. Len(F[k].path) + 1 \in 1..Len(m.path)
        <5>1. Len(m.path) \in Nat
          BY <4>1, LenProperties
        <5>. QED
          BY <1>2, <1>3, <2>4, <5>1
      <4>. QED
        BY <4>1, <4>2, ElementOfSeq
    <3>3. /\ Len(G[k].path) = Len(F[k].path) /\ G[k].next >= F[k].next /\ F[k].next \in Nat
          /\ G[k].next \in Nat
      <4>1. G[k] \in Frame
        BY <1>2, ElementOfSeq
      <4>2. G[k].next \in Nat
        BY <4>1 DEF Frame
      <4>. QED
        BY <1>2, <1>3, <4>2
    <3>. QED
      BY <3>1, <3>2, <3>3
  <2>. QED
    BY <1>2, <2>2, <2>3, <2>4 DEF Joint
(* The path of the field.                                                  *)
<1>8. /\ path \in Path /\ Len(q) \in Nat /\ Len(path) = Len(q) + 1 /\ path[Len(q) + 1] = top.next
      /\ Prefix(q, path)
  BY <1>4, PathsGrow DEF path
<1>9. \A m \in N : ~Prefix(path, m.path)
  <2>. SUFFICES ASSUME NEW m \in N, Prefix(path, m.path) PROVE FALSE
    OBVIOUS
  <2>1. m.path \in Path
    BY DEF NodesOK, Node
  <2>2. Prefix(q, m.path) /\ Len(q) < Len(m.path) /\ m.path[Len(q) + 1] = top.next
    BY <1>4, <2>1, GrownPrefix DEF path
  <2>3. m.path[Len(q) + 1] < top.next
    BY <1>2, <2>2 DEF Joint, n, top, q
  <2>. QED
    BY <1>4, <2>2, <2>3
<1>10. \A m \in N : Prefix(m.path, path) => \E k \in 1..Len(G) : Prefix(m.path, G[k].path)
  <2>. SUFFICES ASSUME NEW m \in N, Prefix(m.path, path) PROVE Prefix(m.path, q)
    BY <1>2 DEF q, top
  <2>1. m.path \in Path
    BY DEF NodesOK, Node
  <2>2. m.path # path
    <3>1. Len(m.path) \in Nat
      BY <2>1, LenProperties DEF Path
    <3>2. Prefix(m.path, m.path)
      BY <3>1 DEF Prefix
    <3>. QED
      BY <1>9, <3>2
  <2>. QED
    BY <1>4, <2>1, <2>2, PrefixOfGrown DEF path
<1>11. ASSUME NEW k \in 1..n
       PROVE  /\ Prefix(F[k].path, path) /\ Len(F[k].path) < Len(path)
              /\ path[Len(F[k].path) + 1] < G[k].next
  <2>1. CASE k = n
    BY <1>2, <1>4, <1>8, <2>1 DEF top, q
  <2>2. CASE k # n
    <3>1. k < n
      BY <1>2, <2>2
    <3>2. Prefix(F[k].path, q) /\ Len(F[k].path) < Len(q)
      BY <1>2, <3>1 DEF FramesOK, n, top, q
    <3>3. ObjectOf(top) \in N /\ ObjectOf(top).path = q
      BY <1>2 DEF Joint, ObjectOf, n, top, q
    <3>4. q[Len(F[k].path) + 1] < F[k].next
      BY <3>2, <3>3 DEF Joint, n
    <3>5. F[k].path \in Path /\ Len(F[k].path) \in Nat
      BY <1>3
    <3>6. Prefix(F[k].path, path)
      BY <1>4, <1>8, <3>2, <3>5, PrefixTrans
    <3>7. path[Len(F[k].path) + 1] = q[Len(F[k].path) + 1]
      <4>1. Len(F[k].path) + 1 \in 1..Len(q)
        BY <1>8, <3>2, <3>5
      <4>. QED
        BY <1>8, <4>1 DEF Prefix
    <3>. QED
      BY <1>2, <1>8, <2>2, <3>2, <3>4, <3>5, <3>6, <3>7
  <2>. QED
    BY <2>1, <2>2
<1>12. ASSUME type.kind # "hidden" PROVE Ready(G, V, N, path, type)
  <2>1. \A k \in 1..Len(G) : /\ Prefix(G[k].path, path) /\ Len(G[k].path) < Len(path)
                             /\ path[Len(G[k].path) + 1] < G[k].next
    BY <1>2, <1>11
  <2>. QED
    BY <1>5, <1>6, <1>7, <1>8, <1>9, <1>10, <1>12, <2>1 DEF Ready
(* What is written of the fields taken before.                             *)
<1>13. ASSUME NEW m \in N, m.form = "object", NEW i \in 1..Len(L[m.type.of]),
              \A k \in 1..Len(G) : G[k].path = m.path => i < G[k].next
       PROVE  IF Append(m.path, i) = path THEN L[m.type.of][i] = type
              ELSE Exact(N, Append(m.path, i), L[m.type.of][i])
  <2>0. m.path \in Path /\ i \in Nat
    BY DEF NodesOK, Node
  <2>1. m.path = q => m = ObjectOf(top)
    <3>1. ObjectOf(top) \in N /\ ObjectOf(top).path = q
      BY <1>2 DEF Joint, ObjectOf, n, top, q
    <3>. QED
      BY <3>1 DEF NodesOK
  <2>2. m.path = q => m.type.of = top.of
    <3>1. ObjectOf(top).type.of = top.of
      BY DEF ObjectOf, StructType
    <3>. QED
      BY <2>1, <3>1
  <2>3. CASE Append(m.path, i) = path
    <3>1. m.path = q /\ i = top.next
      BY <1>4, <2>0, <2>3, GrownAlike DEF path
    <3>. QED
      BY <2>2, <2>3, <3>1 DEF type
  <2>4. CASE Append(m.path, i) # path
    <3>1. ~(m.path = q /\ i = top.next)
      BY <2>4 DEF path
    <3>2. ASSUME NEW k \in 1..n, F[k].path = m.path PROVE i < F[k].next
      <4>1. i < G[k].next
        BY <1>2, <1>13, <3>2
      <4>2. CASE k # n
        BY <1>2, <4>1, <4>2
      <4>3. CASE k = n
        <5>1. m.path = q /\ G[k].next = top.next + 1 /\ F[k].next = top.next
          BY <1>2, <3>2, <4>3 DEF q, top
        <5>. QED
          BY <1>4, <2>0, <3>1, <4>1, <5>1
      <4>. QED
        BY <4>2, <4>3
    <3>3. Exact(N, Append(m.path, i), L[m.type.of][i])
      BY <1>13, <3>2 DEF Children, n
    <3>. QED
      BY <2>4, <3>3
  <2>. QED
    BY <2>3, <2>4
<1>14. ChildrenBut(L, G, N, path, type)
  BY <1>13 DEF ChildrenBut
<1>15. ASSUME type.kind = "hidden" PROVE Children(L, G, N)
  <2>1. Exact(N, path, type)
    <3>1. \A m \in N : m.path # path
      <4>1. Prefix(path, path)
        <5>1. Len(path) \in Nat
          BY <1>8
        <5>. QED
          BY <5>1 DEF Prefix
      <4>. QED
        BY <1>9, <4>1
    <3>. QED
      BY <1>15, <3>1 DEF Exact
  <2>2. ASSUME NEW m \in N, m.form = "object", NEW i \in 1..Len(L[m.type.of]),
               \A k \in 1..Len(G) : G[k].path = m.path => i < G[k].next
        PROVE  Exact(N, Append(m.path, i), L[m.type.of][i])
    <3>1. IF Append(m.path, i) = path THEN L[m.type.of][i] = type
          ELSE Exact(N, Append(m.path, i), L[m.type.of][i])
      BY <1>13, <2>2
    <3>. QED
      BY <2>1, <3>1
  <2>. QED
    BY <2>2 DEF Children
<1>16. /\ FramesOK(G, V) /\ Joint(G, N)
       /\ type.kind # "hidden" => Ready(G, V, N, path, type) /\ ChildrenBut(L, G, N, path, type)
       /\ type.kind = "hidden" => Children(L, G, N)
  BY <1>6, <1>7, <1>12, <1>14, <1>15
<1>. QED
  BY <1>16 DEF n, top, G, q, path, type

(* Leaving a struct: all its fields are taken, so nothing is lost with it. *)
LEMMA StructLeft ==
    ASSUME NEW L, \A s \in Structs : L[s] \in Seq(Type),
           NEW F, NEW V, NEW N,
           FramesOK(F, V), NodesOK(N), Joint(F, N), Children(L, F, N),
           F # <<>>, F[Len(F)].next > Len(L[F[Len(F)].of])
    PROVE  LET G == SubSeq(F, 1, Len(F) - 1)
           IN  FramesOK(G, V \ {F[Len(F)].of}) /\ Joint(G, N) /\ Children(L, G, N)
<1>. DEFINE n == Len(F)
            top == F[n]
            G == SubSeq(F, 1, n - 1)
<1>1. F \in Seq(Frame)
  BY DEF FramesOK
<1>2. /\ n \in Nat /\ n > 0 /\ n \in 1..n
      /\ \A k \in 1..n : F[k] \in Frame
      /\ \A k \in 1..n : k = n \/ k \in 1..n - 1
      /\ \A k \in 1..n - 1 : k \in 1..n /\ k < n
  <2>1. n \in Nat /\ n > 0 /\ n \in 1..n
    BY <1>1, EmptySeq, LenProperties
  <2>2. \A k \in 1..n : F[k] \in Frame
    BY <1>1, ElementOfSeq
  <2>. HIDE DEF n
  <2>. QED
    BY <2>1, <2>2
<1>3. G \in Seq(Frame) /\ Len(G) = n - 1 /\ \A k \in 1..n - 1 : G[k] = F[k]
  <2>1. \A k \in 1..n - 1 : F[k] \in Frame
    BY <1>2
  <2>2. 1 \in Int /\ n - 1 \in Int
    BY <1>2
  <2>3. /\ G \in Seq(Frame)
        /\ Len(G) = IF 1 <= n - 1 THEN n - 1 - 1 + 1 ELSE 0
        /\ \A k \in 1..n - 1 - 1 + 1 : G[k] = F[1 + k - 1]
    BY <2>1, <2>2, SubSeqProperties
  <2>. HIDE DEF n, G
  <2>4. \A k \in 1..n - 1 : k \in 1..n - 1 - 1 + 1 /\ 1 + k - 1 = k
    BY <1>2
  <2>. QED
    BY <1>2, <2>3, <2>4
<1>. HIDE DEF n, top, G
<1>4. FramesOK(G, V \ {top.of})
  <2>1. V \ {top.of} = {G[k].of : k \in 1..n - 1}
    <3>1. V = {F[k].of : k \in 1..n}
      BY DEF FramesOK, n
    <3>2. \A k \in 1..n - 1 : F[k].of # top.of
      BY <1>2 DEF FramesOK, n, top
    <3>. QED
      BY <1>2, <1>3, <3>1, <3>2 DEF top
  <2>2. \A j, k \in 1..n - 1 : j < k => /\ G[j].of # G[k].of /\ Prefix(G[j].path, G[k].path)
                                        /\ Len(G[j].path) < Len(G[k].path)
    <3>1. \A j, k \in 1..n : j < k => /\ F[j].of # F[k].of /\ Prefix(F[j].path, F[k].path)
                                      /\ Len(F[j].path) < Len(F[k].path)
      BY DEF FramesOK, n
    <3>. QED
      BY <1>2, <1>3, <3>1
  <2>. QED
    BY <1>3, <2>1, <2>2 DEF FramesOK
<1>5. Joint(G, N)
  <2>1. \A k \in 1..n - 1 : ObjectOf(G[k]) \in N
    BY <1>2, <1>3 DEF Joint, n
  <2>2. ASSUME NEW k \in 1..n - 1, NEW m \in N, m.type.kind = "struct", Prefix(m.path, G[k].path)
        PROVE  \E j \in 1..n - 1 : G[j].path = m.path
    <3>1. PICK j \in 1..n : F[j].path = m.path
      BY <1>2, <1>3, <2>2 DEF Joint, n
    <3>2. j # n
      <4>. SUFFICES ASSUME j = n PROVE FALSE
        OBVIOUS
      <4>1. Prefix(F[k].path, F[n].path) /\ Len(F[k].path) < Len(F[n].path)
        BY <1>2 DEF FramesOK, n
      <4>2. Prefix(F[n].path, F[k].path)
        BY <1>3, <2>2, <3>1
      <4>3. F[k].path \in Seq(Nat) /\ F[n].path \in Seq(Nat)
        BY <1>2 DEF Frame, Path
      <4>4. Len(F[k].path) \in Nat /\ Len(F[n].path) \in Nat
        BY <4>3, LenProperties
      <4>. QED
        BY <4>1, <4>2, <4>4 DEF Prefix
    <3>. QED
      BY <1>2, <1>3, <3>1, <3>2
  <2>3. \A k \in 1..n - 1, m \in N :
          Prefix(G[k].path, m.path) /\ Len(G[k].path) < Len(m.path)
              => m.path[Len(G[k].path) + 1] < G[k].next
    BY <1>2, <1>3 DEF Joint, n
  <2>. QED
    BY <1>3, <2>1, <2>2, <2>3 DEF Joint
<1>6. Children(L, G, N)
  <2>. SUFFICES ASSUME NEW m \in N, m.form = "object", NEW i \in 1..Len(L[m.type.of]),
                       \A k \in 1..Len(G) : G[k].path = m.path => i < G[k].next
                PROVE  Exact(N, Append(m.path, i), L[m.type.of][i])
    BY DEF Children
  <2>1. ASSUME NEW k \in 1..n, F[k].path = m.path PROVE i < F[k].next
    <3>1. CASE k # n
      BY <1>2, <1>3, <2>1, <3>1
    <3>2. CASE k = n
      <4>1. ObjectOf(top) \in N /\ ObjectOf(top).path = top.path /\ ObjectOf(top).type.of = top.of
        BY <1>2 DEF Joint, ObjectOf, StructType, n, top
      <4>2. m = ObjectOf(top)
        BY <2>1, <3>2, <4>1 DEF NodesOK, top
      <4>3. L[top.of] \in Seq(Type) /\ top.next \in Nat
        BY <1>2 DEF Frame, top
      <4>4. Len(L[top.of]) \in Nat /\ top.next > Len(L[top.of])
        BY <4>3, LenProperties DEF n, top
      <4>5. i \in 1..Len(L[top.of])
        BY <4>1, <4>2
      <4>6. i < top.next
        BY <4>3, <4>4, <4>5
      <4>. QED
        BY <3>2, <4>6 DEF top
    <3>. QED
      BY <3>1, <3>2
  <2>. QED
    BY <2>1 DEF Children, n
<1>7. FramesOK(G, V \ {top.of}) /\ Joint(G, N) /\ Children(L, G, N)
  BY <1>4, <1>5, <1>6
<1>. QED
  BY <1>7 DEF n, top, G

-----------------------------------------------------------------------------
(* The walk, in a state: the frames nest, the nodes written are what they  *)
(* should be, and the fields taken so far are written.                     *)
Walk(L, F, V, N) == FramesOK(F, V) /\ NodesOK(N) /\ Joint(F, N) /\ Children(L, F, N)

SchemaInv ==
    /\ fields \in Layouts /\ root \in Structs
    /\ \E L, F, V, N : /\ L = fields /\ F = frames /\ V = visiting /\ N = nodes
                       /\ Walk(L, F, V, N)

LEMMA SchemaInvInit == SchemaInit => SchemaInv
<1>. SUFFICES ASSUME SchemaInit PROVE SchemaInv
  OBVIOUS
<1>1. \A L : Walk(L, <<>>, {}, {})
  <2>1. <<>> \in Seq(Frame) /\ Len(<<>>) = 0
    BY EmptySeq
  <2>. QED
    BY <2>1 DEF Walk, FramesOK, NodesOK, Joint, Children
<1>. QED
  BY <1>1 DEF SchemaInit, SchemaInv

LEMMA SchemaInvNext == SchemaInv /\ [SchemaNext]_schemaVars => SchemaInv'
<1>. SUFFICES ASSUME SchemaInv, [SchemaNext]_schemaVars PROVE SchemaInv'
  OBVIOUS
<1>1. PICK L, F, V, N : /\ L = fields /\ F = frames /\ V = visiting /\ N = nodes
                        /\ Walk(L, F, V, N)
  BY DEF SchemaInv
<1>2. fields \in Layouts /\ root \in Structs
  BY DEF SchemaInv
<1>3. \A s \in Structs : L[s] \in Seq(Type)
  BY <1>1, <1>2, LayoutsAssumption
<1>4. fields' = fields /\ root' = root
  BY DEF SchemaNext, Begin, NextField, Leave, schemaVars
<1>5. ASSUME NEW F2, NEW V2, NEW N2, F2 = frames', V2 = visiting', N2 = nodes', Walk(L, F2, V2, N2)
      PROVE  SchemaInv'
  BY <1>1, <1>2, <1>4, <1>5 DEF SchemaInv
<1>6. ASSUME NEW G, NEW path, NEW type, Ready(G, V, N, path, type), ChildrenBut(L, G, N, path, type),
             Visit(G, path, type)
      PROVE  SchemaInv'
  <2>1. /\ nodes' = NodesAfter(V, N, path, type)
        /\ frames' = FramesAfter(G, V, path, type)
        /\ visiting' = VisitingAfter(V, type)
    BY <1>1, <1>6, VisitWrites
  <2>2. Walk(L, FramesAfter(G, V, path, type), VisitingAfter(V, type), NodesAfter(V, N, path, type))
    BY <1>3, <1>6, VisitKeepsFrames, VisitKeepsNodes, VisitKeepsJoint, VisitKeepsChildren DEF Walk
  <2>. QED
    BY <1>5, <2>1, <2>2
<1>7. CASE Begin
  <2>. DEFINE type == [kind |-> "struct", of |-> root]
  <2>1. N = {}
    BY <1>1, <1>7 DEF Begin
  <2>2. F = <<>> /\ V = {}
    <3>1. F \in Seq(Frame)
      BY <1>1 DEF Walk, FramesOK
    <3>2. F = <<>>
      <4>. SUFFICES ASSUME F # <<>> PROVE FALSE
        OBVIOUS
      <4>1. 1 \in 1..Len(F)
        BY <3>1, EmptySeq, LenProperties
      <4>. QED
        BY <1>1, <2>1, <4>1 DEF Walk, Joint
    <3>3. Len(F) = 0
      BY <3>2, EmptySeq
    <3>. QED
      BY <1>1, <3>2, <3>3 DEF Walk, FramesOK
  <2>3. type \in Type /\ type.kind # "hidden"
    BY <1>2 DEF Type
  <2>. HIDE DEF type
  <2>4. Ready(<<>>, V, N, <<>>, type)
    <3>1. <<>> \in Path /\ Len(<<>>) = 0
      BY EmptySeq DEF Path
    <3>. QED
      BY <1>1, <2>1, <2>2, <2>3, <3>1 DEF Ready, Walk
  <2>5. ChildrenBut(L, <<>>, N, <<>>, type)
    BY <2>1 DEF ChildrenBut
  <2>6. Visit(<<>>, <<>>, type)
    BY <1>7 DEF Begin, type
  <2>. QED
    BY <1>6, <2>4, <2>5, <2>6
<1>8. CASE NextField
  <2>. DEFINE top == F[Len(F)]
              G == Advanced(F)
              path == Append(top.path, top.next)
              type == L[top.of][top.next]
  <2>1. F # <<>> /\ F[Len(F)].next <= Len(L[F[Len(F)].of])
    BY <1>1, <1>8 DEF NextField, Top
  <2>2. IF type.kind = "hidden" THEN frames' = G /\ visiting' = visiting /\ nodes' = nodes
        ELSE Visit(G, path, type)
    BY <1>1, <1>8 DEF NextField, Top, Below, Advanced
  <2>3. /\ FramesOK(G, V) /\ Joint(G, N) /\ NodesOK(N)
        /\ type.kind # "hidden" => Ready(G, V, N, path, type) /\ ChildrenBut(L, G, N, path, type)
        /\ type.kind = "hidden" => Children(L, G, N)
    <3>1. FramesOK(F, V) /\ NodesOK(N) /\ Joint(F, N) /\ Children(L, F, N)
      BY <1>1 DEF Walk
    <3>. QED
      BY <1>3, <2>1, <3>1, FieldTaken
  <2>. HIDE DEF G, path, type
  <2>4. CASE type.kind = "hidden"
    <3>1. Walk(L, G, V, N)
      BY <2>3, <2>4 DEF Walk
    <3>. QED
      BY <1>1, <1>5, <2>2, <2>4, <3>1
  <2>5. CASE type.kind # "hidden"
    BY <1>6, <2>2, <2>3, <2>5
  <2>. QED
    BY <2>4, <2>5
<1>9. CASE Leave
  <2>. DEFINE G == SubSeq(F, 1, Len(F) - 1)
              W == V \ {F[Len(F)].of}
  <2>1. F # <<>> /\ F[Len(F)].next > Len(L[F[Len(F)].of])
    BY <1>1, <1>9 DEF Leave, Top
  <2>2. frames' = G /\ visiting' = W /\ nodes' = N
    BY <1>1, <1>9 DEF Leave, Top, Below
  <2>3. FramesOK(F, V) /\ NodesOK(N) /\ Joint(F, N) /\ Children(L, F, N)
    BY <1>1 DEF Walk
  <2>4. FramesOK(G, W) /\ Joint(G, N) /\ Children(L, G, N)
    BY <1>3, <2>1, <2>3, StructLeft
  <2>. HIDE DEF G, W
  <2>5. Walk(L, G, W, N)
    BY <2>3, <2>4 DEF Walk
  <2>. QED
    BY <1>5, <2>2, <2>5
<1>10. CASE UNCHANGED schemaVars
  <2>1. F = frames' /\ V = visiting' /\ N = nodes'
    BY <1>1, <1>10 DEF schemaVars
  <2>. QED
    BY <1>1, <1>5, <2>1
<1>. QED
  BY <1>7, <1>8, <1>9, <1>10 DEF SchemaNext

(* No two frames are of one type. *)
LEMMA DepthIsBounded ==
    ASSUME NEW F, NEW V, FramesOK(F, V)
    PROVE  Len(F) <= Cardinality(Structs)
<1>. DEFINE n == Len(F)
            g == [k \in 1..n |-> F[k].of]
<1>1. F \in Seq(Frame) /\ n \in Nat
  BY LenProperties DEF FramesOK
<1>2. \A k \in 1..n : F[k].of \in Structs
  <2>1. \A k \in 1..n : F[k] \in Frame
    BY <1>1, ElementOfSeq
  <2>. QED
    BY <2>1 DEF Frame
<1>3. \A j, k \in 1..n : j # k => F[j].of # F[k].of
  <2>1. \A j, k \in 1..n : j < k => F[j].of # F[k].of
    BY DEF FramesOK
  <2>2. \A j, k \in 1..n : j # k => j < k \/ k < j
    BY <1>1
  <2>. QED
    BY <2>1, <2>2
<1>. HIDE DEF n
<1>4. g \in Injection(1..n, Structs)
  BY <1>2, <1>3 DEF Injection, IsInjective
<1>5. IsFiniteSet(Structs) /\ IsFiniteSet(1..n) /\ Cardinality(1..n) = n
  <2>1. IsFiniteSet(1..n) /\ Cardinality(1..n) = IF 1 > n THEN 0 ELSE n - 1 + 1
    BY <1>1, FS_Interval
  <2>. QED
    BY <1>1, <2>1, LayoutsAssumption
<1>6. Cardinality(1..n) <= Cardinality(Structs)
  BY <1>4, <1>5, FS_Injection
<1>. QED
  BY <1>5, <1>6 DEF n

LEMMA InvUnfolds == SchemaInv => SchemaUnfolds
<1>. SUFFICES ASSUME SchemaInv PROVE SchemaUnfolds
  OBVIOUS
<1>1. PICK L, F, V, N : /\ L = fields /\ F = frames /\ V = visiting /\ N = nodes
                        /\ Walk(L, F, V, N)
  BY DEF SchemaInv
<1>2. FramesOK(F, V) /\ NodesOK(N) /\ Children(L, F, N)
  BY <1>1 DEF Walk
<1>3. \A s \in Structs : L[s] \in Seq(Type)
  BY <1>1, LayoutsAssumption DEF SchemaInv
<1>4. Len(frames) <= Cardinality(Structs)
  BY <1>1, <1>2, DepthIsBounded
<1>5. ASSUME F = <<>>, NEW n \in N
      PROVE  /\ n.form = "bare" <=> n.type.kind = "struct" /\ \E m \in N :
                                       m.type = n.type /\ Inside(n, m)
             /\ n.form = "list" => \E m \in N : m.path = Append(n.path, Element)
             /\ n.form = "object" =>
                   \A i \in 1..Len(L[n.type.of]) :
                       LET type == L[n.type.of][i] IN
                       {m.type : m \in {m \in N : m.path = Append(n.path, i)}}
                           = IF type.kind = "hidden" THEN {} ELSE {type}
  <2>1. \A m \in N : m.path \in Path
    BY <1>2 DEF NodesOK, Node
  <2>2. \A m \in N : Inside(n, m) <=> Prefix(m.path, n.path) /\ Len(m.path) < Len(n.path)
    BY <2>1, InsideMeans
  <2>3. /\ n.form = "bare" <=> n.type.kind = "struct" /\ \E m \in N : m.type = n.type /\ Inside(n, m)
        /\ n.form = "list" => \E m \in N : m.path = Append(n.path, Element)
    BY <1>2, <2>2 DEF NodesOK
  <2>4. ASSUME n.form = "object", NEW i \in 1..Len(L[n.type.of])
        PROVE  {m.type : m \in {m \in N : m.path = Append(n.path, i)}}
                   = IF L[n.type.of][i].kind = "hidden" THEN {} ELSE {L[n.type.of][i]}
    <3>1. Len(F) = 0
      BY <1>5, EmptySeq
    <3>2. \A k \in 1..Len(F) : F[k].path = n.path => i < F[k].next
      BY <3>1
    <3>3. Exact(N, Append(n.path, i), L[n.type.of][i])
      BY <1>2, <2>4, <3>2 DEF Children
    <3>. QED
      BY <3>3 DEF Exact
  <2>. QED
    BY <2>3, <2>4
<1>. QED
  BY <1>1, <1>4, <1>5 DEF SchemaUnfolds, Walked

(* Whatever the types of a payload refer to, themselves included, the walk *)
(* never nests deeper than there are struct types, and the schema it ends  *)
(* with is the type unfolded: every field that is not hidden once, with    *)
(* its own type, and a bare object exactly inside a struct of its type.    *)
THEOREM SchemasUnfold == SchemaInit /\ [][SchemaNext]_schemaVars => []SchemaUnfolds
<1>1. SchemaInit => SchemaInv
  BY SchemaInvInit
<1>2. SchemaInv /\ [SchemaNext]_schemaVars => SchemaInv'
  BY SchemaInvNext
<1>3. SchemaInv => SchemaUnfolds
  BY InvUnfolds
<1>. QED
  BY <1>1, <1>2, <1>3, PTL

-----------------------------------------------------------------------------
(* Induction, over a set: what holds of 0 and of the successor of whatever *)
(* it holds of holds of every number, as a least exception shows.          *)
LEMMA SetInduction ==
    ASSUME NEW S, 0 \in S, \A n \in Nat : n \in S => n + 1 \in S
    PROVE  \A n \in Nat : n \in S
<1>. DEFINE R == {ss \in Nat \X Nat : ss[1] < ss[2]}
            T == {n \in Nat : n \notin S}
<1>1. IsWellFoundedOn(R, Nat)
  BY NatLessThanWellFounded DEF OpToRel
<1>2. \A y, x \in Nat : y < x => <<y, x>> \in R
  OBVIOUS
<1>. HIDE DEF R
<1>3. SUFFICES ASSUME T # {} PROVE FALSE
  OBVIOUS
<1>4. PICK x \in T : \A y \in T : ~(<<y, x>> \in R)
  <2>1. T \subseteq Nat
    OBVIOUS
  <2>. HIDE DEF T
  <2>. QED
    BY <1>1, <1>3, <2>1, WFMin
<1>5. x # 0 /\ x - 1 \in Nat /\ x - 1 < x /\ x = (x - 1) + 1
  BY <1>4
<1>6. x - 1 \in T
  BY <1>4, <1>5
<1>. QED
  BY <1>2, <1>4, <1>5, <1>6

(* Induction over a sequence, from the front. *)
LEMMA SeqInduction ==
    ASSUME NEW S, NEW T, <<>> \in T,
           \A s \in Seq(S), x \in S : s \in T => Append(s, x) \in T
    PROVE  Seq(S) \subseteq T
<1>. DEFINE N == {n \in Nat : \A s \in Seq(S) : Len(s) = n => s \in T}
<1>1. 0 \in N
  BY EmptySeq
<1>2. ASSUME NEW n \in Nat, n \in N PROVE n + 1 \in N
  <2>1. SUFFICES ASSUME NEW s \in Seq(S), Len(s) = n + 1 PROVE s \in T
    OBVIOUS
  <2>2. /\ SubSeq(s, 1, n) \in Seq(S) /\ Len(SubSeq(s, 1, n)) = n
        /\ s[n + 1] \in S /\ s = Append(SubSeq(s, 1, n), s[n + 1])
    BY <2>1, SubSeqProperties
  <2>3. SubSeq(s, 1, n) \in T
    BY <1>2, <2>2
  <2>. QED
    BY <2>2, <2>3
<1>3. \A n \in Nat : n \in N
  <2>. HIDE DEF N
  <2>. QED
    BY <1>1, <1>2, SetInduction
<1>. QED
  BY <1>3

(* How FlattenSeq computes: the joined pieces, one by one. *)
JoinsUp(g, s) == \A i \in 1..Len(s) : g[i] = IF i = 1 THEN s[i] ELSE g[i - 1] \o s[i]

LEMMA FlattenJoinsUp ==
    ASSUME NEW S, NEW s \in Seq(Seq(S)), s # <<>>
    PROVE  \E g \in [1..Len(s) -> Seq(S)] : JoinsUp(g, s) /\ FlattenSeq(s) = g[Len(s)]
<1>. DEFINE J(g, n) == \A i \in 1..n : g[i] = IF i = 1 THEN s[i] ELSE g[i - 1] \o s[i]
            E(n) == \E g \in [1..n -> Seq(S)] : J(g, n)
            N == {n \in Nat : n <= Len(s) => E(n)}
<1>0. Len(s) \in Nat \ {0} /\ \A i \in 1..Len(s) : s[i] \in Seq(S)
  OBVIOUS
<1>1. 0 \in N
  <2>. DEFINE g == [i \in 1..0 |-> <<>>]
  <2>1. g \in [1..0 -> Seq(S)] /\ J(g, 0)
    OBVIOUS
  <2>2. E(0)
    <3>. HIDE DEF g, J
    <3>. QED
      BY <2>1
  <2>. QED
    BY <2>2
<1>2. ASSUME NEW n \in Nat, n \in N PROVE n + 1 \in N
  <2>1. SUFFICES ASSUME n + 1 <= Len(s) PROVE E(n + 1)
    OBVIOUS
  <2>2. PICK g \in [1..n -> Seq(S)] : J(g, n)
    <3>1. E(n)
      <4>. HIDE DEF E
      <4>. QED
        BY <1>2, <2>1, <1>0
    <3>. QED
      BY <3>1
  <2>3. s[n + 1] \in Seq(S)
    BY <1>0, <2>1
  <2>. DEFINE h == [i \in 1..(n+1) |-> IF i <= n THEN g[i] ELSE IF i = 1 THEN s[i] ELSE g[i - 1] \o s[i]]
  <2>4. h \in [1..(n+1) -> Seq(S)]
    <3>1. ASSUME NEW i \in 1..(n+1), i > n, i # 1 PROVE g[i - 1] \in Seq(S) /\ i = n + 1
      BY <3>1
    <3>2. ASSUME NEW i \in 1..(n+1), i > n, i # 1 PROVE g[i - 1] \o s[i] \in Seq(S)
      BY <3>1, <2>3, <3>2, ConcatProperties
    <3>. QED
      BY <3>2, <2>3
  <2>5. J(h, n + 1)
    <3>1. SUFFICES ASSUME NEW i \in 1..(n+1)
                   PROVE  h[i] = IF i = 1 THEN s[i] ELSE h[i - 1] \o s[i]
      OBVIOUS
    <3>2. i # 1 => i - 1 \in 1..n /\ i - 1 \in 1..(n+1) /\ h[i - 1] = g[i - 1]
      OBVIOUS
    <3>3. CASE i <= n
      <4>1. i \in 1..n /\ h[i] = g[i]
        BY <3>3
      <4>2. g[i] = IF i = 1 THEN s[i] ELSE g[i - 1] \o s[i]
        BY <2>2, <4>1
      <4>. HIDE DEF h
      <4>. QED
        BY <3>2, <4>1, <4>2, Zenon
    <3>4. CASE i > n
      <4>1. h[i] = IF i = 1 THEN s[i] ELSE g[i - 1] \o s[i]
        BY <3>4
      <4>. HIDE DEF h
      <4>. QED
        BY <3>2, <4>1, Zenon
    <3>. QED
      BY <3>3, <3>4
  <2>6. E(n + 1)
    <3>. HIDE DEF h, J
    <3>. QED
      BY <2>4, <2>5
  <2>. QED
    BY <2>6
<1>3. \A n \in Nat : n \in N
  <2>. HIDE DEF N
  <2>. QED
    BY <1>1, <1>2, SetInduction
<1>4. PICK g \in [1..Len(s) -> Seq(S)] : J(g, Len(s))
  <2>1. E(Len(s))
    <3>. HIDE DEF E
    <3>. QED
      BY <1>0, <1>3
  <2>. QED
    BY <2>1
<1>. DEFINE D(f) == f = [i \in 1..Len(s) |-> IF i = 1 THEN s[i] ELSE f[i - 1] \o s[i]]
            c == CHOOSE f : D(f)
<1>5. D(g)
  BY <1>4
<1>6. D(c)
  <2>. HIDE DEF D
  <2>. QED
    BY <1>5
<1>7. FlattenSeq(s) = c[Len(s)]
  BY <1>0 DEF FlattenSeq
<1>8. \A n \in Nat : n <= Len(s) /\ n # 0 => c[n] = g[n]
  <2>. DEFINE M == {n \in Nat : n <= Len(s) /\ n # 0 => c[n] = g[n]}
  <2>. HIDE DEF c
  <2>1. 0 \in M
    OBVIOUS
  <2>2. ASSUME NEW n \in Nat, n \in M PROVE n + 1 \in M
    <3>1. SUFFICES ASSUME n + 1 <= Len(s) PROVE c[n + 1] = g[n + 1]
      OBVIOUS
    <3>2. PICK m : m = n + 1
      OBVIOUS
    <3>3. m \in 1..Len(s) /\ m - 1 = n /\ (m # 1 => n # 0)
      BY <3>1, <3>2
    <3>4. c[m] = IF m = 1 THEN s[m] ELSE c[m - 1] \o s[m]
      <4>. HIDE DEF c
      <4>. QED
        BY <1>6, <3>3
    <3>5. g[m] = IF m = 1 THEN s[m] ELSE g[m - 1] \o s[m]
      BY <1>4, <3>3
    <3>6. m # 1 => c[n] = g[n]
      BY <2>2, <3>1, <3>3
    <3>7. c[m] = g[m]
      <4>. HIDE DEF c
      <4>. QED
        BY <3>3, <3>4, <3>5, <3>6, Zenon
    <3>. QED
      BY <3>2, <3>7
  <2>3. \A n \in Nat : n \in M
    <3>. HIDE DEF M
    <3>. QED
      BY <2>1, <2>2, SetInduction
  <2>. QED
    BY <2>3
<1>9. FlattenSeq(s) = g[Len(s)]
  <2>1. Len(s) \in Nat /\ Len(s) <= Len(s) /\ Len(s) # 0
    BY <1>0
  <2>. HIDE DEF c
  <2>. QED
    BY <2>1, <1>7, <1>8
<1>. QED
  BY <1>4, <1>9 DEF JoinsUp

(* FlattenSeq step by step. *)
LEMMA FlattenEmpty == FlattenSeq(<<>>) = <<>>
BY EmptySeq DEF FlattenSeq

LEMMA FlattenType ==
    ASSUME NEW S, NEW s \in Seq(Seq(S))
    PROVE  FlattenSeq(s) \in Seq(S)
<1>1. CASE s = <<>>
  BY <1>1, FlattenEmpty, EmptySeq
<1>2. CASE s # <<>>
  <2>1. Len(s) \in Nat \ {0}
    BY <1>2
  <2>2. PICK g \in [1..Len(s) -> Seq(S)] : FlattenSeq(s) = g[Len(s)]
    BY <1>2, FlattenJoinsUp
  <2>3. Len(s) \in 1..Len(s)
    BY <2>1
  <2>. QED
    BY <2>2, <2>3, Zenon
<1>. QED
  BY <1>1, <1>2

LEMMA FlattenAppend ==
    ASSUME NEW S, NEW s \in Seq(Seq(S)), NEW x \in Seq(S)
    PROVE  FlattenSeq(Append(s, x)) = FlattenSeq(s) \o x
<1>. DEFINE t == Append(s, x)
<1>. PICK n : n = Len(s)
  OBVIOUS
<1>1. /\ t \in Seq(Seq(S)) /\ t # <<>> /\ Len(t) = n + 1 /\ n \in Nat
      /\ \A i \in 1..n : t[i] = s[i]
      /\ t[n + 1] = x
  <2>. DEFINE Z == Seq(S)
  <2>1. s \in Seq(Z) /\ x \in Z
    OBVIOUS
  <2>. HIDE DEF Z
  <2>2. /\ t \in Seq(Z) /\ t # <<>> /\ Len(t) = n + 1 /\ n \in Nat
        /\ \A i \in 1..n : t[i] = s[i]
        /\ t[n + 1] = x
    BY <2>1, AppendProperties
  <2>. QED
    BY <2>2 DEF Z
<1>. HIDE DEF t
<1>2. PICK h \in [1..Len(t) -> Seq(S)] : JoinsUp(h, t) /\ FlattenSeq(t) = h[Len(t)]
  BY <1>1, FlattenJoinsUp
<1>3. CASE n = 0
  <2>1. FlattenSeq(t) = x
    <3>1. 1 \in 1..Len(t) /\ Len(t) = 1 /\ t[1] = x
      BY <1>1, <1>3
    <3>2. h[1] = t[1]
      BY <1>2, <3>1 DEF JoinsUp
    <3>. QED
      BY <1>2, <3>1, <3>2, Zenon
  <2>2. FlattenSeq(s) = <<>>
    <3>1. s = <<>>
      BY <1>3, EmptySeq
    <3>. QED
      BY <3>1, FlattenEmpty
  <2>. QED
    BY <2>1, <2>2, ConcatEmptySeq DEF t
<1>4. CASE n # 0
  <2>0. s # <<>>
    BY <1>4
  <2>1. PICK g \in [1..Len(s) -> Seq(S)] : JoinsUp(g, s) /\ FlattenSeq(s) = g[Len(s)]
    BY <2>0, FlattenJoinsUp
  <2>. DEFINE M == {i \in Nat : i <= n /\ i # 0 => g[i] = h[i]}
  <2>2. 0 \in M
    OBVIOUS
  <2>3. ASSUME NEW i \in Nat, i \in M PROVE i + 1 \in M
    <3>1. SUFFICES ASSUME i + 1 <= n PROVE g[i + 1] = h[i + 1]
      OBVIOUS
    <3>2. PICK m : m = i + 1
      OBVIOUS
    <3>3. m \in 1..Len(s) /\ m \in 1..Len(t) /\ m - 1 = i /\ (m # 1 => i # 0) /\ m \in 1..n
      BY <1>1, <3>1, <3>2
    <3>4. g[m] = IF m = 1 THEN s[m] ELSE g[m - 1] \o s[m]
      BY <2>1, <3>3 DEF JoinsUp
    <3>5. h[m] = IF m = 1 THEN t[m] ELSE h[m - 1] \o t[m]
      BY <1>2, <3>3 DEF JoinsUp
    <3>6. t[m] = s[m] /\ (m # 1 => g[i] = h[i])
      BY <1>1, <2>3, <3>1, <3>3
    <3>7. g[m] = h[m]
      BY <3>3, <3>4, <3>5, <3>6, Zenon
    <3>. QED
      BY <3>2, <3>7
  <2>4. \A i \in Nat : i \in M
    <3>. HIDE DEF M
    <3>. QED
      BY <2>2, <2>3, SetInduction
  <2>5. g[n] = h[n]
    <3>1. n \in Nat /\ n <= n
      BY <1>1
    <3>. QED
      BY <3>1, <1>4, <2>4
  <2>6. FlattenSeq(t) = h[n] \o x
    <3>1. PICK m : m = n + 1
      OBVIOUS
    <3>2. m \in 1..Len(t) /\ m # 1 /\ m - 1 = n /\ m = Len(t) /\ t[m] = x
      BY <1>1, <1>4, <3>1
    <3>3. h[m] = IF m = 1 THEN t[m] ELSE h[m - 1] \o t[m]
      BY <1>2, <3>2 DEF JoinsUp
    <3>. QED
      BY <1>2, <3>2, <3>3, Zenon
  <2>. QED
    BY <2>1, <2>5, <2>6 DEF t
<1>. QED
  BY <1>3, <1>4

(* What a text becomes when each of its tokens is replaced by a text. *)
Spread(t, g) == FlattenSeq([i \in DOMAIN t |-> g[t[i]]])

LEMMA SpreadEmpty == ASSUME NEW g PROVE Spread(<<>>, g) = <<>>
<1>1. [i \in DOMAIN <<>> |-> g[<<>>[i]]] = <<>>
  OBVIOUS
<1>. QED
  BY <1>1, FlattenEmpty DEF Spread

LEMMA SpreadType ==
    ASSUME NEW S, NEW V, NEW t \in Seq(S), NEW g \in [S -> Seq(V)]
    PROVE  Spread(t, g) \in Seq(V)
<1>. DEFINE Z == Seq(V)
            u == [i \in DOMAIN t |-> g[t[i]]]
<1>1. g \in [S -> Z]
  OBVIOUS
<1>2. u \in Seq(Z)
  <2>. HIDE DEF Z
  <2>. QED
    BY <1>1
<1>3. FlattenSeq(u) \in Seq(V)
  <2>. HIDE DEF u
  <2>. QED
    BY <1>2, FlattenType
<1>. QED
  BY <1>3 DEF Spread

LEMMA SpreadAppend ==
    ASSUME NEW S, NEW V, NEW t \in Seq(S), NEW x \in S, NEW g \in [S -> Seq(V)]
    PROVE  Spread(Append(t, x), g) = Spread(t, g) \o g[x]
<1>. DEFINE Z == Seq(V)
            u == [i \in DOMAIN t |-> g[t[i]]]
            w == [i \in DOMAIN Append(t, x) |-> g[Append(t, x)[i]]]
<1>1. g \in [S -> Z]
  OBVIOUS
<1>2. u \in Seq(Z) /\ g[x] \in Z /\ w = Append(u, g[x])
  <2>. HIDE DEF Z
  <2>1. u \in Seq(Z) /\ g[x] \in Z
    <3>1. g[x] \in Z /\ \A i \in DOMAIN t : g[t[i]] \in Z
      BY <1>1
    <3>2. DOMAIN t = 1..Len(t) /\ Len(t) \in Nat
      OBVIOUS
    <3>. QED
      BY <3>1, <3>2
  <2>2. Len(u) = Len(t) /\ Len(Append(t, x)) = Len(t) + 1 /\ Append(t, x) \in Seq(S)
    OBVIOUS
  <2>3. w \in Seq(Z) /\ Len(w) = Len(t) + 1
    BY <1>1, <2>2
  <2>4. \A i \in 1..(Len(t) + 1) : w[i] = Append(u, g[x])[i]
    BY <1>1, <2>1, <2>2
  <2>. QED
    <3>1. Append(u, g[x]) \in Seq(Z) /\ Len(Append(u, g[x])) = Len(t) + 1
      BY <2>1, <2>2
    <3>. HIDE DEF u, w
    <3>. QED
      BY <2>1, <2>3, <2>4, <3>1, SeqEqual
<1>3. FlattenSeq(Append(u, g[x])) = FlattenSeq(u) \o g[x]
  <2>. HIDE DEF u
  <2>. QED
    BY <1>2, FlattenAppend
<1>. QED
  BY <1>2, <1>3 DEF Spread

LEMMA SpreadConcat ==
    ASSUME NEW S, NEW V, NEW a \in Seq(S), NEW b \in Seq(S), NEW g \in [S -> Seq(V)]
    PROVE  Spread(a \o b, g) = Spread(a, g) \o Spread(b, g)
<1>. DEFINE T == {c \in Seq(S) : Spread(a \o c, g) = Spread(a, g) \o Spread(c, g)}
<1>0. Spread(a, g) \in Seq(V)
  BY SpreadType
<1>1. <<>> \in T
  <2>1. <<>> \in Seq(S) /\ a \o <<>> = a
    OBVIOUS
  <2>2. Spread(a, g) \o <<>> = Spread(a, g)
    BY <1>0, ConcatEmptySeq
  <2>. QED
    BY <2>1, <2>2, SpreadEmpty, Zenon
<1>2. ASSUME NEW c \in Seq(S), NEW x \in S, c \in T PROVE Append(c, x) \in T
  <2>1. Append(c, x) \in Seq(S) /\ a \o c \in Seq(S)
    OBVIOUS
  <2>2. a \o Append(c, x) = Append(a \o c, x)
    <3>1. Append(c, x) = c \o <<x>> /\ Append(a \o c, x) = (a \o c) \o <<x>> /\ <<x>> \in Seq(S)
      BY <2>1, AppendIsConcat
    <3>2. (a \o c) \o <<x>> = a \o (c \o <<x>>)
      BY <3>1, ConcatAssociative
    <3>. QED
      BY <3>1, <3>2, Zenon
  <2>3. Spread(Append(a \o c, x), g) = Spread(a \o c, g) \o g[x]
    <3>1. \A y \in Seq(S) : Spread(Append(y, x), g) = Spread(y, g) \o g[x]
      BY SpreadAppend
    <3>. QED
      BY <2>1, <3>1, Zenon
  <2>4. Spread(Append(c, x), g) = Spread(c, g) \o g[x]
    BY SpreadAppend
  <2>5. Spread(c, g) \in Seq(V) /\ g[x] \in Seq(V)
    BY SpreadType
  <2>6. (Spread(a, g) \o Spread(c, g)) \o g[x] = Spread(a, g) \o (Spread(c, g) \o g[x])
    BY <1>0, <2>5, ConcatAssociative
  <2>. QED
    BY <1>2, <2>1, <2>2, <2>3, <2>4, <2>6, Zenon
<1>3. Seq(S) \subseteq T
  <2>. HIDE DEF T
  <2>. QED
    BY <1>1, <1>2, SeqInduction
<1>. QED
  BY <1>3

(* Spreading what was joined joins what the pieces spread to. *)
SpreadsTo(w, s, g) == DOMAIN w = DOMAIN s /\ \A i \in DOMAIN s : w[i] = Spread(s[i], g)

LEMMA SpreadFlatten ==
    ASSUME NEW S, NEW g \in [S -> Seq(S)]
    PROVE  \A s, w \in Seq(Seq(S)) : SpreadsTo(w, s, g) => Spread(FlattenSeq(s), g) = FlattenSeq(w)
<1>. DEFINE Z == Seq(S)
            h == [t \in Z |-> Spread(t, g)]
            T == {c \in Seq(Z) : Spread(FlattenSeq(c), g) = Spread(c, h)}
<1>1. h \in [Z -> Seq(S)]
  BY SpreadType
<1>. HIDE DEF h
<1>2. <<>> \in T
  BY FlattenEmpty, SpreadEmpty
<1>3. ASSUME NEW c \in Seq(Z), NEW x \in Z, c \in T PROVE Append(c, x) \in T
  <2>1. Spread(Append(c, x), h) = Spread(c, h) \o h[x]
    <3>. HIDE DEF Z
    <3>. QED
      BY <1>1, SpreadAppend
  <2>2. FlattenSeq(Append(c, x)) = FlattenSeq(c) \o x /\ FlattenSeq(c) \in Seq(S)
    BY FlattenAppend, FlattenType
  <2>3. Spread(FlattenSeq(c) \o x, g) = Spread(FlattenSeq(c), g) \o Spread(x, g)
    BY <2>2, SpreadConcat
  <2>4. h[x] = Spread(x, g)
    BY DEF h
  <2>5. Append(c, x) \in Seq(Z)
    <3>. HIDE DEF Z
    <3>. QED
      OBVIOUS
  <2>. QED
    BY <1>3, <2>1, <2>2, <2>3, <2>4, <2>5, Zenon
<1>4. Seq(Z) \subseteq T
  <2>. HIDE DEF T, Z
  <2>. QED
    BY <1>2, <1>3, SeqInduction
<1>5. SUFFICES ASSUME NEW s \in Seq(Z), NEW w \in Seq(Z), SpreadsTo(w, s, g)
               PROVE  Spread(FlattenSeq(s), g) = FlattenSeq(w)
  OBVIOUS
<1>6. Spread(FlattenSeq(s), g) = Spread(s, h)
  BY <1>4
<1>7. [i \in DOMAIN s |-> h[s[i]]] = w
  <2>1. DOMAIN w = DOMAIN s /\ \A i \in DOMAIN s : h[s[i]] = w[i]
    BY <1>5 DEF h, SpreadsTo
  <2>2. w = [i \in DOMAIN w |-> w[i]]
    OBVIOUS
  <2>. QED
    BY <2>1, <2>2
<1>. QED
  BY <1>6, <1>7 DEF Spread

(* A text whose tokens stay what they are stays what it is. *)
LEMMA SpreadSame ==
    ASSUME NEW S, NEW t \in Seq(S), NEW g \in [S -> Seq(S)],
           \A i \in DOMAIN t : g[t[i]] = <<t[i]>>
    PROVE  Spread(t, g) = t
<1>. DEFINE h == [x \in S |-> <<x>>]
            T == {c \in Seq(S) : Spread(c, h) = c}
<1>1. h \in [S -> Seq(S)]
  OBVIOUS
<1>2. <<>> \in T
  BY SpreadEmpty
<1>3. ASSUME NEW c \in Seq(S), NEW x \in S, c \in T PROVE Append(c, x) \in T
  <2>1. \A f \in [S -> Seq(S)] : Spread(Append(c, x), f) = Spread(c, f) \o f[x]
    BY SpreadAppend
  <2>2. h[x] = <<x>> /\ Append(c, x) = c \o <<x>> /\ Append(c, x) \in Seq(S)
    BY AppendIsConcat
  <2>. HIDE DEF h
  <2>. QED
    BY <1>1, <1>3, <2>1, <2>2, Zenon
<1>4. Seq(S) \subseteq T
  <2>. HIDE DEF T
  <2>. QED
    BY <1>2, <1>3, SeqInduction
<1>5. [i \in DOMAIN t |-> g[t[i]]] = [i \in DOMAIN t |-> h[t[i]]]
  OBVIOUS
<1>. HIDE DEF h
<1>. QED
  BY <1>4, <1>5 DEF Spread

(* The tokens of a text. *)
Tokens(t) == {t[i] : i \in DOMAIN t}

LEMMA TokensConcat ==
    ASSUME NEW S, NEW a \in Seq(S), NEW b \in Seq(S)
    PROVE  Tokens(a \o b) = Tokens(a) \cup Tokens(b)
<1>1. /\ DOMAIN (a \o b) = 1..(Len(a) + Len(b)) /\ DOMAIN a = 1..Len(a) /\ DOMAIN b = 1..Len(b)
      /\ Len(a) \in Nat /\ Len(b) \in Nat
      /\ \A i \in 1..Len(a) : (a \o b)[i] = a[i]
      /\ \A i \in 1..Len(b) : (a \o b)[Len(a) + i] = b[i]
  OBVIOUS
<1>2. Tokens(a) \subseteq Tokens(a \o b)
  BY <1>1 DEF Tokens
<1>3. ASSUME NEW i \in 1..Len(b) PROVE b[i] \in Tokens(a \o b)
  <2>1. Len(a) + i \in DOMAIN (a \o b)
    BY <1>1
  <2>. QED
    BY <1>1, <2>1 DEF Tokens
<1>4. ASSUME NEW i \in 1..(Len(a) + Len(b)) PROVE (a \o b)[i] \in Tokens(a) \cup Tokens(b)
  <2>1. CASE i <= Len(a)
    BY <1>1, <2>1 DEF Tokens
  <2>2. CASE i > Len(a)
    <3>1. i - Len(a) \in 1..Len(b) /\ Len(a) + (i - Len(a)) = i
      BY <1>1, <2>2
    <3>2. (a \o b)[i] = b[i - Len(a)]
      BY <1>1, <3>1
    <3>. QED
      BY <1>1, <3>1, <3>2 DEF Tokens
  <2>. QED
    BY <1>1, <2>1, <2>2
<1>. QED
  BY <1>1, <1>2, <1>3, <1>4 DEF Tokens

LEMMA TokensOfSpread ==
    ASSUME NEW S, NEW V, NEW t \in Seq(S), NEW g \in [S -> Seq(V)]
    PROVE  \A e : e \in Tokens(Spread(t, g)) <=> \E x \in Tokens(t) : e \in Tokens(g[x])
<1>. DEFINE U(c) == UNION {Tokens(g[x]) : x \in Tokens(c)}
            T == {c \in Seq(S) : Tokens(Spread(c, g)) = U(c)}
<1>1. <<>> \in T
  <2>1. Tokens(<<>>) = {}
    BY DEF Tokens
  <2>. QED
    BY <2>1, SpreadEmpty
<1>2. ASSUME NEW c \in Seq(S), NEW x \in S, c \in T PROVE Append(c, x) \in T
  <2>1. Spread(Append(c, x), g) = Spread(c, g) \o g[x]
    BY SpreadAppend
  <2>2. Spread(c, g) \in Seq(V) /\ g[x] \in Seq(V)
    BY SpreadType
  <2>3. Tokens(Spread(c, g) \o g[x]) = Tokens(Spread(c, g)) \cup Tokens(g[x])
    BY <2>2, TokensConcat
  <2>4. Append(c, x) = c \o <<x>> /\ <<x>> \in Seq(S) /\ Append(c, x) \in Seq(S)
    BY AppendIsConcat
  <2>5. Tokens(c \o <<x>>) = Tokens(c) \cup Tokens(<<x>>)
    BY <2>4, TokensConcat
  <2>6. Tokens(<<x>>) = {x}
    BY DEF Tokens
  <2>7. U(Append(c, x)) = U(c) \cup Tokens(g[x])
    BY <2>4, <2>5, <2>6
  <2>. HIDE DEF U
  <2>. QED
    BY <1>2, <2>1, <2>3, <2>4, <2>7
<1>3. Seq(S) \subseteq T
  <2>. HIDE DEF T
  <2>. QED
    BY <1>1, <1>2, SeqInduction
<1>. QED
  BY <1>3

-----------------------------------------------------------------------------
TextsType ==
    /\ message \in Messages /\ template \in Templates
    /\ request \in Payloads /\ returned \in Payloads
    /\ at \in 0..Filled
    /\ effectiveText \in Seq(Token)

(* The parts that were taken. *)
PartsDone == IF at <= Normalized THEN at - 1 ELSE Len(message.parts)

(* The text so far is what the parts taken so far say, in their order. *)
Gathered ==
    at # Refused /\ message.text = <<>> =>
        /\ Content(effectiveText) = FlattenSeq([i \in 1..PartsDone |-> Content(PartText(message.parts[i]))])
        /\ \A i \in 1..PartsDone : Says(PartText(message.parts[i])) => Says(effectiveText)

LEMMA PartTextType == \A p \in Part : PartText(p) \in Seq(Token)
BY EmptySeq DEF Part, PartText, PartTypes

LEMMA MessageFacts ==
    ASSUME NEW m \in Messages
    PROVE  /\ m.text \in Seq(Token) /\ m.parts \in Seq(Part)
           /\ Len(m.parts) \in Nat /\ DOMAIN m.parts = 1..Len(m.parts)
           /\ \A i \in 1..Len(m.parts) : m.parts[i] \in Part
BY TextsAssumption

(* What is left of one token when blanks are dropped. *)
NoBlank == [token \in Token |-> IF token.kind = "blank" THEN <<>> ELSE <<token>>]

LEMMA NoBlankType == NoBlank \in [Token -> Seq(Token)]
<1>1. \A token \in Token : (IF token.kind = "blank" THEN <<>> ELSE <<token>>) \in Seq(Token)
  OBVIOUS
<1>. QED
  BY <1>1 DEF NoBlank

(* What a text says, a token at a time. *)
LEMMA ContentSpreads == \A t \in Seq(Token) : Content(t) = Spread(t, NoBlank)
<1>1. SUFFICES ASSUME NEW t \in Seq(Token) PROVE Content(t) = Spread(t, NoBlank)
  OBVIOUS
<1>2. [i \in DOMAIN t |-> IF t[i].kind = "blank" THEN <<>> ELSE <<t[i]>>]
         = [i \in DOMAIN t |-> NoBlank[t[i]]]
  BY DEF NoBlank
<1>. QED
  BY <1>2 DEF Content, Spread

LEMMA BlankIsToken == Blank \in Token /\ Blank.kind = "blank"
BY DEF Blank, Token

LEMMA JoinedType ==
    ASSUME NEW t \in Seq(Token), NEW s \in Seq(Token)
    PROVE  Joined(t, s) \in Seq(Token)
BY BlankIsToken DEF Joined

(* Joining two texts keeps what both of them say. *)
LEMMA ContentOfJoined ==
    ASSUME NEW t \in Seq(Token), NEW s \in Seq(Token)
    PROVE  Content(Joined(t, s)) = Content(t) \o Content(s)
<1>1. \A a, b \in Seq(Token) : Spread(a \o b, NoBlank) = Spread(a, NoBlank) \o Spread(b, NoBlank)
  BY NoBlankType, SpreadConcat
<1>2. Content(t) = Spread(t, NoBlank) /\ Content(s) = Spread(s, NoBlank)
  BY ContentSpreads
<1>3. CASE t # <<>> /\ s # <<>>
  <2>1. <<Blank>> \in Seq(Token) /\ t \o <<Blank>> \in Seq(Token)
    BY BlankIsToken
  <2>2. (t \o <<Blank>>) \o s \in Seq(Token)
    BY <2>1
  <2>3. Spread((t \o <<Blank>>) \o s, NoBlank) = Spread(t \o <<Blank>>, NoBlank) \o Spread(s, NoBlank)
    BY <1>1, <2>1
  <2>4. Spread(t \o <<Blank>>, NoBlank) = Spread(t, NoBlank) \o Spread(<<Blank>>, NoBlank)
    BY <1>1, <2>1
  <2>5. Spread(<<Blank>>, NoBlank) = <<>>
    <3>1. [i \in DOMAIN <<Blank>> |-> IF <<Blank>>[i].kind = "blank" THEN <<>> ELSE <<<<Blank>>[i]>>]
             = <<<<>>>>
      BY BlankIsToken
    <3>2. <<<<>>>> = Append(<<>>, <<>>) /\ <<>> \in Seq(Seq(Token)) /\ <<>> \in Seq(Token)
      OBVIOUS
    <3>3. FlattenSeq(Append(<<>>, <<>>)) = FlattenSeq(<<>>) \o <<>>
      BY <3>2, FlattenAppend
    <3>4. Content(<<Blank>>) = <<>>
      BY <3>1, <3>2, <3>3, FlattenEmpty DEF Content
    <3>. QED
      BY <2>1, <3>4, ContentSpreads
  <2>6. Spread(t, NoBlank) \in Seq(Token)
    BY NoBlankType, SpreadType
  <2>7. Spread(t, NoBlank) \o <<>> = Spread(t, NoBlank)
    BY <2>6, ConcatEmptySeq
  <2>8. Joined(t, s) = (t \o <<Blank>>) \o s
    BY <1>3 DEF Joined
  <2>. QED
    BY <1>2, <2>2, <2>3, <2>4, <2>5, <2>7, <2>8, ContentSpreads, Zenon
<1>4. CASE ~(t # <<>> /\ s # <<>>)
  <2>1. Joined(t, s) = t \o s /\ t \o s \in Seq(Token)
    BY <1>4 DEF Joined
  <2>. QED
    BY <1>1, <1>2, <2>1, ContentSpreads, Zenon
<1>. QED
  BY <1>3, <1>4

LEMMA SaysTokens == \A t : Says(t) <=> \E token \in Tokens(t) : token.kind # "blank"
BY DEF Says, Tokens

LEMMA SaysJoined ==
    ASSUME NEW t \in Seq(Token), NEW s \in Seq(Token), Says(t) \/ Says(s)
    PROVE  Says(Joined(t, s))
<1>1. \A a, b \in Seq(Token) : Tokens(a \o b) = Tokens(a) \cup Tokens(b)
  BY TokensConcat
<1>2. t \o <<Blank>> \in Seq(Token) /\ <<Blank>> \in Seq(Token)
  BY BlankIsToken
<1>3. Tokens(t \o s) = Tokens(t) \cup Tokens(s)
  BY <1>1
<1>4. Tokens((t \o <<Blank>>) \o s) = Tokens(t \o <<Blank>>) \cup Tokens(s)
  BY <1>1, <1>2
<1>5. Tokens(t \o <<Blank>>) = Tokens(t) \cup Tokens(<<Blank>>)
  BY <1>1, <1>2
<1>6. Joined(t, s) = (t \o <<Blank>>) \o s \/ Joined(t, s) = t \o s
  BY DEF Joined
<1>. QED
  BY <1>3, <1>4, <1>5, <1>6, SaysTokens, Zenon

-----------------------------------------------------------------------------
LEMMA TextsTypeInit == TextsInit => TextsType
BY MessageFacts DEF TextsInit, TextsType, Filled

LEMMA TextsTypeNext == TextsType /\ [TextsNext]_textVars => TextsType'
<1>. SUFFICES ASSUME TextsType, [TextsNext]_textVars PROVE TextsType'
  OBVIOUS
<1>. USE DEF TextsType, Filled, Filling, Normalized, Refused
<1>0. Len(message.parts) \in Nat
  BY MessageFacts
<1>1. CASE Refuse
  BY <1>0, <1>1 DEF Refuse
<1>2. CASE TakePart
  <2>1. PartText(message.parts[at]) \in Seq(Token)
    BY <1>2, MessageFacts, PartTextType DEF TakePart
  <2>2. effectiveText' \in Seq(Token)
    BY <1>2, <2>1, JoinedType DEF TakePart
  <2>. QED
    BY <1>0, <1>2, <2>2 DEF TakePart
<1>3. CASE Merge
  BY <1>0, <1>3 DEF Merge
<1>4. CASE Replace
  BY <1>4 DEF Replace
<1>5. CASE Execute
  BY <1>0, <1>5 DEF Execute
<1>6. CASE UNCHANGED textVars
  BY <1>6 DEF textVars
<1>. QED
  BY <1>1, <1>2, <1>3, <1>4, <1>5, <1>6 DEF TextsNext

LEMMA GatheredInit == TextsInit => Gathered
<1>. SUFFICES ASSUME TextsInit PROVE Gathered
  OBVIOUS
<1>1. PartsDone = 0
  BY MessageFacts DEF TextsInit, PartsDone, Normalized
<1>2. SUFFICES ASSUME message.text = <<>>
               PROVE  Content(effectiveText) = FlattenSeq([i \in 1..0 |-> Content(PartText(message.parts[i]))])
  BY <1>1 DEF Gathered
<1>3. [i \in 1..0 |-> Content(PartText(message.parts[i]))] = <<>>
  OBVIOUS
<1>4. Content(<<>>) = <<>>
  BY ContentSpreads, SpreadEmpty, EmptySeq
<1>. QED
  BY <1>2, <1>3, <1>4, FlattenEmpty DEF TextsInit

LEMMA GatheredNext == TextsType /\ Gathered /\ [TextsNext]_textVars => Gathered'
<1>. SUFFICES ASSUME TextsType, Gathered, [TextsNext]_textVars PROVE Gathered'
  OBVIOUS
<1>0. Len(message.parts) \in Nat /\ at \in Int
  BY MessageFacts DEF TextsType
<1>1. CASE Refuse
  BY <1>1 DEF Refuse, Gathered, Refused
<1>2. CASE TakePart
  <2>1. CASE message.text # <<>>
    BY <1>2, <2>1 DEF TakePart, Gathered
  <2>2. CASE message.text = <<>>
    <3>. DEFINE said(i) == Content(PartText(message.parts[i]))
                before == [i \in 1..(at - 1) |-> said(i)]
                s == PartText(message.parts[at])
    <3>1. /\ at \in 1..Len(message.parts) /\ at' = at + 1 /\ message' = message
          /\ effectiveText' = Joined(effectiveText, s)
      BY <1>2, <2>2 DEF TakePart
    <3>2. PartsDone = at - 1 /\ PartsDone' = at /\ at # Refused
      BY <1>0, <3>1 DEF PartsDone, Normalized, Refused
    <3>3. /\ Content(effectiveText) = FlattenSeq(before)
          /\ \A i \in 1..(at - 1) : Says(PartText(message.parts[i])) => Says(effectiveText)
      BY <2>2, <3>2 DEF Gathered
    <3>4. \A i \in 1..Len(message.parts) : PartText(message.parts[i]) \in Seq(Token)
      BY MessageFacts, PartTextType DEF TextsType
    <3>5. s \in Seq(Token) /\ effectiveText \in Seq(Token)
      BY <3>1, <3>4 DEF TextsType
    <3>6. Content(effectiveText') = Content(effectiveText) \o Content(s)
      BY <3>1, <3>5, ContentOfJoined
    <3>7. [i \in 1..at |-> said(i)] = Append(before, said(at)) /\ before \in Seq(Seq(Token))
      <4>. DEFINE Z == Seq(Token)
      <4>1. \A i \in 1..Len(message.parts) : said(i) \in Z
        BY <3>4, ContentSpreads, NoBlankType, SpreadType
      <4>. HIDE DEF said, Z
      <4>2. before \in Seq(Z) /\ said(at) \in Z /\ Len(before) = at - 1
        BY <3>1, <4>1
      <4>3. [i \in 1..at |-> said(i)] \in Seq(Z) /\ Len([i \in 1..at |-> said(i)]) = at
        BY <3>1, <4>1
      <4>4. /\ Append(before, said(at)) \in Seq(Z) /\ Len(Append(before, said(at))) = at
            /\ \A i \in 1..at : Append(before, said(at))[i] = said(i)
        BY <3>1, <4>2
      <4>5. [i \in 1..at |-> said(i)] = Append(before, said(at))
        <5>. DEFINE u == [i \in 1..at |-> said(i)]
                    w == Append(before, said(at))
        <5>1. \A i \in 1..at : u[i] = w[i]
          BY <4>4
        <5>. HIDE DEF u, w
        <5>. QED
          BY <4>3, <4>4, <5>1, SeqEqual DEF u, w
      <4>. QED
        BY <4>2, <4>5 DEF Z
    <3>8. FlattenSeq(Append(before, said(at))) = FlattenSeq(before) \o said(at)
      <4>1. said(at) \in Seq(Token)
        BY <3>5, ContentSpreads, NoBlankType, SpreadType
      <4>. HIDE DEF before, said
      <4>. QED
        BY <3>7, <4>1, FlattenAppend
    <3>9. Content(effectiveText') = FlattenSeq([i \in 1..at |-> said(i)])
      <4>. HIDE DEF before
      <4>. QED
        BY <3>3, <3>6, <3>7, <3>8, Zenon
    <3>10. \A i \in 1..at : Says(PartText(message.parts[i])) => Says(effectiveText')
      <4>1. SUFFICES ASSUME NEW i \in 1..at, Says(PartText(message.parts[i])) PROVE Says(effectiveText')
        OBVIOUS
      <4>2. Says(effectiveText) \/ Says(s)
        BY <3>1, <3>3, <4>1
      <4>. QED
        BY <3>1, <3>5, <4>2, SaysJoined
    <3>. QED
      BY <3>1, <3>2, <3>9, <3>10 DEF Gathered
  <2>. QED
    BY <2>1, <2>2
<1>3. ASSUME /\ at' \in Int /\ at \in Int /\ at >= Normalized /\ at' >= Normalized
             /\ UNCHANGED <<message, effectiveText>>
      PROVE  Gathered'
  <2>1. PartsDone' = PartsDone /\ at # Refused
    BY <1>0, <1>3 DEF PartsDone, Normalized, Refused
  <2>. QED
    BY <1>3, <2>1 DEF Gathered
<1>4. CASE Merge
  BY <1>0, <1>3, <1>4 DEF Merge, Normalized, Filling
<1>5. CASE Replace
  BY <1>0, <1>3, <1>5 DEF Replace, Normalized, Filling
<1>6. CASE Execute
  BY <1>0, <1>3, <1>6 DEF Execute, Normalized, Filling, Filled
<1>7. CASE UNCHANGED textVars
  BY <1>7 DEF textVars, Gathered, PartsDone, Normalized
<1>. QED
  BY <1>1, <1>2, <1>4, <1>5, <1>6, <1>7 DEF TextsNext

LEMMA GatheredKeepsParts == TextsType /\ Gathered => TextKeepsParts
<1>. SUFFICES ASSUME TextsType, Gathered, at >= Normalized, message.text = <<>>
              PROVE  LET sent == message.parts IN
                     /\ Content(effectiveText)
                           = FlattenSeq([i \in DOMAIN sent |-> Content(PartText(sent[i]))])
                     /\ (\E i \in DOMAIN sent : SaysInItsType(sent[i])) =>
                           \/ Says(effectiveText)
                           \/ \E i \in DOMAIN sent : sent[i].type = "data" /\ sent[i].data
  BY DEF TextKeepsParts
<1>1. Len(message.parts) \in Nat /\ at \in Int /\ DOMAIN message.parts = 1..Len(message.parts)
  BY MessageFacts DEF TextsType
<1>2. at # Refused /\ PartsDone = Len(message.parts)
  BY <1>1 DEF PartsDone, Normalized, Refused
<1>. QED
  BY <1>1, <1>2 DEF Gathered, SaysInItsType

(* However many parts a message without a text of its own has, its text    *)
(* keeps what each of them says, in their order and none twice.            *)
THEOREM TextKeepsAllParts == TextsInit /\ [][TextsNext]_textVars => []TextKeepsParts
<1>1. TextsInit => TextsType /\ Gathered
  BY TextsTypeInit, GatheredInit
<1>2. TextsType /\ Gathered /\ [TextsNext]_textVars => (TextsType /\ Gathered)'
  BY TextsTypeNext, GatheredNext
<1>. QED
  BY <1>1, <1>2, GatheredKeepsParts, PTL

-----------------------------------------------------------------------------
LEMMA SpreadOne ==
    ASSUME NEW S, NEW V, NEW x \in S, NEW g \in [S -> Seq(V)]
    PROVE  Spread(<<x>>, g) = g[x]
<1>1. Append(<<>>, x) = <<x>> /\ <<>> \in Seq(S)
  OBVIOUS
<1>2. \A t \in Seq(S) : Spread(Append(t, x), g) = Spread(t, g) \o g[x]
  BY SpreadAppend
<1>3. Spread(<<>>, g) = <<>>
  BY SpreadEmpty
<1>4. <<>> \o g[x] = g[x]
  BY ConcatEmptySeq
<1>. QED
  BY <1>1, <1>2, <1>3, <1>4, Zenon

(* Spreading twice is spreading once. *)
Composes(k, g, h) == \A x \in DOMAIN k : k[x] = Spread(g[x], h)

LEMMA SpreadTwice ==
    ASSUME NEW S, NEW g \in [S -> Seq(S)], NEW h \in [S -> Seq(S)], NEW k \in [S -> Seq(S)],
           Composes(k, g, h)
    PROVE  \A t \in Seq(S) : Spread(Spread(t, g), h) = Spread(t, k)
<1>1. \A u, w \in Seq(Seq(S)) : SpreadsTo(w, u, h) => Spread(FlattenSeq(u), h) = FlattenSeq(w)
  BY SpreadFlatten
<1>2. SUFFICES ASSUME NEW t \in Seq(S) PROVE Spread(Spread(t, g), h) = Spread(t, k)
  OBVIOUS
<1>. DEFINE Z == Seq(S)
            u == [i \in DOMAIN t |-> g[t[i]]]
            w == [i \in DOMAIN t |-> k[t[i]]]
<1>3. DOMAIN t = 1..Len(t) /\ Len(t) \in Nat /\ \A i \in DOMAIN t : t[i] \in S /\ g[t[i]] \in Z /\ k[t[i]] \in Z
  OBVIOUS
<1>4. u \in Seq(Z) /\ w \in Seq(Z) /\ DOMAIN u = DOMAIN t /\ DOMAIN w = DOMAIN t
  <2>. HIDE DEF Z
  <2>. QED
    BY <1>3
<1>5. SpreadsTo(w, u, h)
  BY <1>3 DEF SpreadsTo, Composes
<1>6. Spread(FlattenSeq(u), h) = FlattenSeq(w)
  <2>. HIDE DEF u, w
  <2>. QED
    BY <1>1, <1>4, <1>5
<1>. QED
  BY <1>6 DEF Spread

-----------------------------------------------------------------------------
(* Values V by name, with spellings L still to be replaced: what a token   *)
(* of the template has become.                                             *)
IsValues(V) == DOMAIN V \subseteq FieldNames /\ \A n \in DOMAIN V : V[n] \in Seq(Token)

PlainValues(V) == \A n \in DOMAIN V : PlainValue(V[n])

KnownAs(V) == UNION {Spellings[n] : n \in DOMAIN V}

Become(V, L) ==
    [token \in Token |->
        IF token.kind = "name" /\ token.is \in KnownAs(V) \ L
        THEN V[CHOOSE n \in DOMAIN V : token.is \in Spellings[n]] ELSE <<token>>]

LEMMA BecomeValue ==
    ASSUME NEW V, IsValues(V), NEW L, NEW token \in Token, token.kind = "name", token.is \notin L,
           NEW n \in DOMAIN V, token.is \in Spellings[n]
    PROVE  Become(V, L)[token] = V[n]
<1>. DEFINE m == CHOOSE o \in DOMAIN V : token.is \in Spellings[o]
<1>1. m \in DOMAIN V /\ token.is \in Spellings[m]
  OBVIOUS
<1>. HIDE DEF m
<1>2. m = n
  BY <1>1, SpellingsAssumption DEF IsValues
<1>3. token.is \in KnownAs(V) \ L
  BY DEF KnownAs
<1>4. Become(V, L)[token] = V[m]
  BY <1>3 DEF Become, m
<1>. QED
  BY <1>2, <1>4

LEMMA BecomeSame ==
    ASSUME NEW V, NEW L, NEW token \in Token, token.kind # "name" \/ token.is \notin KnownAs(V) \ L
    PROVE  Become(V, L)[token] = <<token>>
BY DEF Become

LEMMA BecomeType ==
    ASSUME NEW V, IsValues(V), NEW L
    PROVE  Become(V, L) \in [Token -> Seq(Token)]
<1>1. SUFFICES ASSUME NEW token \in Token PROVE Become(V, L)[token] \in Seq(Token)
  BY DEF Become
<1>2. CASE token.kind # "name" \/ token.is \notin KnownAs(V) \ L
  <2>1. Become(V, L)[token] = <<token>>
    BY <1>2, BecomeSame
  <2>. QED
    BY <2>1
<1>3. CASE token.kind = "name" /\ token.is \in KnownAs(V) \ L
  <2>1. PICK n \in DOMAIN V : token.is \in Spellings[n]
    BY <1>3 DEF KnownAs
  <2>2. Become(V, L)[token] = V[n]
    BY <1>3, <2>1, BecomeValue
  <2>. QED
    BY <2>2 DEF IsValues
<1>. QED
  BY <1>2, <1>3

(* Replacing one placeholder. *)
Swap(s, v) == [token \in Token |-> IF token.kind = "name" /\ token.is = s THEN v ELSE <<token>>]

LEMMA SwapType == ASSUME NEW s, NEW v \in Seq(Token) PROVE Swap(s, v) \in [Token -> Seq(Token)]
BY DEF Swap

LEMMA ReplacedSpreads ==
    ASSUME NEW t \in Seq(Token), NEW s, NEW v
    PROVE  Replaced(t, s, v) = Spread(t, Swap(s, v))
<1>1. [i \in DOMAIN t |-> IF t[i].kind = "name" /\ t[i].is = s THEN v ELSE <<t[i]>>]
         = [i \in DOMAIN t |-> Swap(s, v)[t[i]]]
  BY DEF Swap
<1>. QED
  BY <1>1 DEF Replaced, Spread

(* Replacing a placeholder takes it from those that are left, in whatever  *)
(* a token has become: the values that were filled in are plain.           *)
LEMMA ReplacedPiece ==
    ASSUME NEW V, IsValues(V), PlainValues(V), NEW L, NEW s \in L,
           NEW n \in DOMAIN V, s \in Spellings[n], NEW token \in Token
    PROVE  Spread(Become(V, L)[token], Swap(s, V[n])) = Become(V, L \ {s})[token]
<1>. DEFINE g == Swap(s, V[n])
<1>1. g \in [Token -> Seq(Token)]
  BY SwapType DEF IsValues
<1>2. Spread(<<token>>, g) = g[token]
  <2>. HIDE DEF g
  <2>. QED
    BY <1>1, SpreadOne
<1>3. CASE token.kind = "name" /\ token.is = s
  <2>1. Become(V, L)[token] = <<token>>
    BY <1>3, BecomeSame
  <2>2. Become(V, L \ {s})[token] = V[n]
    BY <1>3, BecomeValue
  <2>3. g[token] = V[n]
    BY <1>3 DEF Swap
  <2>. QED
    BY <1>2, <2>1, <2>2, <2>3, Zenon
<1>4. CASE /\ ~(token.kind = "name" /\ token.is = s)
           /\ token.kind # "name" \/ token.is \notin KnownAs(V) \ L
  <2>1. Become(V, L)[token] = <<token>> /\ Become(V, L \ {s})[token] = <<token>>
    BY <1>4, BecomeSame
  <2>2. g[token] = <<token>>
    BY <1>4 DEF Swap
  <2>. QED
    BY <1>2, <2>1, <2>2, Zenon
<1>5. CASE token.kind = "name" /\ token.is \in KnownAs(V) \ L
  <2>1. PICK o \in DOMAIN V : token.is \in Spellings[o]
    BY <1>5 DEF KnownAs
  <2>2. token.is \notin L /\ token.is \notin L \ {s}
    BY <1>5
  <2>3. Become(V, L)[token] = V[o]
    BY <1>5, <2>1, <2>2, BecomeValue
  <2>4. Become(V, L \ {s})[token] = V[o]
    BY <1>5, <2>1, <2>2, BecomeValue
  <2>5. V[o] \in Seq(Token) /\ \A i \in DOMAIN V[o] : V[o][i].kind \in {"word", "blank"}
    BY DEF IsValues, PlainValues, PlainValue
  <2>6. \A i \in DOMAIN V[o] : g[V[o][i]] = <<V[o][i]>>
    BY <2>5 DEF Swap
  <2>7. Spread(V[o], g) = V[o]
    <3>. HIDE DEF g
    <3>. QED
      BY <1>1, <2>5, <2>6, SpreadSame
  <2>. QED
    BY <2>3, <2>4, <2>7, Zenon
<1>. QED
  BY <1>3, <1>4, <1>5

LEMMA ReplacedBecomes ==
    ASSUME NEW V, IsValues(V), PlainValues(V), NEW L, NEW s \in L,
           NEW n \in DOMAIN V, s \in Spellings[n]
    PROVE  \A t \in Seq(Token) : Replaced(Spread(t, Become(V, L)), s, V[n]) = Spread(t, Become(V, L \ {s}))
<1>. DEFINE b == Become(V, L)
            c == Become(V, L \ {s})
            g == Swap(s, V[n])
<1>1. b \in [Token -> Seq(Token)] /\ c \in [Token -> Seq(Token)]
  BY BecomeType
<1>2. g \in [Token -> Seq(Token)]
  BY SwapType DEF IsValues
<1>3. \A token \in Token : Spread(b[token], g) = c[token]
  BY ReplacedPiece
<1>. HIDE DEF b, c, g
<1>4. Composes(c, b, g)
  BY <1>1, <1>3 DEF Composes
<1>5. \A t \in Seq(Token) : Spread(Spread(t, b), g) = Spread(t, c)
  BY <1>1, <1>2, <1>4, SpreadTwice
<1>6. \A t \in Seq(Token) : Replaced(Spread(t, b), s, V[n]) = Spread(Spread(t, b), g)
  <2>1. SUFFICES ASSUME NEW t \in Seq(Token) PROVE Replaced(Spread(t, b), s, V[n]) = Spread(Spread(t, b), g)
    OBVIOUS
  <2>2. Spread(t, b) \in Seq(Token)
    BY <1>1, SpreadType
  <2>. QED
    BY <2>2, ReplacedSpreads DEF g
<1>. QED
  BY <1>5, <1>6 DEF b, c

(* A result breaks if and only if the template does. *)
LEMMA BreaksTokens == \A t : Breaks(t) <=> \E token \in Tokens(t) : token.kind = "bad action"
BY DEF Breaks, Tokens

LEMMA SpreadBreaks ==
    ASSUME NEW t \in Seq(Token), NEW V, IsValues(V), PlainValues(V), NEW L
    PROVE  Breaks(Spread(t, Become(V, L))) <=> Breaks(t)
<1>. DEFINE b == Become(V, L)
<1>1. b \in [Token -> Seq(Token)]
  BY BecomeType
<1>2. Tokens(t) \subseteq Token
  BY DEF Tokens
<1>3. \A token \in Token : Breaks(b[token]) <=> token.kind = "bad action"
  <2>1. SUFFICES ASSUME NEW token \in Token PROVE Breaks(b[token]) <=> token.kind = "bad action"
    OBVIOUS
  <2>2. CASE token.kind # "name" \/ token.is \notin KnownAs(V) \ L
    <3>1. b[token] = <<token>>
      BY <2>2, BecomeSame
    <3>. QED
      <4>1. DOMAIN <<token>> = {1} /\ <<token>>[1] = token
        OBVIOUS
      <4>2. Breaks(<<token>>) <=> token.kind = "bad action"
        BY <4>1 DEF Breaks
      <4>. QED
        BY <3>1, <4>2, Zenon
  <2>3. CASE token.kind = "name" /\ token.is \in KnownAs(V) \ L
    <3>1. PICK n \in DOMAIN V : token.is \in Spellings[n]
      BY <2>3 DEF KnownAs
    <3>2. b[token] = V[n]
      BY <2>3, <3>1, BecomeValue
    <3>. QED
      BY <2>3, <3>2 DEF Breaks, PlainValues, PlainValue
  <2>. QED
    BY <2>2, <2>3
<1>. HIDE DEF b
<1>4. \A e : e \in Tokens(Spread(t, b)) <=> \E x \in Tokens(t) : e \in Tokens(b[x])
  BY <1>1, TokensOfSpread
<1>5. Breaks(Spread(t, b)) <=> \E x \in Tokens(t) : Breaks(b[x])
  BY <1>4, BreaksTokens
<1>6. Breaks(Spread(t, b)) <=> Breaks(t)
  BY <1>2, <1>3, <1>5, BreaksTokens
<1>. QED
  BY <1>6 DEF b

-----------------------------------------------------------------------------
(* What the template has become so far, and what it is in the end. *)
Pieces ==
    PlainValues(Merged) =>
        /\ at = Filling => /\ left \subseteq KnownAs(Merged)
                          /\ output = Spread(template, Become(Merged, left))
        /\ at = Filled => output = IF Breaks(template) THEN template
                                   ELSE Spread(template, Become(Merged, {}))

LEMMA MergedIsValues == TextsType => IsValues(Merged)
BY TextsAssumption DEF TextsType, IsValues, Merged

LEMMA TemplateType == TextsType => template \in Seq(Token)
BY TextsAssumption DEF TextsType

LEMMA PiecesInit == TextsInit => Pieces
BY MessageFacts DEF TextsInit, Pieces, Filling, Filled

LEMMA PiecesNext == TextsType /\ Pieces /\ [TextsNext]_textVars => Pieces'
<1>. SUFFICES ASSUME TextsType, Pieces, [TextsNext]_textVars, PlainValues(Merged)'
     PROVE  /\ at' = Filling' => /\ left' \subseteq KnownAs(Merged')
                                /\ output' = Spread(template', Become(Merged', left'))
            /\ at' = Filled' => output' = IF Breaks(template') THEN template'
                                         ELSE Spread(template', Become(Merged', {}))
  BY DEF Pieces
<1>0. Len(message.parts) \in Nat /\ at \in Int /\ template \in Seq(Token)
  BY MessageFacts, TemplateType DEF TextsType
<1>1. PICK V : V = Merged
  OBVIOUS
<1>2. Merged' = V /\ template' = template /\ message' = message
  <2>1. UNCHANGED <<message, template, request, returned>>
    BY DEF TextsNext, Refuse, TakePart, Merge, Replace, Execute, textVars
  <2>. QED
    BY <1>1, <2>1 DEF Merged
<1>3. IsValues(V) /\ PlainValues(V)
  BY <1>1, <1>2, MergedIsValues
<1>4. CASE Refuse
  BY <1>0, <1>4 DEF Refuse, Refused, Filling, Filled
<1>5. CASE TakePart
  BY <1>0, <1>5 DEF TakePart, Filling, Filled
<1>6. CASE Merge
  <2>1. /\ output' = template /\ left' = KnownAs(V) /\ at' = Filling /\ at' # Filled'
    BY <1>0, <1>1, <1>2, <1>6 DEF Merge, KnownAs, Filling, Filled
  <2>. DEFINE b == Become(V, KnownAs(V))
  <2>2. b \in [Token -> Seq(Token)]
    BY <1>3, BecomeType
  <2>3. \A i \in DOMAIN template : b[template[i]] = <<template[i]>>
    BY <1>0, BecomeSame
  <2>4. Spread(template, b) = template
    <3>. HIDE DEF b
    <3>. QED
      BY <1>0, <2>2, <2>3, SpreadSame
  <2>. QED
    BY <1>2, <2>1, <2>4
<1>7. CASE Replace
  <2>1. PICK s \in left, n \in DOMAIN V :
           s \in Spellings[n] /\ output' = Replaced(output, s, V[n]) /\ left' = left \ {s}
    BY <1>1, <1>7 DEF Replace
  <2>2. at = Filling /\ at' = Filling /\ at' # Filled'
    BY <1>0, <1>2, <1>7 DEF Replace, Filling, Filled
  <2>3. left \subseteq KnownAs(V) /\ output = Spread(template, Become(V, left))
    BY <1>1, <1>3, <2>2 DEF Pieces
  <2>4. Replaced(Spread(template, Become(V, left)), s, V[n]) = Spread(template, Become(V, left \ {s}))
    BY <1>0, <1>3, <2>1, ReplacedBecomes
  <2>. QED
    BY <1>2, <2>1, <2>2, <2>3, <2>4
<1>8. CASE Execute
  <2>1. /\ at = Filling /\ left = {} /\ at' # Filling'
        /\ output' = IF Breaks(output) THEN template ELSE output
    BY <1>0, <1>2, <1>8 DEF Execute, Filling, Filled
  <2>2. output = Spread(template, Become(V, {}))
    BY <1>1, <1>3, <2>1 DEF Pieces
  <2>3. Breaks(output) <=> Breaks(template)
    BY <1>0, <1>3, <2>2, SpreadBreaks
  <2>. QED
    BY <1>2, <2>1, <2>2, <2>3, Zenon
<1>9. CASE UNCHANGED textVars
  BY <1>1, <1>2, <1>3, <1>9 DEF textVars, Pieces, Filling, Filled
<1>. QED
  BY <1>4, <1>5, <1>6, <1>7, <1>8, <1>9 DEF TextsNext

(* What a token means is what it becomes in the end. *)
LEMMA MeantByBecomes ==
    ASSUME TextsType, NEW token \in Token
    PROVE  MeantBy(token) = Become(Merged, {})[token]
<1>. DEFINE known(v) == {n \in DOMAIN v : token.kind = "name" /\ token.is \in Spellings[n]}
<1>1. IsValues(Merged)
  BY MergedIsValues
<1>2. /\ DOMAIN Merged = DOMAIN returned \cup DOMAIN request
      /\ \A n \in DOMAIN returned : Merged[n] = returned[n]
      /\ \A n \in DOMAIN request \ DOMAIN returned : Merged[n] = request[n]
  BY DEF Merged
<1>3. CASE known(returned) # {}
  <2>1. PICK n : n = CHOOSE m \in known(returned) : TRUE
    OBVIOUS
  <2>2. n \in known(returned)
    BY <1>3, <2>1
  <2>3. MeantBy(token) = returned[n]
    BY <1>3, <2>1 DEF MeantBy
  <2>4. Become(Merged, {})[token] = Merged[n]
    BY <1>1, <1>2, <2>2, BecomeValue
  <2>. QED
    BY <1>2, <2>2, <2>3, <2>4
<1>4. CASE known(returned) = {} /\ known(request) # {}
  <2>1. PICK n : n = CHOOSE m \in known(request) : TRUE
    OBVIOUS
  <2>2. n \in known(request) /\ n \notin DOMAIN returned
    BY <1>4, <2>1
  <2>3. MeantBy(token) = request[n]
    BY <1>4, <2>1 DEF MeantBy
  <2>4. Become(Merged, {})[token] = Merged[n]
    BY <1>1, <1>2, <2>2, BecomeValue
  <2>. QED
    BY <1>2, <2>2, <2>3, <2>4
<1>5. CASE known(returned) = {} /\ known(request) = {}
  <2>1. MeantBy(token) = <<token>>
    BY <1>5 DEF MeantBy
  <2>2. token.kind # "name" \/ token.is \notin KnownAs(Merged) \ {}
    BY <1>2, <1>5 DEF KnownAs
  <2>3. Become(Merged, {})[token] = <<token>>
    BY <2>2, BecomeSame
  <2>. QED
    BY <2>1, <2>3
<1>. QED
  BY <1>3, <1>4, <1>5

LEMMA PiecesFillIn == TextsType /\ Pieces => FilledIn
<1>. SUFFICES ASSUME TextsType, Pieces, at = Filled,
                     \A v \in {request, returned} : \A n \in DOMAIN v : PlainValue(v[n])
              PROVE  output = IF Breaks(template) THEN template
                              ELSE FlattenSeq([i \in DOMAIN template |-> MeantBy(template[i])])
  BY DEF FilledIn
<1>1. PlainValues(Merged)
  BY DEF PlainValues, Merged
<1>2. output = IF Breaks(template) THEN template ELSE Spread(template, Become(Merged, {}))
  BY <1>1 DEF Pieces
<1>3. \A i \in DOMAIN template : MeantBy(template[i]) = Become(Merged, {})[template[i]]
  BY TemplateType, MeantByBecomes
<1>4. [i \in DOMAIN template |-> MeantBy(template[i])]
         = [i \in DOMAIN template |-> Become(Merged, {})[template[i]]]
  BY <1>3
<1>. QED
  BY <1>2, <1>4 DEF Spread

(* In whatever order the spellings are replaced, the text is the template  *)
(* with every token of a known name given its value, and nothing else, if  *)
(* the values are plain.                                                   *)
THEOREM TemplatesAreFilledIn == TextsInit /\ [][TextsNext]_textVars => []FilledIn
<1>1. TextsInit => TextsType /\ Pieces
  BY TextsTypeInit, PiecesInit
<1>2. TextsType /\ Pieces /\ [TextsNext]_textVars => (TextsType /\ Pieces)'
  BY TextsTypeNext, PiecesNext
<1>. QED
  BY <1>1, <1>2, PiecesFillIn, PTL
=============================================================================
