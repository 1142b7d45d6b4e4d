----------------------------- MODULE TaskTexts -----------------------------
(***************************************************************************)
(* The texts at both ends of a Send.  On the way in, Message.Validate lets *)
(* a message pass and normalizeMessageText makes one text of its parts,    *)
(* beside which only data parts reach a typed action.  On the way out,     *)
(* evaluateCompositeTemplate fills a summary or an artifact name in from   *)
(* the request and the result, which it lays over each other.              *)
(*                                                                         *)
(* A text is a sequence of tokens: a word, a blank, a placeholder for a    *)
(* name, or a template action, good or bad.  A field is known by several   *)
(* spellings of its name; they are replaced one by one, in any order here  *)
(* (in the code: sorted).                                                  *)
(***************************************************************************)
EXTENDS Naturals, SequencesExt

CONSTANTS
    Words,      \* words of texts and values of fields
    FieldNames, \* names of fields
    Spellings,  \* Spellings[n]: the placeholders a field named n is known by
    Messages,   \* messages: [role, text, parts]
    Templates,  \* the templates of bindings
    Payloads    \* what requests and results hold: functions from names to texts

Token == [kind : {"word"}, is : Words]
         \cup [kind : {"name"}, is : UNION {Spellings[n] : n \in FieldNames}]
         \cup [kind : {"blank", "action", "bad action"}, is : {""}]

PartTypes == {"text", "file", "data"}
Part == [type : PartTypes, text : Seq(Token), data : BOOLEAN, link : Seq(Token), content : BOOLEAN]

ASSUME TextsAssumption ==
    /\ \A t \in Templates : t \in Seq(Token)
    /\ \A v \in Payloads : DOMAIN v \subseteq FieldNames /\ \A n \in DOMAIN v : v[n] \in Seq(Token)
    /\ \A m \in Messages : m.role \in BOOLEAN /\ m.text \in Seq(Token) /\ m.parts \in Seq(Part)
ASSUME SpellingsAssumption ==
    \A n, o \in FieldNames : n # o => Spellings[n] \cap Spellings[o] = {}

VARIABLES
    message,   \* the message a client sent
    at,        \* the next part to look at, or where the message stopped
    effectiveText, \* the text for the action, so far
    template,  \* SummaryTemplate or ArtifactName
    request,   \* the decoded request of the action
    returned,  \* its result
    left,      \* the spellings still to be replaced
    output     \* the text so far

textVars == <<message, at, effectiveText, template, request, returned, left, output>>

Refused == 0
Normalized == Len(message.parts) + 1
Filling == Len(message.parts) + 2
Filled == Len(message.parts) + 3

TextsInit ==
    /\ message \in Messages /\ template \in Templates
    /\ request \in Payloads /\ returned \in Payloads
    /\ at = 1
    /\ effectiveText = message.text
    /\ left = {}
    /\ output = <<>>

-----------------------------------------------------------------------------
(* The way in. *)

(* strings.TrimSpace(text) != "" *)
Says(t) == \E i \in DOMAIN t : t[i].kind # "blank"

HasContent(p) == Says(p.text) \/ p.data \/ p.link # <<>> \/ p.content

Validate(m) == m.role /\ (Says(m.text) \/ \E i \in DOMAIN m.parts : HasContent(m.parts[i]))

(* What a part adds to the text: a file its URL or else its name. *)
PartText(p) == CASE p.type = "text" -> p.text
                 [] p.type = "file" -> p.link
                 [] p.type = "data" -> <<>>

Blank == [kind |-> "blank", is |-> ""]

(* A mutant of Joined: each part replaces the text of the ones before. *)
BadJoined(t, s) == s

Joined(t, s) == IF t # <<>> /\ s # <<>> THEN t \o <<Blank>> \o s ELSE t \o s

Refuse ==
    /\ at = 1 /\ ~Validate(message)
    /\ at' = Refused
    /\ UNCHANGED <<message, effectiveText, template, request, returned, left, output>>

(* Parts are looked at only if the message has no text of its own. *)
TakePart ==
    /\ at \in 1..Len(message.parts) /\ Validate(message)
    /\ effectiveText' = IF message.text # <<>> THEN effectiveText
                        ELSE Joined(effectiveText, PartText(message.parts[at]))
    /\ at' = at + 1
    /\ UNCHANGED <<message, template, request, returned, left, output>>

-----------------------------------------------------------------------------
(* The way out. *)

(* A mutant of Merged: the request is laid over the result. *)
BadMerged ==
    [n \in DOMAIN returned \cup DOMAIN request |->
        IF n \in DOMAIN request THEN request[n] ELSE returned[n]]

(* The values of the names, the result's over the request's. *)
Merged ==
    [n \in DOMAIN returned \cup DOMAIN request |->
        IF n \in DOMAIN returned THEN returned[n] ELSE request[n]]

Merge ==
    /\ at = Normalized /\ Validate(message)
    /\ output' = template
    /\ left' = UNION {Spellings[n] : n \in DOMAIN Merged}
    /\ at' = Filling
    /\ UNCHANGED <<message, effectiveText, template, request, returned>>

(* strings.ReplaceAll of one placeholder. *)
Replaced(t, s, v) ==
    FlattenSeq([i \in DOMAIN t |-> IF t[i].kind = "name" /\ t[i].is = s THEN v ELSE <<t[i]>>])

Replace ==
    /\ at = Filling
    /\ \E s \in left, n \in DOMAIN Merged :
          /\ s \in Spellings[n]
          /\ output' = Replaced(output, s, Merged[n])
          /\ left' = left \ {s}
    /\ UNCHANGED <<message, at, effectiveText, template, request, returned>>

(* text/template, whose actions stay what they are here; an error gives    *)
(* the source back, placeholders and all.                                  *)
Breaks(t) == \E i \in DOMAIN t : t[i].kind = "bad action"

Execute ==
    /\ at = Filling /\ left = {}
    /\ output' = IF Breaks(output) THEN template ELSE output
    /\ at' = Filled
    /\ UNCHANGED <<message, effectiveText, template, request, returned, left>>

TextsNext == Refuse \/ TakePart \/ Merge \/ Replace \/ Execute

-----------------------------------------------------------------------------
(* The text of a message without one of its own is made of all its parts,  *)
(* each in its place and none twice; so what a validated message says      *)
(* reaches a typed action, provided that it is said in a part of its type. *)
Content(t) == FlattenSeq([i \in DOMAIN t |-> IF t[i].kind = "blank" THEN <<>> ELSE <<t[i]>>])

SaysInItsType(p) == Says(PartText(p)) \/ (p.type = "data" /\ p.data)

TextKeepsParts ==
    at >= Normalized /\ message.text = <<>> =>
        LET parts == message.parts IN
        /\ Content(effectiveText) = FlattenSeq([i \in DOMAIN parts |-> Content(PartText(parts[i]))])
        /\ (\E i \in DOMAIN parts : SaysInItsType(parts[i])) =>
              Says(effectiveText) \/ \E i \in DOMAIN parts : parts[i].type = "data" /\ parts[i].data

(* Filling in replaces every placeholder of a known field, in any of its   *)
(* spellings, by the result's value, or the request's if the result has    *)
(* none, and nothing else.  Payloads that look like placeholders or actions  *)
(* themselves are excepted: they are filled in or executed in their turn.  *)
PlainValue(t) == \A i \in DOMAIN t : t[i].kind \in {"word", "blank"}

MeantBy(token) ==
    LET known(v) == {n \in DOMAIN v : token.kind = "name" /\ token.is \in Spellings[n]} IN
    CASE known(returned) # {} -> returned[CHOOSE n \in known(returned) : TRUE]
      [] known(returned) = {} /\ known(request) # {} -> request[CHOOSE n \in known(request) : TRUE]
      [] OTHER -> <<token>>

FilledIn ==
    at = Filled /\ (\A v \in {request, returned} : \A n \in DOMAIN v : PlainValue(v[n])) =>
        output = IF Breaks(template) THEN template
                 ELSE FlattenSeq([i \in DOMAIN template |-> MeantBy(template[i])])
=============================================================================
