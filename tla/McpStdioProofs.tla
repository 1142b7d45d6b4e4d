---------------------------- MODULE McpStdioProofs ----------------------------
(***************************************************************************)
(* What the registry promises to the requests served from it, and how soon *)
(* Serve notices a cancellation: for all actions, batches and requests.    *)
(***************************************************************************)
EXTENDS McpStdio, TLAPS, SequenceTheorems

LEMMA DocURIsDiffer ==
    ASSUME NEW m, NEW n, DocURI(m) = DocURI(n)
    PROVE  m = n
  BY DEF DocURI

(* The document of a tool of the batch describes that tool's action, and   *)
(* no other resource of the batch has its URI.                             *)
LEMMA DocsOfTools ==
    ASSUME NEW tools
    PROVE  /\ DOMAIN DocsOf(tools) = {DocURI(n) : n \in DOMAIN tools}
           /\ \A n \in DOMAIN tools : DocsOf(tools)[DocURI(n)].of = tools[n]
  BY DEF DocsOf, DocURI

(* Mounting any tools with their documents keeps each document with its    *)
(* tool: those of the batch by DocsOfTools, the others are not touched.    *)
LEMMA MountKeepsDocs ==
    ASSUME DocsFollowTools, NEW tools,
           actions' = Over(actions, tools),
           resources' = Over(resources, DocsOf(tools))
    PROVE  DocsFollowTools'
<1>. SUFFICES ASSUME NEW n \in DOMAIN actions'
              PROVE  /\ DocURI(n) \in DOMAIN resources'
                     /\ resources'[DocURI(n)].of \in {actions'[n], Host}
  BY DEF DocsFollowTools
<1>1. DOMAIN resources' = DOMAIN resources \cup {DocURI(m) : m \in DOMAIN tools}
  BY DocsOfTools DEF Over
<1>2. n \in DOMAIN actions \/ n \in DOMAIN tools
  BY DEF Over
<1>3. CASE n \in DOMAIN tools
  <2>1. DocURI(n) \in DOMAIN DocsOf(tools)
    BY <1>3, DocsOfTools
  <2>2. resources'[DocURI(n)] = DocsOf(tools)[DocURI(n)]
    BY <1>1, <2>1 DEF Over
  <2>3. actions'[n] = tools[n]
    BY <1>3 DEF Over
  <2>4. DocsOf(tools)[DocURI(n)].of = tools[n] /\ DocURI(n) \in DOMAIN resources'
    BY <1>1, <1>3, DocsOfTools
  <2>. QED
    BY <2>2, <2>3, <2>4
<1>4. CASE n \notin DOMAIN tools
  <2>1. DocURI(n) \notin DOMAIN DocsOf(tools)
    <3>1. \A m \in DOMAIN tools : DocURI(m) # DocURI(n)
      BY <1>4, DocURIsDiffer
    <3>2. DOMAIN DocsOf(tools) = {DocURI(m) : m \in DOMAIN tools}
      BY DocsOfTools
    <3>. QED
      BY <3>1, <3>2
  <2>2. DocURI(n) \in DOMAIN resources /\ resources[DocURI(n)].of \in {actions[n], Host}
    BY <1>2, <1>4 DEF DocsFollowTools
  <2>3. resources'[DocURI(n)] = resources[DocURI(n)]
    BY <2>1, <2>2 DEF Over
  <2>4. actions'[n] = actions[n]
    BY <1>2, <1>4 DEF Over
  <2>. QED
    BY <1>1, <2>2, <2>3, <2>4
<1>. QED
  BY <1>3, <1>4

(* A resource of the host takes the place of at most one document.         *)
LEMMA RegisterKeepsDocs ==
    ASSUME DocsFollowTools, NEW r, RegisterResource(r)
    PROVE  DocsFollowTools'
<1>. DEFINE own == [uri \in {r.uri} |-> [of |-> Host, readable |-> r.readable]]
<1>. SUFFICES ASSUME NEW n \in DOMAIN actions
              PROVE  /\ DocURI(n) \in DOMAIN resources'
                     /\ resources'[DocURI(n)].of \in {actions[n], Host}
  BY DEF DocsFollowTools, RegisterResource
<1>1. DocURI(n) \in DOMAIN resources /\ resources[DocURI(n)].of \in {actions[n], Host}
  BY DEF DocsFollowTools
<1>2. resources' = Over(resources, own)
  BY DEF RegisterResource
<1>3. DOMAIN own = {r.uri} /\ (DocURI(n) = r.uri => own[DocURI(n)].of = Host)
  OBVIOUS
<1>. QED
  BY <1>1, <1>2, <1>3 DEF Over

LEMMA HostKeepsDocs == DocsFollowTools /\ HostStep => DocsFollowTools'
<1>. SUFFICES ASSUME DocsFollowTools, HostStep PROVE DocsFollowTools'
  OBVIOUS
<1>1. ASSUME NEW batch \in Batches, Mount(batch) PROVE DocsFollowTools'
  BY <1>1, MountKeepsDocs DEF Mount
<1>2. ASSUME NEW r \in HostResources, RegisterResource(r) PROVE DocsFollowTools'
  BY <1>2, RegisterKeepsDocs
<1>3. CASE (\E p \in HostPrompts : RegisterPrompt(p)) \/ RegisterTemplate
  BY <1>3 DEF RegisterPrompt, RegisterTemplate, DocsFollowTools
<1>. QED
  BY <1>1, <1>2, <1>3 DEF HostStep

(* Every tool has a document, and it describes the action a call executes, *)
(* whatever is mounted or registered in whatever order.                    *)
THEOREM DocumentsAreOfTheirTools == Spec => []DocsFollowTools
<1>1. Init => DocsFollowTools
  BY DEF Init, RegistryInit, DocsFollowTools
<1>2. DocsFollowTools /\ [Next]_vars => DocsFollowTools'
  <2>. SUFFICES ASSUME DocsFollowTools, [Next]_vars PROVE DocsFollowTools'
    OBVIOUS
  <2>1. CASE HostStep
    BY <2>1, HostKeepsDocs
  <2>2. CASE UNCHANGED registry
    BY <2>2 DEF registry, DocsFollowTools
  <2>. QED
    BY <2>1, <2>2 DEF Next, Serve, Check, Read, ReadEnd, Handle, Write, EndInput, CancelContext, BreakStdout,
                      vars
<1>. QED
  BY <1>1, <1>2, PTL DEF Spec

-----------------------------------------------------------------------------
(* Serve reads again only past a check, so a read that follows the         *)
(* cancellation was under way before it and is the first one.              *)
CancelNoticed ==
    /\ late \in 0..1
    /\ late = 1 => ctxDone /\ loop # "reading"

(* After a cancellation Serve handles at most one more line. *)
THEOREM CancellationIsPrompt == Spec => []OneLineAfterCancel
<1>. DEFINE Inv == CancelNoticed
<1>1. Init => Inv
  BY DEF Init, CancelNoticed
<1>2. Inv /\ [Next]_vars => Inv'
  <2>. SUFFICES ASSUME Inv, [Next]_vars PROVE Inv'
    OBVIOUS
  <2>1. CASE Check
    BY <2>1 DEF Check, CancelNoticed
  <2>2. CASE \E l \in Lines : Read(l)
    BY <2>2 DEF Read, CancelNoticed
  <2>3. CASE ReadEnd \/ Handle
    BY <2>3 DEF ReadEnd, Handle, CancelNoticed
  <2>4. CASE UNCHANGED <<late, loop>> /\ (ctxDone => ctxDone')
    BY <2>4 DEF CancelNoticed
  <2>. QED
    BY <2>1, <2>2, <2>3, <2>4 DEF Next, Serve, Write, EndInput, CancelContext, BreakStdout, vars, stdio
<1>3. Inv => OneLineAfterCancel
  BY DEF CancelNoticed, OneLineAfterCancel
<1>. QED
  BY <1>1, <1>2, <1>3, PTL DEF Spec

-----------------------------------------------------------------------------
(* The answers, whatever they carry: a sequence is known by its length and *)
(* its values.                                                             *)
IsSeq(s) == Len(s) \in Nat /\ s = [i \in 1..Len(s) |-> s[i]]

LEMMA AppendedAnswer ==
    ASSUME NEW s, IsSeq(s), NEW a
    PROVE  /\ IsSeq(Append(s, a)) /\ Len(Append(s, a)) = Len(s) + 1
           /\ \A i \in 1..Len(s) : Append(s, a)[i] = s[i]
           /\ Append(s, a)[Len(s) + 1] = a
<1>. DEFINE S == {s[i] : i \in 1..Len(s)} \cup {a}
<1>1. Len(s) \in Nat /\ s \in [1..Len(s) -> S] /\ a \in S
  BY DEF IsSeq
<1>2. s \in Seq(S)
  BY <1>1, SeqDef
<1>. HIDE DEF S
<1>3. /\ Append(s, a) \in Seq(S) /\ Len(Append(s, a)) = Len(s) + 1
      /\ \A i \in 1..Len(s) : Append(s, a)[i] = s[i]
      /\ Append(s, a)[Len(s) + 1] = a
  BY <1>1, <1>2, AppendProperties
<1>4. IsSeq(Append(s, a))
  <2>1. Append(s, a) \in [1..Len(Append(s, a)) -> S] /\ Len(Append(s, a)) \in Nat
    BY <1>3, LenProperties
  <2>. QED
    BY <2>1 DEF IsSeq
<1>. QED
  BY <1>3, <1>4

(* A line has at most one answer, of a class of its form. *)
Quiet(l) == l.form \in {"blank", "note"}

ClassesOf(l) ==
    CASE l.form = "garbage" -> {"parse error"}
      [] l.form = "invalid" -> {"error"}
      [] OTHER -> {"result", "error"}

(* Of the answers to requests only a list of tools may fail to be encoded. *)
LEMMA EveryRequestAnswered ==
    ASSUME NEW r \in Requests
    PROVE  \/ Result(r.method, r.key).class \in {"result", "error"}
           \/ Result(r.method, r.key).class = "unencodable" /\ r.method = "tools/list"
<1>1. r.method \in Methods
  BY RequestsAssumption
<1>3. \A keys : Listed(keys).class = "result"
  BY DEF Listed
<1>4. CASE r.method \in {"resources/list", "resources/templates/list", "prompts/list"}
  BY <1>3, <1>4 DEF Result, ResourcesList, ResourceTemplatesList, PromptsList
<1>5. CASE r.method \in {"tools/call", "resources/read", "prompts/get", "ping"}
  BY <1>5 DEF Result, ToolsCall, ResourcesRead, PromptsGet, Noop, Answered
<1>6. CASE r.method = "tools/list"
  <2>1. Result(r.method, r.key) = ToolsList
    BY <1>6 DEF Result
  <2>2. ToolsList.class \in {"result", "unencodable"}
    BY <1>3 DEF ToolsList
  <2>. QED
    BY <1>6, <2>1, <2>2
<1>. QED
  BY <1>1, <1>4, <1>5, <1>6 DEF Methods

LEMMA OneOf == ASSUME NEW a PROVE Range(<<a>>) = {a}
  BY DEF Range

LEMMA AnswersOfLines ==
    ASSUME NEW l \in Lines
    PROVE  /\ Quiet(l) => Answer(l) = <<>>
           /\ ~Quiet(l) => \E a : /\ Answer(l) = <<a>> /\ Range(Answer(l)) = {a}
                                 /\ \/ a.class \in ClassesOf(l) /\ a.class # "unencodable"
                                    \/ a.class = "unencodable" /\ l.request.method = "tools/list"
<1>1. l.form \in {"blank", "garbage", "note", "invalid", "call"}
  BY DEF Lines
<1>2. CASE Quiet(l)
  BY <1>2 DEF Quiet, Answer
<1>3. CASE l.form = "garbage"
  <2>1. Answer(l) = <<ErrorAnswer("parse error")>> /\ ClassesOf(l) = {"parse error"}
    BY <1>3 DEF Answer, ClassesOf
  <2>2. ErrorAnswer("parse error").class = "parse error"
    BY DEF ErrorAnswer
  <2>. QED
    BY <1>3, <2>1, <2>2, OneOf DEF Quiet
<1>4. CASE l.form = "invalid"
  <2>1. Answer(l) = <<ErrorAnswer("error")>> /\ ClassesOf(l) = {"error"}
    BY <1>4 DEF Answer, ClassesOf
  <2>2. ErrorAnswer("error").class = "error"
    BY DEF ErrorAnswer
  <2>. QED
    BY <1>4, <2>1, <2>2, OneOf DEF Quiet
<1>5. CASE l.form = "call"
  <2>1. l.request \in Requests
    BY <1>5 DEF Lines
  <2>. DEFINE a == Result(l.request.method, l.request.key)
  <2>2. a.class \in {"result", "error"} \/ (a.class = "unencodable" /\ l.request.method = "tools/list")
    BY <2>1, EveryRequestAnswered
  <2>3. Answer(l) = <<a>>
    BY <1>5 DEF Answer
  <2>4. ClassesOf(l) = {"result", "error"}
    BY <1>5 DEF ClassesOf
  <2>. HIDE DEF a
  <2>5. Range(Answer(l)) = {a}
    BY <2>3, OneOf
  <2>. QED
    BY <1>5, <2>2, <2>3, <2>4, <2>5 DEF Quiet
<1>. QED
  BY <1>1, <1>2, <1>3, <1>4, <1>5 DEF Quiet

(* What the answers so far, written and lost, say about the lines handled  *)
(* so far.                                                                 *)
Written(i) ==
    /\ out[i].line \in 1..Handled /\ ~Quiet(lines[out[i].line])
    /\ out[i].class \in ClassesOf(lines[out[i].line])

Missed(e) ==
    /\ e.line \in 1..Handled /\ ~Quiet(lines[e.line])
    /\ \A i \in 1..Len(out) : out[i].line # e.line
    /\ IF e.why = "unencodable"
       THEN lines[e.line].request.method = "tools/list"
       ELSE stdout = "broken" /\ \A i \in 1..Len(out) : out[i].line < e.line

Settled(n) ==
    \/ Quiet(lines[n])
    \/ \E i \in 1..Len(out) : out[i].line = n
    \/ \E e \in lost : e.line = n

AnswersInv ==
    /\ lines \in Seq(Lines)
    /\ loop = "handling" => Len(lines) > 0
    /\ IsSeq(out)
    /\ stdout \in {"open", "broken"}
    /\ \A i \in 1..Len(out) : Written(i)
    /\ \A i, j \in 1..Len(out) : i < j => out[i].line < out[j].line
    /\ \A e \in lost : Missed(e)
    /\ \A n \in 1..Handled : Settled(n)

LEMMA AnswersRead ==
    ASSUME AnswersInv, NEW l \in Lines, Read(l)
    PROVE  AnswersInv'
<1>1. /\ lines' \in Seq(Lines) /\ Len(lines') = Len(lines) + 1 /\ Len(lines) \in Nat
      /\ \A n \in 1..Len(lines) : lines'[n] = lines[n]
  BY DEF AnswersInv, Read
<1>2. loop = "reading" /\ loop' = "handling" /\ UNCHANGED <<out, lost, stdout>>
  BY DEF Read
<1>3. Handled = Len(lines) /\ Handled' = Len(lines)
  BY <1>1, <1>2 DEF Handled
<1>. USE <1>1, <1>2, <1>3
<1>4. \A i \in 1..Len(out') : Written(i)'
  BY DEF AnswersInv, Written
<1>5. \A e \in lost' : Missed(e)'
  BY DEF AnswersInv, Missed
<1>6. \A n \in 1..Handled' : Settled(n)'
  BY DEF AnswersInv, Settled
<1>. QED
  BY <1>4, <1>5, <1>6 DEF AnswersInv

(* What was written and lost before the line in hand stays as it was. *)
LEMMA LineInHand ==
    ASSUME AnswersInv, loop = "handling", NEW n, n = Len(lines)
    PROVE  /\ n \in Nat \ {0} /\ lines[n] \in Lines /\ Last(lines) = lines[n]
           /\ Len(out) \in Nat
           /\ \A i \in 1..Len(out) : /\ out[i].line \in 1..(n - 1)
                                     /\ ~Quiet(lines[out[i].line])
                                     /\ out[i].class \in ClassesOf(lines[out[i].line])
           /\ \A e \in lost : e.line \in 1..(n - 1) /\ ~Quiet(lines[e.line])
           /\ \A k \in 1..(n - 1) : Settled(k)
<1>1. n \in Nat \ {0} /\ lines[n] \in Lines /\ Last(lines) = lines[n]
  BY DEF AnswersInv, Last
<1>2. Handled = n - 1
  BY <1>1 DEF Handled
<1>. QED
  BY <1>1, <1>2 DEF AnswersInv, IsSeq, Written, Missed

(* The line in hand comes after all that were answered before. *)
LEMMA AnswersHandle ==
    ASSUME AnswersInv, Handle
    PROVE  AnswersInv'
<1>. PICK n : n = Len(lines)
  OBVIOUS
<1>. PICK l : l = lines[n]
  OBVIOUS
<1>1. lines' = lines /\ loop = "handling" /\ loop' # "handling" /\ stdout' = stdout
  BY DEF Handle
<1>2. /\ n \in Nat \ {0} /\ l \in Lines /\ Last(lines) = l /\ Len(out) \in Nat
      /\ \A i \in 1..Len(out) : /\ out[i].line \in 1..(n - 1)
                                /\ ~Quiet(lines[out[i].line])
                                /\ out[i].class \in ClassesOf(lines[out[i].line])
      /\ \A e \in lost : e.line \in 1..(n - 1) /\ ~Quiet(lines[e.line])
      /\ \A k \in 1..(n - 1) : Settled(k)
  BY <1>1, LineInHand
<1>3. Handled' = n
  BY <1>1, <1>2 DEF Handled
<1>4. ASSUME NEW k \in 1..n, k # n PROVE k \in 1..(n - 1)
  BY <1>2, <1>4
<1>5. CASE Answer(l) = <<>>
  <2>1. out' = out /\ lost' = lost
    <3>1. Range(Answer(l)) = {}
      BY <1>5 DEF Range
    <3>. QED
      BY <1>2, <3>1 DEF Handle
  <2>2. Quiet(l)
    <3>1. ASSUME NEW a PROVE <<a>> # <<>>
      OBVIOUS
    <3>. QED
      BY <1>2, <1>5, <3>1, AnswersOfLines
  <2>3. \A i \in 1..Len(out') : Written(i)'
    BY <1>1, <1>2, <1>3, <2>1 DEF Written
  <2>4. \A e \in lost' : Missed(e)'
    BY <1>1, <1>2, <1>3, <2>1 DEF AnswersInv, Missed
  <2>5. \A k \in 1..Handled' : Settled(k)'
    BY <1>1, <1>2, <1>3, <1>4, <2>1, <2>2 DEF Settled
  <2>. QED
    BY <1>1, <2>1, <2>3, <2>4, <2>5 DEF AnswersInv
<1>6. CASE Answer(l) # <<>>
  <2>1. ~Quiet(l)
    BY <1>2, <1>6, AnswersOfLines
  <2>2. PICK a : /\ Range(Answer(l)) = {a}
                 /\ \/ a.class \in ClassesOf(l) /\ a.class # "unencodable"
                    \/ a.class = "unencodable" /\ l.request.method = "tools/list"
    BY <1>2, <2>1, AnswersOfLines
  <2>3. CASE Goes(a)
    <3>. DEFINE new == [line |-> n, class |-> a.class, keys |-> a.keys]
    <3>1. out' = Append(out, new) /\ lost' = lost
      BY <1>2, <1>6, <2>2, <2>3 DEF Handle
    <3>2. new.line = n /\ new.class = a.class /\ a.class \in ClassesOf(l) /\ stdout = "open"
      BY <2>2, <2>3 DEF Goes
    <3>. HIDE DEF new
    <3>3. /\ IsSeq(out') /\ Len(out') = Len(out) + 1
          /\ \A i \in 1..Len(out) : out'[i] = out[i]
          /\ out'[Len(out) + 1] = new
      BY <3>1, AppendedAnswer DEF AnswersInv
    <3>4. \A i \in 1..Len(out') : i \in 1..Len(out) \/ i = Len(out) + 1
      BY <1>2, <3>3
    <3>5. ASSUME NEW i \in 1..Len(out') PROVE Written(i)'
      <4>1. CASE i \in 1..Len(out)
        BY <1>1, <1>2, <1>3, <3>3, <4>1 DEF Written
      <4>2. CASE i = Len(out) + 1
        BY <1>1, <1>2, <1>3, <2>1, <3>2, <3>3, <4>2 DEF Written
      <4>. QED
        BY <3>4, <4>1, <4>2
    <3>6. ASSUME NEW i \in 1..Len(out'), NEW j \in 1..Len(out'), i < j
          PROVE  out'[i].line < out'[j].line
      <4>1. i \in 1..Len(out) /\ out'[i].line = out[i].line /\ out[i].line \in 1..(n - 1)
        BY <1>2, <3>3, <3>6
      <4>2. CASE j \in 1..Len(out)
        BY <3>3, <3>6, <4>1, <4>2 DEF AnswersInv
      <4>3. CASE j = Len(out) + 1
        BY <1>2, <3>2, <3>3, <4>1, <4>3
      <4>. QED
        BY <3>4, <4>2, <4>3
    <3>7. ASSUME NEW e \in lost' PROVE Missed(e)'
      <4>1. e \in lost /\ e.line \in 1..(n - 1) /\ ~Quiet(lines[e.line])
        BY <1>2, <3>1
      <4>2. /\ \A i \in 1..Len(out) : out[i].line # e.line
            /\ e.why = "unencodable" /\ lines[e.line].request.method = "tools/list"
        BY <3>2, <4>1 DEF AnswersInv, Missed
      <4>3. \A i \in 1..Len(out') : out'[i].line # e.line
        <5>. TAKE i \in 1..Len(out')
        <5>1. CASE i \in 1..Len(out)
          BY <3>3, <4>2, <5>1
        <5>2. CASE i = Len(out) + 1
          BY <1>2, <3>2, <3>3, <4>1, <5>2
        <5>. QED
          BY <3>4, <5>1, <5>2
      <4>. QED
        BY <1>1, <1>2, <1>3, <4>1, <4>2, <4>3 DEF Missed
    <3>8. ASSUME NEW k \in 1..Handled' PROVE Settled(k)'
      <4>1. CASE k = n
        BY <1>2, <3>2, <3>3, <4>1 DEF Settled
      <4>2. CASE k # n
        <5>1. Settled(k)
          BY <1>2, <1>3, <1>4, <4>2
        <5>2. \A i \in 1..Len(out) : i \in 1..Len(out') /\ out'[i] = out[i]
          BY <1>2, <3>3
        <5>. QED
          BY <1>1, <3>1, <5>1, <5>2 DEF Settled
      <4>. QED
        BY <4>1, <4>2
    <3>. QED
      BY <1>1, <3>3, <3>5, <3>6, <3>7, <3>8 DEF AnswersInv
  <2>4. CASE ~Goes(a)
    <3>. DEFINE new == [line |-> n, why |-> Why(a)]
    <3>1. lost' = lost \cup {new} /\ out' = out
      BY <1>2, <1>6, <2>2, <2>4 DEF Handle
    <3>2. /\ new.line = n
          /\ new.why = "unencodable" => l.request.method = "tools/list"
          /\ new.why # "unencodable" => stdout # "open"
      BY <2>2, <2>4 DEF Goes, Why
    <3>3. stdout \in {"open", "broken"}
      BY DEF AnswersInv
    <3>. HIDE DEF new
    <3>4. \A i \in 1..Len(out') : Written(i)'
      BY <1>1, <1>2, <1>3, <3>1 DEF Written
    <3>5. ASSUME NEW e \in lost' PROVE Missed(e)'
      <4>1. CASE e \in lost
        BY <1>1, <1>2, <1>3, <3>1, <4>1 DEF AnswersInv, Missed
      <4>2. CASE e = new
        <5>1. \A i \in 1..Len(out) : out[i].line # n /\ out[i].line < n
          BY <1>2
        <5>. QED
          BY <1>1, <1>2, <1>3, <2>1, <3>1, <3>2, <3>3, <4>2, <5>1 DEF Missed
      <4>. QED
        BY <3>1, <4>1, <4>2
    <3>6. ASSUME NEW k \in 1..Handled' PROVE Settled(k)'
      <4>1. CASE k = n
        BY <3>1, <3>2, <4>1 DEF Settled
      <4>2. CASE k # n
        BY <1>1, <1>2, <1>3, <1>4, <3>1, <4>2 DEF Settled
      <4>. QED
        BY <4>1, <4>2
    <3>. QED
      BY <1>1, <3>1, <3>4, <3>5, <3>6 DEF AnswersInv
  <2>. QED
    BY <2>3, <2>4
<1>. QED
  BY <1>5, <1>6

LEMMA AnswersNext == AnswersInv /\ [Next]_vars => AnswersInv'
<1>. SUFFICES ASSUME AnswersInv, [Next]_vars PROVE AnswersInv'
  OBVIOUS
<1>1. ASSUME NEW l \in Lines, Read(l) PROVE AnswersInv'
  BY <1>1, AnswersRead
<1>2. CASE Handle
  BY <1>2, AnswersHandle
<1>3. CASE UNCHANGED <<lines, out, lost, stdout>> /\ loop # "handling" /\ loop' # "handling"
  <2>1. Handled' = Handled
    BY <1>3 DEF Handled
  <2>. QED
    BY <1>3, <2>1 DEF AnswersInv, Written, Missed, Settled
<1>4. CASE UNCHANGED <<lines, out, lost, stdout, loop>>
  <2>1. Handled' = Handled
    BY <1>4 DEF Handled
  <2>. QED
    BY <1>4, <2>1 DEF AnswersInv, Written, Missed, Settled
<1>5. CASE BreakStdout
  <2>1. UNCHANGED <<lines, out, lost, loop>> /\ stdout' = "broken"
    BY <1>5 DEF BreakStdout
  <2>2. Handled' = Handled
    BY <2>1 DEF Handled
  <2>. QED
    BY <2>1, <2>2 DEF AnswersInv, Written, Missed, Settled
<1>. QED
  BY <1>1, <1>2, <1>3, <1>4, <1>5
     DEF Next, Serve, Check, ReadEnd, Write, EndInput, CancelContext, vars, stdio

(* One answer for each line that has one coming, in the order of the       *)
(* lines, while the host fills the tables the answers are looked up in;    *)
(* only a list of tools that cannot be encoded or a broken output costs    *)
(* one, and after a broken output there is none.                           *)
THEOREM AnswersPairWithLines == Spec => []OneAnswerEach
<1>1. Init => AnswersInv
  BY DEF Init, AnswersInv, Handled, IsSeq
<1>2. AnswersInv => OneAnswerEach
  <2>. SUFFICES ASSUME AnswersInv PROVE OneAnswerEach
    OBVIOUS
  <2>1. DOMAIN out = 1..Len(out)
    BY DEF AnswersInv, IsSeq
  <2>2. {out[i].line : i \in DOMAIN out} \cup {e.line : e \in lost} =
            {n \in 1..Handled : lines[n].form \notin {"blank", "note"}}
    <3>1. \A n \in 1..Handled : ~Quiet(lines[n]) =>
             n \in {out[i].line : i \in DOMAIN out} \cup {e.line : e \in lost}
      BY <2>1 DEF AnswersInv, Settled
    <3>2. \A i \in DOMAIN out : out[i].line \in 1..Handled /\ ~Quiet(lines[out[i].line])
      BY <2>1 DEF AnswersInv, Written
    <3>3. \A e \in lost : e.line \in 1..Handled /\ ~Quiet(lines[e.line])
      BY DEF AnswersInv, Missed
    <3>. QED
      BY <3>1, <3>2, <3>3 DEF Quiet
  <2>3. \A i \in DOMAIN out :
          CASE lines[out[i].line].form = "garbage" -> out[i].class = "parse error"
            [] lines[out[i].line].form = "invalid" -> out[i].class = "error"
            [] OTHER -> out[i].class \in {"result", "error"}
    BY <2>1 DEF AnswersInv, Written, ClassesOf
  <2>4. \A e \in lost : /\ \A i \in DOMAIN out : out[i].line # e.line
                        /\ IF e.why = "unencodable"
                           THEN lines[e.line].request.method = "tools/list"
                           ELSE stdout = "broken" /\ \A i \in DOMAIN out : out[i].line < e.line
    BY <2>1 DEF AnswersInv, Missed
  <2>. QED
    BY <2>1, <2>2, <2>3, <2>4 DEF AnswersInv, OneAnswerEach
<1>. QED
  BY <1>1, <1>2, AnswersNext, PTL DEF Spec

-----------------------------------------------------------------------------
(* Serve returns of itself only at the end of the input, with nothing      *)
(* unread and no line unhandled; an unterminated line counts.              *)
ServedToTheEnd ==
    loop \in {"done", "failed"} => ended # "open" /\ unread = 0 /\ Handled = Len(lines)

(* The reads, handlings and checks an input of this length still takes. *)
ServeLeft ==
    CASE loop = "starting" -> 3 * unread + 4
      [] loop = "handling" -> 3 * unread + 3
      [] loop = "checking" -> 3 * unread + 2
      [] loop = "reading"  -> 3 * unread + 1
      [] OTHER -> 0

ServeTyped ==
    /\ unread \in Nat
    /\ loop \in {"starting", "handling", "checking", "reading", "canceled", "done", "failed"}
    /\ ended \in {"open", "eof", "error"}
    /\ partial => ended # "open"
    /\ ServedToTheEnd

LEMMA ServeTypedStep == ServeTyped /\ [Next]_vars => ServeTyped'
<1>. SUFFICES ASSUME ServeTyped, [Next]_vars PROVE ServeTyped'
  OBVIOUS
<1>. USE DEF ServeTyped, ServedToTheEnd, Handled
<1>1. CASE Check
  BY <1>1 DEF Check
<1>2. ASSUME NEW l \in Lines, Read(l) PROVE ServeTyped'
  BY <1>2 DEF Read
<1>3. CASE ReadEnd
  BY <1>3 DEF ReadEnd
<1>4. CASE Handle
  <2>1. /\ UNCHANGED <<unread, partial, ended, lines>>
        /\ loop' = IF ~LastRead THEN "checking" ELSE IF ended = "eof" THEN "done" ELSE "failed"
    BY <1>4 DEF Handle
  <2>. QED
    BY <2>1 DEF LastRead
<1>5. CASE Write
  BY <1>5 DEF Write
<1>6. ASSUME NEW how \in {"eof", "error"}, NEW inside \in BOOLEAN, EndInput(how, inside) PROVE ServeTyped'
  BY <1>6 DEF EndInput
<1>7. CASE UNCHANGED <<unread, partial, ended, lines, loop>>
  BY <1>7
<1>. QED
  BY <1>1, <1>2, <1>3, <1>4, <1>5, <1>6, <1>7 DEF Next, Serve, CancelContext, BreakStdout, vars, stdio

LEMMA ServeAlwaysTyped == Spec => []ServeTyped
<1>1. Init => ServeTyped
  BY DEF Init, ServeTyped, ServedToTheEnd
<1>. QED
  BY <1>1, ServeTypedStep, PTL DEF Spec

(* Once the input has ended it stays so, and every step of Serve brings it *)
(* nearer to its return; no other step touches what is left to do.         *)
ServeRunsOut ==
    ended # "open" => /\ ended' # "open"
                      /\ ServeLeft' < ServeLeft \/ UNCHANGED <<loop, unread, lines>>

LEMMA ServeRunsOutStep == ServeTyped /\ [Next]_vars => ServeRunsOut
<1>. SUFFICES ASSUME ServeTyped, [Next]_vars, ended # "open"
              PROVE  ended' # "open" /\ (ServeLeft' < ServeLeft \/ UNCHANGED <<loop, unread, lines>>)
  BY DEF ServeRunsOut
<1>. USE DEF ServeTyped
<1>1. CASE Check
  BY <1>1 DEF Check, ServeLeft
<1>2. ASSUME NEW l \in Lines, Read(l) PROVE ended' # "open" /\ ServeLeft' < ServeLeft
  BY <1>2 DEF Read, ServeLeft
<1>3. CASE ReadEnd
  BY <1>3 DEF ReadEnd, ServeLeft
<1>4. CASE Handle
  <2>1. /\ UNCHANGED <<unread, ended>> /\ loop = "handling"
        /\ loop' \in {"checking", "done", "failed"}
    BY <1>4 DEF Handle
  <2>. QED
    BY <2>1 DEF ServeLeft
<1>5. CASE ended' = ended /\ UNCHANGED <<loop, unread, lines>>
  BY <1>5
<1>. QED
  BY <1>1, <1>2, <1>3, <1>4, <1>5
     DEF Next, Serve, Write, EndInput, CancelContext, BreakStdout, vars, stdio

(* No line of an input that ends is lost, and Serve is bound to return:    *)
(* what EndedInputIsServed asks of fairness is only that Serve is run.     *)
THEOREM InputIsServedToItsEnd ==
    Spec => []ServedToTheEnd
            /\ [](ServeLeft \in Nat /\ (ServeLeft = 0 <=> loop \in {"canceled", "done", "failed"}))
            /\ [][ServeRunsOut]_vars
<1>1. ServeTyped => /\ ServedToTheEnd
                    /\ ServeLeft \in Nat /\ (ServeLeft = 0 <=> loop \in {"canceled", "done", "failed"})
  BY DEF ServeTyped, ServeLeft
<1>2. ServeTyped /\ [Next]_vars => [ServeRunsOut]_vars
  BY ServeRunsOutStep
<1>. QED
  BY <1>1, <1>2, ServeAlwaysTyped, PTL DEF Spec
=============================================================================
