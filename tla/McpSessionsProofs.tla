------------------------- MODULE McpSessionsProofs -------------------------
(***************************************************************************)
(* Proofs about McpSessions, for any connections, posts, session ids and   *)
(* channel capacity.  The inductive invariant has three parts: Owners      *)
(* (what the table says of a session), Routes (what a post knows of the    *)
(* connection it found) and Deliveries (which responses are in a channel   *)
(* or a stream).                                                           *)
(***************************************************************************)
EXTENDS McpSessions, TLAPS, SequenceTheorems

Owners ==
    \A s \in DOMAIN sessions : /\ serving[sessions[s]] \in {"open", "leaving"}
                               /\ sid[sessions[s]] = s

Routes ==
    \A p \in Posts : posting[p] \in {"found", "blocked", "accepted"} =>
        /\ sendTo[p] \in Connections
        /\ serving[sendTo[p]] # "new"
        /\ sid[sendTo[p]] = target[p]

Deliveries ==
    \A c \in Connections :
        /\ \A p \in Range(Through(c)) : posting[p] = "accepted" /\ sendTo[p] = c
        /\ IsInjective(Through(c))

Lost ==
    \A p \in Posts \ (Notes \cup Unencodable) :
        posting[p] = "accepted" => p \in Range(Through(sendTo[p]))

SessionsInv == TypeOK /\ Owners /\ Routes /\ Deliveries /\ Lost

-----------------------------------------------------------------------------
(* Taking the head of a channel and writing it changes nothing of what     *)
(* went through the connection.                                            *)
LEMMA EmitThrough ==
    ASSUME NEW S, NEW e \in Seq(S), NEW q \in Seq(S), q # <<>>
    PROVE  Append(e, Head(q)) \o Tail(q) = e \o q
<1>1. Head(q) \in S /\ Tail(q) \in Seq(S) /\ <<Head(q)>> \in Seq(S)
  BY HeadTailProperties
<1>2. Append(e, Head(q)) = e \o <<Head(q)>>
  BY <1>1, AppendIsConcat
<1>3. <<Head(q)>> \o Tail(q) = q
  BY <1>1, ConcatProperties, HeadTailProperties
<1> QED
  BY <1>1, <1>2, <1>3, ConcatAssociative

(* Dropping it takes that one response away, and moves no other. *)
LEMMA DropThrough ==
    ASSUME NEW S, NEW e \in Seq(S), NEW q \in Seq(S), q # <<>>
    PROVE  /\ Range(e \o Tail(q)) \subseteq Range(e \o q)
           /\ Range(e \o q) \subseteq Range(e \o Tail(q)) \cup {Head(q)}
           /\ IsInjective(e \o q) => IsInjective(e \o Tail(q))
<1> DEFINE t == e \o q
           d == e \o Tail(q)
<1>1. /\ Tail(q) \in Seq(S) /\ Len(Tail(q)) = Len(q) - 1 /\ Len(q) \in Nat \ {0}
      /\ \A i \in 1..Len(Tail(q)) : Tail(q)[i] = q[i + 1]
      /\ Head(q) = q[1] /\ Len(e) \in Nat
  BY HeadTailProperties, LenProperties, EmptySeq
<1>2. /\ t \in Seq(S) /\ Len(t) = Len(e) + Len(q)
      /\ \A i \in 1..Len(t) : t[i] = IF i <= Len(e) THEN e[i] ELSE q[i - Len(e)]
  BY ConcatProperties
<1>3. /\ d \in Seq(S) /\ Len(d) = Len(e) + (Len(q) - 1)
      /\ \A i \in 1..Len(d) : d[i] = IF i <= Len(e) THEN e[i] ELSE Tail(q)[i - Len(e)]
  BY <1>1, ConcatProperties
<1>4. DOMAIN t = 1..Len(t) /\ DOMAIN d = 1..Len(d)
  BY <1>2, <1>3, LenProperties
<1>l. Len(e) \in Nat /\ Len(d) \in Nat /\ Len(t) = Len(d) + 1 /\ Len(e) <= Len(d)
  BY <1>1, <1>2, <1>3
<1> HIDE DEF t, d
<1>5. \A i \in 1..Len(d) : d[i] = IF i <= Len(e) THEN t[i] ELSE t[i + 1]
  BY <1>1, <1>2, <1>3
<1>6. \A i \in 1..Len(t) : \/ t[i] = Head(q)
                           \/ i <= Len(e) /\ i \in 1..Len(d) /\ d[i] = t[i]
                           \/ i > Len(e) + 1 /\ i - 1 \in 1..Len(d) /\ d[i - 1] = t[i]
  <2> TAKE i \in 1..Len(t)
  <2>1. CASE i <= Len(e)
    BY <1>l, <1>5, <2>1
  <2>2. CASE i = Len(e) + 1
    BY <1>1, <1>2, <2>2
  <2>3. CASE i > Len(e) + 1
    BY <1>l, <1>5, <2>3
  <2> QED
    BY <1>l, <2>1, <2>2, <2>3
<1>7. Range(d) \subseteq Range(t)
  <2> SUFFICES ASSUME NEW i \in 1..Len(d) PROVE d[i] \in Range(t)
    BY <1>4 DEF Range
  <2>1. CASE i <= Len(e)
    <3>1. i \in 1..Len(t) /\ d[i] = t[i]
      BY <1>l, <1>5, <2>1
    <3> QED
      BY <1>4, <3>1 DEF Range
  <2>2. CASE i > Len(e)
    <3>1. i + 1 \in 1..Len(t) /\ d[i] = t[i + 1]
      BY <1>l, <1>5, <2>2
    <3> QED
      BY <1>4, <3>1 DEF Range
  <2> QED
    BY <1>l, <2>1, <2>2
<1>8. Range(t) \subseteq Range(d) \cup {Head(q)}
  BY <1>4, <1>6 DEF Range
<1>9. IsInjective(t) => IsInjective(d)
  <2> SUFFICES ASSUME IsInjective(t), NEW a \in 1..Len(d), NEW b \in 1..Len(d), d[a] = d[b]
               PROVE  a = b
    BY <1>4 DEF IsInjective
  <2>1. \A i, j \in 1..Len(t) : t[i] = t[j] => i = j
    BY <1>4 DEF IsInjective
  <2> QED
    BY <1>l, <1>5, <2>1
<1> QED
  BY <1>7, <1>8, <1>9 DEF t, d

(* Sending to a channel appends to what goes through the connection. *)
LEMMA EnqueueThrough ==
    \A e, q \in Seq(Posts) : \A p \in Posts : e \o Append(q, p) = Append(e \o q, p)
<1> TAKE e, q \in Seq(Posts)
<1> TAKE p \in Posts
<1>1. <<p>> \in Seq(Posts) /\ Append(q, p) = q \o <<p>> /\ e \o q \in Seq(Posts)
  BY AppendIsConcat, ConcatProperties
<1>2. Append(e \o q, p) = (e \o q) \o <<p>>
  BY <1>1, AppendIsConcat
<1> QED
  BY <1>1, <1>2, ConcatAssociative

(* One more, and none twice. *)
LEMMA AppendNew ==
    ASSUME NEW S, NEW t \in Seq(S), NEW p \in S
    PROVE  /\ Range(Append(t, p)) = Range(t) \cup {p}
           /\ p \notin Range(t) /\ IsInjective(t) => IsInjective(Append(t, p))
<1>1. /\ Append(t, p) \in Seq(S) /\ Len(Append(t, p)) = Len(t) + 1 /\ Len(t) \in Nat
      /\ \A i \in 1..Len(t) : Append(t, p)[i] = t[i]
      /\ Append(t, p)[Len(t) + 1] = p
      /\ DOMAIN t = 1..Len(t) /\ DOMAIN Append(t, p) = 1..(Len(t) + 1)
  BY AppendProperties, LenProperties
<1>2. Range(Append(t, p)) = Range(t) \cup {p}
  BY <1>1 DEF Range
<1>3. ASSUME p \notin Range(t), IsInjective(t) PROVE IsInjective(Append(t, p))
  <2> SUFFICES ASSUME NEW a \in 1..(Len(t) + 1), NEW b \in 1..(Len(t) + 1),
                      Append(t, p)[a] = Append(t, p)[b]
               PROVE  a = b
    BY <1>1 DEF IsInjective
  <2>1. \A i \in 1..Len(t) : t[i] # p
    BY <1>1, <1>3 DEF Range
  <2> QED
    BY <1>1, <1>3, <2>1 DEF IsInjective
<1> QED
  BY <1>2, <1>3

LEMMA SessionsInit == Init => SessionsInv
<1> SUFFICES ASSUME Init PROVE SessionsInv
  OBVIOUS
<1>1. \A c \in Connections : Through(c) = <<>> /\ channel[c] = <<>> /\ emitted[c] = <<>>
  BY DEF Init, Through
<1>2. TypeOK
  BY CapacityAssumption DEF Init, TypeOK, ServingStates, PostStates, NoSession, NoConnection
<1>3. Owners /\ Routes /\ Lost
  BY DEF Init, Owners, Routes, Lost
<1>4. Deliveries
  BY <1>1 DEF Deliveries, Range, IsInjective
<1> QED
  BY <1>2, <1>3, <1>4 DEF SessionsInv

-----------------------------------------------------------------------------
(* The types. *)
LEMMA TypesStep == SessionsInv /\ [Next]_vars => TypeOK'
<1> SUFFICES ASSUME TypeOK, Routes, [Next]_vars PROVE TypeOK'
  BY DEF SessionsInv
<1> USE CapacityAssumption DEF TypeOK, ServingStates, PostStates
<1>1. ASSUME NEW c \in Connections, NEW s \in SessionIds, Open(c, s) PROVE TypeOK'
  BY <1>1 DEF Open
<1>2. ASSUME NEW c \in Connections, Emit(c) PROVE TypeOK'
  <2>1. /\ Head(channel[c]) \in Posts /\ Tail(channel[c]) \in Seq(Posts)
        /\ Len(Tail(channel[c])) = Len(channel[c]) - 1 /\ Len(channel[c]) \in Nat
    BY <1>2, HeadTailProperties, LenProperties DEF Emit
  <2>2. Append(emitted[c], Head(channel[c])) \in Seq(Posts)
    BY <2>1, AppendProperties
  <2>3. emitted' \in [Connections -> Seq(Posts)]
    BY <1>2, <2>2 DEF Emit
  <2>4. channel' \in [Connections -> Seq(Posts)]
    BY <1>2, <2>1 DEF Emit
  <2>5. \A d \in Connections : Len(channel'[d]) <= Capacity
    BY <1>2, <2>1 DEF Emit
  <2> QED
    BY <1>2, <2>3, <2>4, <2>5 DEF Emit
<1>3. ASSUME NEW c \in Connections, Leave(c) PROVE TypeOK'
  BY <1>3 DEF Leave
<1>4. ASSUME NEW c \in Connections, Deregister(c) PROVE TypeOK'
  BY <1>4 DEF Deregister
<1>5. ASSUME NEW p \in Posts, NEW s \in SessionIds, Dispatch(p, s) PROVE TypeOK'
  BY <1>5 DEF Dispatch
<1>6. ASSUME NEW p \in Posts, Lookup(p) PROVE TypeOK'
  BY <1>6 DEF Lookup
<1>7. ASSUME NEW p \in Posts, Enqueue(p) PROVE TypeOK'
  <2>1. sendTo[p] \in Connections
    BY <1>7 DEF Enqueue, Routes
  <2>2. /\ Append(channel[sendTo[p]], p) \in Seq(Posts)
        /\ Len(Append(channel[sendTo[p]], p)) = Len(channel[sendTo[p]]) + 1
        /\ Len(channel[sendTo[p]]) \in Nat
    BY <2>1, AppendProperties, LenProperties
  <2> QED
    BY <1>7, <2>1, <2>2 DEF Enqueue
<1>8. ASSUME NEW p \in Posts, Block(p) \/ Timeout(p) \/ Abort(p) \/ RefuseBody(p) PROVE TypeOK'
  BY <1>8 DEF Block, Timeout, Abort, RefuseBody
<1>9. CASE UNCHANGED vars
  BY <1>9 DEF vars
<1> QED
  BY <1>1, <1>2, <1>3, <1>4, <1>5, <1>6, <1>7, <1>8, <1>9 DEF Next

(* The table: a session belongs to a connection that is open or leaving    *)
(* and has its id.  A connection that opens was in no entry before.        *)
LEMMA OwnersStep == SessionsInv /\ [Next]_vars => Owners'
<1> SUFFICES ASSUME TypeOK, Owners, [Next]_vars PROVE Owners'
  BY DEF SessionsInv
<1> USE DEF TypeOK, Owners
<1>1. ASSUME NEW c \in Connections, NEW s \in SessionIds, Open(c, s) PROVE Owners'
  BY <1>1 DEF Open
<1>2. ASSUME NEW c \in Connections, Emit(c) PROVE Owners'
  BY <1>2 DEF Emit
<1>3. ASSUME NEW c \in Connections, Leave(c) PROVE Owners'
  BY <1>3 DEF Leave
<1>4. ASSUME NEW c \in Connections, Deregister(c) PROVE Owners'
  BY <1>4 DEF Deregister
<1>5. ASSUME NEW p \in Posts, NEW s \in SessionIds, Dispatch(p, s) PROVE Owners'
  BY <1>5 DEF Dispatch
<1>6. ASSUME NEW p \in Posts,
             Lookup(p) \/ Enqueue(p) \/ Block(p) \/ Timeout(p) \/ Abort(p) \/ RefuseBody(p)
      PROVE  Owners'
  BY <1>6 DEF Lookup, Enqueue, Block, Timeout, Abort, RefuseBody
<1>7. CASE UNCHANGED vars
  BY <1>7 DEF vars
<1> QED
  BY <1>1, <1>2, <1>3, <1>4, <1>5, <1>6, <1>7 DEF Next

(* A post that found a channel keeps the connection it found, which keeps  *)
(* its session id.                                                         *)
LEMMA RoutesStep == SessionsInv /\ [Next]_vars => Routes'
<1> SUFFICES ASSUME TypeOK, Owners, Routes, [Next]_vars PROVE Routes'
  BY DEF SessionsInv
<1> USE DEF TypeOK, Routes
<1>1. ASSUME NEW c \in Connections, NEW s \in SessionIds, Open(c, s) PROVE Routes'
  BY <1>1 DEF Open
<1>2. ASSUME NEW c \in Connections, Emit(c) PROVE Routes'
  BY <1>2 DEF Emit
<1>3. ASSUME NEW c \in Connections, Leave(c) PROVE Routes'
  BY <1>3 DEF Leave
<1>4. ASSUME NEW c \in Connections, Deregister(c) PROVE Routes'
  BY <1>4 DEF Deregister
<1>5. ASSUME NEW p \in Posts, NEW s \in SessionIds, Dispatch(p, s) PROVE Routes'
  BY <1>5 DEF Dispatch
<1>6. ASSUME NEW p \in Posts, Lookup(p) PROVE Routes'
  <2>1. CASE target[p] \notin DOMAIN sessions
    BY <1>6, <2>1 DEF Lookup
  <2>2. CASE target[p] \in DOMAIN sessions
    <3>1. PICK c \in Connections : c = sessions[target[p]]
      BY <2>2
    <3>2. sendTo'[p] = c /\ serving[c] # "new" /\ sid[c] = target[p]
      BY <1>6, <2>2, <3>1 DEF Lookup, Owners
    <3>3. \A q \in Posts : q # p => posting'[q] = posting[q] /\ sendTo'[q] = sendTo[q]
      BY <1>6, <2>2 DEF Lookup
    <3>4. UNCHANGED <<serving, sid, target>>
      BY <1>6 DEF Lookup
    <3> QED
      BY <3>2, <3>3, <3>4
  <2> QED
    BY <2>1, <2>2
<1>7. ASSUME NEW p \in Posts, Enqueue(p) PROVE Routes'
  BY <1>7 DEF Enqueue
<1>8. ASSUME NEW p \in Posts, Block(p) \/ Timeout(p) \/ Abort(p) \/ RefuseBody(p) PROVE Routes'
  BY <1>8 DEF Block, Timeout, Abort, RefuseBody
<1>9. CASE UNCHANGED vars
  BY <1>9 DEF vars
<1> QED
  BY <1>1, <1>2, <1>3, <1>4, <1>5, <1>6, <1>7, <1>8, <1>9 DEF Next

(* What goes through the connections. *)
LEMMA DeliveriesStep == SessionsInv /\ [Next]_vars => Deliveries' /\ Lost'
<1> SUFFICES ASSUME TypeOK, Routes, Deliveries, Lost, [Next]_vars PROVE Deliveries' /\ Lost'
  BY DEF SessionsInv
<1>t. \A c \in Connections : Through(c) \in Seq(Posts) /\ emitted[c] \in Seq(Posts)
                             /\ channel[c] \in Seq(Posts) /\ Range(Through(c)) \subseteq Posts
  <2> TAKE c \in Connections
  <2>1. Through(c) \in Seq(Posts) /\ emitted[c] \in Seq(Posts) /\ channel[c] \in Seq(Posts)
    BY ConcatProperties DEF TypeOK, Through
  <2>2. Range(Through(c)) \subseteq Posts
    BY <2>1, LenProperties, ElementOfSeq DEF Range
  <2> QED
    BY <2>1, <2>2
<1>r. \A p \in Posts : posting[p] = "accepted" => sendTo[p] \in Connections
  BY DEF Routes
<1>s. ASSUME \A c \in Connections : Through(c)' = Through(c),
             \A p \in Posts : posting[p] = "accepted" =>
                 posting'[p] = "accepted" /\ sendTo'[p] = sendTo[p],
             \A p \in Posts \ (Notes \cup Unencodable) :
                 posting'[p] = "accepted" => posting[p] = "accepted"
      PROVE  Deliveries' /\ Lost'
  BY <1>s, <1>t, <1>r DEF Deliveries, Lost
<1>1. ASSUME NEW c \in Connections, NEW s \in SessionIds, Open(c, s) PROVE Deliveries' /\ Lost'
  BY <1>1, <1>s DEF Open, Through
<1>2. ASSUME NEW c \in Connections, Emit(c) PROVE Deliveries' /\ Lost'
  <2>1. \A d \in Connections : d # c => Through(d)' = Through(d)
    BY <1>2 DEF Emit, Through, TypeOK
  <2>2. UNCHANGED <<posting, sendTo>>
    BY <1>2 DEF Emit
  <2>3. CASE Head(channel[c]) \notin Unencodable
    <3>1. Through(c)' = Through(c)
      BY <1>2, <1>t, <2>3, EmitThrough DEF Emit, Through, TypeOK
    <3> QED
      BY <1>s, <2>1, <2>2, <3>1
  <2>4. CASE Head(channel[c]) \in Unencodable
    <3>1. Through(c)' = emitted[c] \o Tail(channel[c]) /\ channel[c] # <<>>
      BY <1>2, <2>4 DEF Emit, Through, TypeOK
    <3>2. /\ Range(Through(c)') \subseteq Range(Through(c))
          /\ Range(Through(c)) \subseteq Range(Through(c)') \cup {Head(channel[c])}
          /\ IsInjective(Through(c)) => IsInjective(Through(c)')
      <4>1. emitted[c] \in Seq(Posts) /\ channel[c] \in Seq(Posts)
        BY <1>t
      <4> QED
        BY <3>1, <4>1, DropThrough DEF Through
    <3>3. \A d \in Connections : /\ Range(Through(d)') \subseteq Range(Through(d))
                                 /\ Range(Through(d)) \subseteq Range(Through(d)') \cup Unencodable
                                 /\ IsInjective(Through(d)) => IsInjective(Through(d)')
      BY <2>1, <2>4, <3>2
    <3>4. Deliveries'
      <4> SUFFICES ASSUME NEW d \in Connections
                   PROVE  /\ \A q \in Range(Through(d)') : posting'[q] = "accepted" /\ sendTo'[q] = d
                          /\ IsInjective(Through(d)')
        BY DEF Deliveries
      <4> QED
        BY <2>2, <3>3 DEF Deliveries
    <3>5. Lost'
      <4> SUFFICES ASSUME NEW q \in Posts \ (Notes \cup Unencodable), posting[q] = "accepted",
                          NEW d \in Connections, d = sendTo[q]
                   PROVE  q \in Range(Through(d)')
        BY <1>r, <2>2 DEF Lost, Through
      <4> QED
        BY <3>3 DEF Lost
    <3> QED
      BY <3>4, <3>5
  <2> QED
    BY <2>3, <2>4
<1>3. ASSUME NEW c \in Connections, Leave(c) \/ Deregister(c) PROVE Deliveries' /\ Lost'
  BY <1>3, <1>s DEF Leave, Deregister, Through
<1>4. ASSUME NEW p \in Posts, NEW s \in SessionIds, Dispatch(p, s) PROVE Deliveries' /\ Lost'
  BY <1>4, <1>s DEF Dispatch, Through, TypeOK
<1>5. ASSUME NEW p \in Posts, Lookup(p) PROVE Deliveries' /\ Lost'
  BY <1>5, <1>s DEF Lookup, Through, TypeOK
<1>6. ASSUME NEW p \in Posts, Enqueue(p) PROVE Deliveries' /\ Lost'
  <2>1. PICK k \in Connections : k = sendTo[p]
    BY <1>6 DEF Enqueue, Routes
  <2>a. posting[p] # "accepted"
    BY <1>6 DEF Enqueue
  <2>2. \A d \in Connections : d # k => Through(d)' = Through(d)
    BY <1>6, <2>1 DEF Enqueue, Through, TypeOK
  <2>3. Through(k)' = Append(Through(k), p)
    <3>1. channel'[k] = Append(channel[k], p) /\ emitted' = emitted
      BY <1>6, <2>1 DEF Enqueue, TypeOK
    <3>2. emitted[k] \in Seq(Posts) /\ channel[k] \in Seq(Posts)
      BY <1>t
    <3>3. emitted[k] \o Append(channel[k], p) = Append(emitted[k] \o channel[k], p)
      BY <3>2, EnqueueThrough
    <3> QED
      BY <3>1, <3>2, <3>3 DEF Through
  <2>4. p \notin Range(Through(k))
    BY <2>a DEF Deliveries
  <2>5. /\ Range(Through(k)') = Range(Through(k)) \cup {p}
        /\ IsInjective(Through(k)')
    BY <1>t, <2>1, <2>3, <2>4, AppendNew DEF Deliveries
  <2>6. /\ posting'[p] = "accepted" /\ sendTo' = sendTo
        /\ \A q \in Posts : q # p => posting'[q] = posting[q]
    BY <1>6 DEF Enqueue, TypeOK
  <2>7. \A d \in Connections : p \notin Range(Through(d))
    BY <2>a DEF Deliveries
  <2>8. Deliveries'
    <3> SUFFICES ASSUME NEW d \in Connections
                 PROVE  /\ \A q \in Range(Through(d)') : posting'[q] = "accepted" /\ sendTo'[q] = d
                        /\ IsInjective(Through(d)')
      BY DEF Deliveries
    <3>1. CASE d = k
      BY <1>t, <2>1, <2>5, <2>6, <3>1 DEF Deliveries
    <3>2. CASE d # k
      BY <1>t, <2>2, <2>6, <2>7, <3>2 DEF Deliveries
    <3> QED
      BY <3>1, <3>2
  <2>9. Lost'
    <3> SUFFICES ASSUME NEW q \in Posts \ (Notes \cup Unencodable), posting'[q] = "accepted"
                 PROVE  q \in Range(Through(sendTo[q])')
      BY <2>6 DEF Lost
    <3>1. CASE q = p
      BY <2>1, <2>5, <2>6, <3>1 DEF Through
    <3>2. CASE q # p
      <4>1. PICK d \in Connections : d = sendTo[q]
        BY <1>r, <2>6, <3>2
      <4>2. q \in Range(Through(d))
        BY <2>6, <3>2, <4>1 DEF Lost
      <4>3. q \in Range(Through(d)')
        BY <2>2, <2>5, <4>2
      <4> QED
        BY <2>6, <4>1, <4>3 DEF Through
    <3> QED
      BY <3>1, <3>2
  <2> QED
    BY <2>8, <2>9
<1>7. ASSUME NEW p \in Posts, Block(p) \/ Timeout(p) \/ Abort(p) \/ RefuseBody(p) PROVE Deliveries' /\ Lost'
  BY <1>7, <1>s DEF Block, Timeout, Abort, RefuseBody, Through, TypeOK
<1>8. CASE UNCHANGED vars
  BY <1>8, <1>s DEF vars, Through
<1> QED
  BY <1>1, <1>2, <1>3, <1>4, <1>5, <1>6, <1>7, <1>8 DEF Next

LEMMA SessionsStep == SessionsInv /\ [Next]_vars => SessionsInv'
  BY TypesStep, OwnersStep, RoutesStep, DeliveriesStep DEF SessionsInv

LEMMA SessionsAlways == Spec => []SessionsInv
  BY SessionsInit, SessionsStep, PTL DEF Spec

-----------------------------------------------------------------------------
(* The session table, the channels and their capacity, for any numbers.    *)
THEOREM SessionsTyped == Spec => []TypeOK
  BY SessionsAlways, PTL DEF SessionsInv

LEMMA DeliveredImplied == SessionsInv => DeliveredOnceToAddressee
<1> SUFFICES ASSUME SessionsInv, NEW c \in Connections
             PROVE  /\ \A p \in Range(Through(c)) : sid[c] = target[p] /\ posting[p] = "accepted"
                    /\ IsInjective(Through(c))
                    /\ \A d \in Connections \ {c} :
                          Range(Through(c)) \cap Range(Through(d)) = {}
  BY DEF DeliveredOnceToAddressee
<1>1. \A d \in Connections : Range(Through(d)) \subseteq Posts
  <2> TAKE d \in Connections
  <2>1. Through(d) \in Seq(Posts)
    BY ConcatProperties DEF SessionsInv, TypeOK, Through
  <2> QED
    BY <2>1, LenProperties, ElementOfSeq DEF Range
<1> QED
  BY <1>1 DEF SessionsInv, Deliveries, Routes

(* Responses go through connections of the session their post named, and   *)
(* none through two or twice, although ids may be read twice and sessions  *)
(* replaced while a post holds a channel.                                  *)
THEOREM ResponsesReachTheirSession == Spec => []DeliveredOnceToAddressee
  BY SessionsAlways, DeliveredImplied, PTL

LEMMA LeaksImplied == SessionsInv => NoSessionLeaks
  BY DEF SessionsInv, Owners, NoSessionLeaks

(* No connection that has returned stays in the table. *)
THEOREM TableIsClean == Spec => []NoSessionLeaks
  BY SessionsAlways, LeaksImplied, PTL

LEMMA OnItsWayImplied == SessionsInv => AcceptedIsOnItsWay
  BY DEF SessionsInv, Lost, AcceptedIsOnItsWay

(* A response answered with 202 is in the channel its post found, or has   *)
(* been written from it, unless it is one that json.Marshal fails on.      *)
THEOREM AcceptedIsNotDropped == Spec => []AcceptedIsOnItsWay
  BY SessionsAlways, OnItsWayImplied, PTL

LEMMA EndsStep ==
    ASSUME SessionsInv, [Next]_vars
    PROVE  [\A s \in DOMAIN sessions \ DOMAIN sessions' :
               serving[sessions[s]] = "leaving" /\ serving'[sessions[s]] = "gone"]_vars
<1> DEFINE Goal == \A s \in DOMAIN sessions \ DOMAIN sessions' :
                       serving[sessions[s]] = "leaving" /\ serving'[sessions[s]] = "gone"
<1>1. ASSUME NEW c \in Connections, NEW s \in SessionIds, Open(c, s) PROVE Goal
  BY <1>1 DEF Open
<1>2. ASSUME NEW c \in Connections, Emit(c) \/ Leave(c) PROVE Goal
  BY <1>2 DEF Emit, Leave
<1>3. ASSUME NEW c \in Connections, Deregister(c) PROVE Goal
  BY <1>3 DEF Deregister, SessionsInv, TypeOK
<1>4. ASSUME NEW p \in Posts, NEW s \in SessionIds, Dispatch(p, s) PROVE Goal
  BY <1>4 DEF Dispatch
<1>5. ASSUME NEW p \in Posts,
             Lookup(p) \/ Enqueue(p) \/ Block(p) \/ Timeout(p) \/ Abort(p) \/ RefuseBody(p)
      PROVE  Goal
  BY <1>5 DEF Lookup, Enqueue, Block, Timeout, Abort, RefuseBody
<1> QED
  BY <1>1, <1>2, <1>3, <1>4, <1>5 DEF Next

(* A session goes only when the connection it belongs to leaves: one that  *)
(* was replaced under the same id never takes its successor away.          *)
THEOREM SuccessorsAreSafe == Spec => SessionEndsWithItsOwner
<1>1. SessionsInv /\ [Next]_vars =>
        [\A s \in DOMAIN sessions \ DOMAIN sessions' :
            serving[sessions[s]] = "leaving" /\ serving'[sessions[s]] = "gone"]_vars
  BY EndsStep
<1> QED
  BY <1>1, SessionsAlways, PTL DEF Spec, SessionEndsWithItsOwner

-----------------------------------------------------------------------------
(* A step writes the oldest response of a channel, drops it because it     *)
(* cannot be encoded, accepts one post at the end of one channel, or       *)
(* leaves all that went through alone.                                     *)
Written(c) ==
    /\ channel[c] # <<>> /\ Head(channel[c]) \notin Unencodable
    /\ emitted' = [emitted EXCEPT ![c] = Append(@, Head(channel[c]))]
    /\ \A d \in Connections : Through(d)' = Through(d)

Dropped(c) ==
    /\ channel[c] # <<>> /\ Head(channel[c]) \in Unencodable
    /\ emitted' = emitted
    /\ Through(c)' = emitted[c] \o Tail(channel[c])
    /\ \A d \in Connections \ {c} : Through(d)' = Through(d)

Accepted(p, c) ==
    /\ sendTo[p] = c
    /\ posting[p] \in {"found", "blocked"} /\ posting'[p] = "accepted"
    /\ emitted' = emitted
    /\ Through(c)' = Append(Through(c), p)
    /\ \A d \in Connections \ {c} : Through(d)' = Through(d)

KeptOrder ==
    \/ \E c \in Connections : Written(c) \/ Dropped(c)
    \/ \E p \in Posts, c \in Connections : Accepted(p, c)
    \/ emitted' = emitted /\ \A c \in Connections : Through(c)' = Through(c)

LEMMA OrderStep == SessionsInv /\ [Next]_vars => [KeptOrder]_vars
<1> SUFFICES ASSUME SessionsInv, Next PROVE KeptOrder
  OBVIOUS
<1>t. TypeOK /\ Routes
  BY DEF SessionsInv
<1>1. ASSUME NEW c \in Connections, Emit(c) PROVE KeptOrder
  <2>1. channel[c] # <<>> /\ emitted[c] \in Seq(Posts) /\ channel[c] \in Seq(Posts)
    BY <1>1, <1>t DEF Emit, TypeOK
  <2>2. /\ channel' = [channel EXCEPT ![c] = Tail(@)]
        /\ channel'[c] = Tail(channel[c])
        /\ \A d \in Connections \ {c} : emitted'[d] = emitted[d] /\ channel'[d] = channel[d]
    BY <1>1, <1>t DEF Emit, TypeOK
  <2>3. \A d \in Connections \ {c} : Through(d)' = Through(d)
    BY <2>2 DEF Through
  <2>4. CASE Head(channel[c]) \notin Unencodable
    <3>1. emitted' = [emitted EXCEPT ![c] = Append(@, Head(channel[c]))]
      BY <1>1, <2>4 DEF Emit
    <3>2. emitted'[c] \o channel'[c] = emitted[c] \o channel[c]
      BY <2>1, <2>2, <3>1, <1>t, EmitThrough DEF TypeOK
    <3> QED
      BY <2>1, <2>3, <2>4, <3>1, <3>2 DEF KeptOrder, Written, Through
  <2>5. CASE Head(channel[c]) \in Unencodable
    <3>1. emitted' = emitted
      BY <1>1, <2>5, <1>t DEF Emit, TypeOK
    <3> QED
      BY <2>1, <2>2, <2>3, <2>5, <3>1 DEF KeptOrder, Dropped, Through
  <2> QED
    BY <2>4, <2>5
<1>2. ASSUME NEW p \in Posts, Enqueue(p) PROVE KeptOrder
  <2>1. PICK c \in Connections : c = sendTo[p]
    BY <1>2, <1>t DEF Enqueue, Routes
  <2>2. /\ channel' = [channel EXCEPT ![c] = Append(@, p)]
        /\ emitted' = emitted
        /\ posting[p] \in {"found", "blocked"} /\ posting'[p] = "accepted"
    BY <1>2, <1>t, <2>1 DEF Enqueue, TypeOK
  <2>3. /\ channel'[c] = Append(channel[c], p)
        /\ \A d \in Connections \ {c} : channel'[d] = channel[d]
    BY <2>2, <1>t DEF TypeOK
  <2>4. emitted[c] \in Seq(Posts) /\ channel[c] \in Seq(Posts)
    BY <1>t DEF TypeOK
  <2>5. emitted[c] \o channel'[c] = Append(emitted[c] \o channel[c], p)
    BY <2>3, <2>4, EnqueueThrough
  <2>6. Accepted(p, c)
    BY <2>1, <2>2, <2>3, <2>5 DEF Accepted, Through
  <2> QED
    BY <2>6 DEF KeptOrder
<1>3. ASSUME UNCHANGED <<channel, emitted>> PROVE KeptOrder
  BY <1>3 DEF KeptOrder, Through
<1>4. ASSUME NEW c \in Connections, NEW s \in SessionIds, Open(c, s)
      PROVE  UNCHANGED <<channel, emitted>>
  BY <1>4 DEF Open
<1>5. ASSUME NEW c \in Connections, Leave(c) \/ Deregister(c)
      PROVE  UNCHANGED <<channel, emitted>>
  BY <1>5 DEF Leave, Deregister
<1>6. ASSUME NEW p \in Posts, NEW s \in SessionIds, Dispatch(p, s)
      PROVE  UNCHANGED <<channel, emitted>>
  BY <1>6 DEF Dispatch
<1>7. ASSUME NEW p \in Posts, Lookup(p) \/ Block(p) \/ Timeout(p) \/ Abort(p) \/ RefuseBody(p)
      PROVE  UNCHANGED <<channel, emitted>>
  BY <1>7 DEF Lookup, Block, Timeout, Abort, RefuseBody
<1> QED
  BY <1>1, <1>2, <1>3, <1>4, <1>5, <1>6, <1>7 DEF Next

(* A connection writes responses in the order in which their posts were    *)
(* accepted: what went through it grows only at its end, by the response   *)
(* of the one post that is accepted for it at that step, and loses only    *)
(* the oldest waiting response when that one cannot be encoded, whichever  *)
(* posts wait, give up or find the channel full, and also after the client *)
(* has left; what was written stays as it was written.                     *)
THEOREM StreamsKeepOrder == Spec => [][KeptOrder]_vars
  BY SessionsAlways, OrderStep, PTL DEF Spec
=============================================================================
