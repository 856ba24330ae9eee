--------------------------- MODULE DashboardProofs ---------------------------
(***************************************************************************)
(* Dashboard for any number of requests, runs, targets and pages, and any  *)
(* capacity of the send channels.                                          *)
(***************************************************************************)
EXTENDS Dashboard, FiniteSetTheorems, SequenceTheorems, TLAPS

\* What the channels and the connections carry.
Queues ==
  /\ send \in [Browsers -> Seq(Observation)]
  /\ pushed \in [Browsers -> Seq(Observation)]

\* Every request broadcasts a run of its own, which is stored; WSHub.mu is
\* held by one Broadcast at a time, for an observation that is not to come.
Handlers ==
  /\ \A c \in Conns : todo[c] # {} \/ casting[c] # NULL => serving[c] # NULL
  /\ \A c \in Conns : serving[c] # NULL => {serving[c]} \X Targets \subseteq results
  /\ \A c, d \in Conns : c # d /\ serving[c] # NULL => serving[c] # serving[d]
  /\ \A c \in Conns : casting[c] # NULL => casting[c].event \in {serving[c]} \X (Targets \ todo[c])
  /\ \A c, d \in Conns : casting[c] # NULL /\ casting[d] # NULL => c = d

Occurs(e, b) == \E i \in DOMAIN Deliveries(b) : Deliveries(b)[i] = e

\* What a request has yet to broadcast was sent to nobody, what is being
\* broadcast was sent to nobody it has not come to, and nothing was sent since.
Unsent ==
  \A c \in Conns, b \in Browsers : \A t \in todo[c] : ~Occurs(<<serving[c], t>>, b)

NotYet ==
  \A c \in Conns : casting[c] # NULL => \A b \in casting[c].left : ~Occurs(casting[c].event, b)

Latest ==
  \A c \in Conns, b \in Browsers : casting[c] # NULL =>
    \A i \in DOMAIN Deliveries(b) : Deliveries(b)[i] = casting[c].event => i = Len(Deliveries(b))

Fresh == Unsent /\ NotYet /\ Latest

\* What was sent is stored, and no two messages to a page are the same.
Once ==
  \A b \in Browsers : \A i, j \in DOMAIN Deliveries(b) :
    /\ Deliveries(b)[i] \in results
    /\ Deliveries(b)[i] = Deliveries(b)[j] => i = j

------------------------------------------------------------------------------
(* Sequences.                                                              *)

\* A sequence followed by another.
LEMMA ConcatFact ==
  ASSUME NEW S, NEW s \in Seq(S), NEW t \in Seq(S)
  PROVE  /\ s \o t \in Seq(S) /\ Len(s) \in Nat /\ Len(t) \in Nat
         /\ Len(s \o t) = Len(s) + Len(t)
         /\ DOMAIN (s \o t) = 1..(Len(s) + Len(t))
         /\ \A i \in 1..Len(s) : (s \o t)[i] = s[i]
         /\ \A i \in 1..Len(t) : (s \o t)[Len(s) + i] = t[i]
<1>1. /\ s \o t \in Seq(S) /\ Len(s) \in Nat /\ Len(t) \in Nat
      /\ Len(s \o t) = Len(s) + Len(t)
  BY ConcatProperties, LenProperties
<1>2. DOMAIN (s \o t) = 1..(Len(s) + Len(t))
  BY <1>1, LenProperties
<1>3. \A i \in 1 .. Len(s) + Len(t) : (s \o t)[i] = IF i <= Len(s) THEN s[i] ELSE t[i - Len(s)]
  BY ConcatProperties
<1>4. \A i \in 1..Len(s) : (s \o t)[i] = s[i]
  BY <1>1, <1>3
<1>5. ASSUME NEW i \in 1..Len(t) PROVE (s \o t)[Len(s) + i] = t[i]
  <2>1. Len(s) + i \in 1..(Len(s) + Len(t)) /\ ~(Len(s) + i <= Len(s)) /\ Len(s) + i - Len(s) = i
    BY <1>1
  <2> QED
    BY <1>3, <2>1
<1> QED
  BY <1>1, <1>2, <1>4, <1>5

\* The first one keeps its places.
LEMMA ConcatFirst ==
  ASSUME NEW S, NEW s \in Seq(S), NEW t \in Seq(S), NEW i \in 1..Len(s)
  PROVE  i \in DOMAIN (s \o t) /\ (s \o t)[i] = s[i]
BY ConcatFact

\* A message at the end of the channel is the last of all.
LEMMA ConcatAppend ==
  ASSUME NEW S, NEW s \in Seq(S), NEW t \in Seq(S), NEW e \in S
  PROVE  s \o Append(t, e) = Append(s \o t, e)
<1>1. <<e>> \in Seq(S) /\ s \o t \in Seq(S)
  BY ConcatProperties
<1>2. Append(t, e) = t \o <<e>> /\ Append(s \o t, e) = (s \o t) \o <<e>>
  BY <1>1, AppendIsConcat
<1>3. (s \o t) \o <<e>> = s \o (t \o <<e>>)
  BY <1>1, ConcatAssociative
<1> QED
  BY <1>2, <1>3

\* The first message of the channel becomes the last one on the connection.
LEMMA ConcatForward ==
  ASSUME NEW S, NEW s \in Seq(S), NEW t \in Seq(S), t # <<>>
  PROVE  Append(s, Head(t)) \o Tail(t) = s \o t
<1>1. Head(t) \in S /\ Tail(t) \in Seq(S) /\ <<Head(t)>> \in Seq(S)
  BY HeadTailProperties
<1>2. Append(s, Head(t)) = s \o <<Head(t)>>
  BY <1>1, AppendIsConcat
<1>3. <<Head(t)>> \o Tail(t) = t
  <2>1. /\ <<Head(t)>> \o Tail(t) \in Seq(S) /\ Len(t) \in Nat \ {0}
        /\ Len(<<Head(t)>> \o Tail(t)) = Len(t)
        /\ \A i \in 1..Len(t) : (<<Head(t)>> \o Tail(t))[i] = IF i <= 1 THEN Head(t) ELSE Tail(t)[i - 1]
    BY <1>1, ConcatProperties, HeadTailProperties, EmptySeq, LenProperties
  <2>2. \A i \in 1..Len(t) : (<<Head(t)>> \o Tail(t))[i] = t[i]
    <3>1. Head(t) = t[1]
      OBVIOUS
    <3>2. \A i \in 1 .. Len(t) - 1 : Tail(t)[i] = t[i + 1]
      BY HeadTailProperties
    <3> TAKE i \in 1..Len(t)
    <3>3. CASE i = 1
      BY <2>1, <3>1, <3>3
    <3>4. CASE i # 1
      <4>1. i - 1 \in 1 .. Len(t) - 1 /\ ~(i <= 1) /\ (i - 1) + 1 = i
        BY <2>1, <3>4
      <4> QED
        BY <2>1, <3>2, <4>1
    <3> QED
      BY <3>3, <3>4
  <2> QED
    BY <2>1, <2>2, SeqEqual
<1>4. (s \o <<Head(t)>>) \o Tail(t) = s \o (<<Head(t)>> \o Tail(t))
  BY <1>1, ConcatAssociative
<1> QED
  BY <1>2, <1>3, <1>4

\* A sequence without duplicates has as many elements as places.
LEMMA DistinctCount ==
  ASSUME NEW S, NEW s \in Seq(S), \A i, j \in DOMAIN s : s[i] = s[j] => i = j
  PROVE  Cardinality(Range(s)) = Len(s)
<1>1. Len(s) \in Nat /\ DOMAIN s = 1..Len(s) /\ s \in [1..Len(s) -> S]
  BY LenProperties
<1>2. s \in [1..Len(s) -> Range(s)] /\ \A x \in Range(s) : \E i \in 1..Len(s) : s[i] = x
  BY <1>1 DEF Range
<1>3. s \in Surjection(1..Len(s), Range(s))
  BY <1>2 DEF Surjection
<1>4. s \in Injection(1..Len(s), Range(s))
  BY <1>1, <1>2 DEF Injection, IsInjective
<1>5. IsFiniteSet(1..Len(s)) /\ Cardinality(1..Len(s)) = Len(s)
  BY <1>1, FS_Interval
<1> QED
  BY <1>3, <1>4, <1>5, FS_Surjection

------------------------------------------------------------------------------
(* Types.                                                                  *)

\* The capacity of the channels, and the variables that no queue is part of.
Plain ==
  /\ results \subseteq Observation
  /\ serving \in [Conns -> Runs \cup {NULL}]
  /\ todo \in [Conns -> SUBSET Targets]
  /\ casting \in [Conns -> Cast \cup {NULL}]
  /\ clients \subseteq Browsers
  /\ \A b \in Browsers : Len(send[b]) <= Buffer
  /\ pump \in [Browsers -> {"none", "running", "returned"}]
  /\ old \subseteq Runs
  /\ page \in [Browsers -> {"new", "loaded", "open", "error"}]
  /\ missed \in [Browsers -> SUBSET Observation]

Typed == Plain /\ Queues

\* The type invariant follows.
LEMMA TypedIsTypeOK == Typed => DashboardTypeOK
<1> SUFFICES ASSUME Typed PROVE DashboardTypeOK
  OBVIOUS
<1>1. ASSUME NEW q \in Seq(Observation) PROVE Range(q) \subseteq Observation
  BY <1>1, LenProperties DEF Range
<1>2. \A b \in Browsers : Range(send[b]) \subseteq Observation /\ Range(pushed[b]) \subseteq Observation
  BY <1>1 DEF Typed, Queues
<1> QED
  BY <1>2 DEF Typed, Plain, DashboardTypeOK

\* A Broadcast that holds the lock has a message and clients to come to.
LEMMA CastFact ==
  ASSUME Typed, NEW c \in Conns, casting[c] # NULL
  PROVE  casting[c] \in Cast /\ casting[c].event \in Observation /\ casting[c].left \subseteq Browsers
<1>1. casting[c] \in Cast
  BY DEF Typed, Plain
<1> QED
  BY <1>1 DEF Cast

\* What a request has yet to broadcast is of a run.
LEMMA TodoFact ==
  ASSUME Typed, Handlers, NEW c \in Conns, NEW t \in todo[c]
  PROVE  t \in Targets /\ serving[c] \in Runs /\ serving[c] # NULL /\ <<serving[c], t>> \in Observation
<1>1. t \in Targets /\ serving[c] \in Runs /\ serving[c] # NULL
  BY DEF Typed, Plain, Handlers
<1> QED
  BY <1>1 DEF Observation

\* Every step keeps the types: the handler's part.
LEMMA TypedHandler ==
  ASSUME Typed, Handlers, NEW c \in Conns, (\E r \in Runs : Commit(c, r)) \/ HandlerStep(c)
  PROVE  Typed'
<1> USE DEF Typed
<1>1. ASSUME NEW r \in Runs, Commit(c, r) PROVE Typed'
  <2>1. News(r) \in SUBSET Targets
    BY DEF News
  <2>2. UNCHANGED <<casting, clients, send, pump, missed, old, page, pushed>>
    BY <1>1 DEF Commit, hubVars, pageVars
  <2>3. results' \subseteq Observation
    BY <1>1 DEF Commit, Plain, Observation
  <2>4. serving' \in [Conns -> Runs \cup {NULL}] /\ todo' \in [Conns -> SUBSET Targets]
    BY <1>1, <2>1 DEF Commit, Plain
  <2> QED
    BY <2>2, <2>3, <2>4 DEF Plain, Queues
<1>2. ASSUME Lock(c) PROVE Typed'
  <2>1. PICK t \in todo[c] :
          /\ todo' = [todo EXCEPT ![c] = @ \ {t}]
          /\ casting' = [casting EXCEPT ![c] = [event |-> <<serving[c], t>>, left |-> clients]]
    BY <1>2, Zenon DEF Lock
  <2>2. [event |-> <<serving[c], t>>, left |-> clients] \in Cast
    BY TodoFact DEF Plain, Cast
  <2>3. UNCHANGED <<results, serving, clients, send, pump, missed, old, page, pushed>>
    BY <1>2 DEF Lock, pageVars
  <2>4. todo' \in [Conns -> SUBSET Targets] /\ casting' \in [Conns -> Cast \cup {NULL}]
    BY <2>1, <2>2 DEF Plain
  <2> QED
    BY <2>3, <2>4 DEF Plain, Queues
<1>3. ASSUME Offer(c) PROVE Typed'
  <2>1. PICK b \in casting[c].left :
          /\ casting' = [casting EXCEPT ![c].left = casting[c].left \ {b}]
          /\ missed' = [missed EXCEPT ![b] = IF HasRoom(b) THEN @ ELSE @ \cup {casting[c].event}]
          /\ send' = [send EXCEPT ![b] = IF HasRoom(b) THEN Append(@, casting[c].event) ELSE @]
    BY <1>3, Zenon DEF Offer, Remaining
  <2>2. casting[c] \in Cast /\ casting[c].event \in Observation /\ b \in Browsers
    BY <1>3, CastFact DEF Offer
  <2>3. UNCHANGED <<results, serving, todo, clients, pump, old, page, pushed>>
    BY <1>3 DEF Offer, pageVars
  <2>4. casting' \in [Conns -> Cast \cup {NULL}]
    BY <2>1, <2>2 DEF Plain, Cast
  <2>5. /\ Append(send[b], casting[c].event) \in Seq(Observation)
        /\ Len(Append(send[b], casting[c].event)) = Len(send[b]) + 1
        /\ Len(send[b]) \in Nat
    BY <2>2, AppendProperties, LenProperties DEF Queues
  <2>6. send' \in [Browsers -> Seq(Observation)]
    BY <2>1, <2>2, <2>5 DEF Queues
  <2>7. \A a \in Browsers : Len(send'[a]) <= Buffer
    BY <2>1, <2>2, <2>5, DashboardAssumption DEF Queues, Plain, HasRoom
  <2>8. missed' \in [Browsers -> SUBSET Observation]
    BY <2>1, <2>2 DEF Plain
  <2> QED
    BY <2>3, <2>4, <2>6, <2>7, <2>8 DEF Plain, Queues
<1>4. ASSUME Unlock(c) PROVE Typed'
  BY <1>4 DEF Unlock, Plain, Queues, pageVars
<1> QED
  BY <1>1, <1>2, <1>3, <1>4 DEF HandlerStep

\* The pages' part, and the rest.
LEMMA TypedRest ==
  ASSUME Typed,
         (\E b \in Browsers : PageStep(b)) \/ (\E r \in Runs : Expire(r)) \/ Crash \/ UNCHANGED vars
  PROVE  Typed'
<1> USE DEF Typed
<1>2. ASSUME NEW b \in Browsers, Load(b) \/ Poll(b) PROVE Typed'
  <2>1. UNCHANGED <<results, serving, todo, casting, clients, send, pump, missed, old, pushed>>
    BY <1>2 DEF Load, Poll, hubVars
  <2>2. page' \in [Browsers -> {"new", "loaded", "open", "error"}]
    BY <1>2 DEF Load, Poll, Plain
  <2> QED
    BY <2>1, <2>2 DEF Plain, Queues
<1>3. ASSUME NEW b \in Browsers, Connect(b) \/ PumpReturns(b) PROVE Typed'
  <2>1. UNCHANGED <<results, serving, todo, casting, send, old, pushed>>
    BY <1>3 DEF Connect, PumpReturns, pageVars
  <2>2. /\ clients' \subseteq Browsers
        /\ pump' \in [Browsers -> {"none", "running", "returned"}]
        /\ page' \in [Browsers -> {"new", "loaded", "open", "error"}]
        /\ missed' \in [Browsers -> SUBSET Observation]
    BY <1>3 DEF Connect, PumpReturns, Plain, pageVars
  <2> QED
    BY <2>1, <2>2 DEF Plain, Queues
<1>4. ASSUME NEW b \in Browsers, Forward(b) PROVE Typed'
  <2>1. UNCHANGED <<results, serving, todo, casting, clients, pump, missed, old, page>>
    BY <1>4 DEF Forward
  <2>2. /\ Head(send[b]) \in Observation /\ Tail(send[b]) \in Seq(Observation)
        /\ Len(send[b]) \in Nat /\ Len(Tail(send[b])) = Len(send[b]) - 1
        /\ Append(pushed[b], Head(send[b])) \in Seq(Observation)
    BY <1>4, HeadTailProperties, LenProperties, AppendProperties DEF Forward, Queues
  <2>3. Queues'
    BY <1>4, <2>2 DEF Forward, Queues
  <2>4. \A a \in Browsers : Len(send'[a]) <= Buffer
    BY <1>4, <2>2, DashboardAssumption DEF Forward, Queues, Plain
  <2> QED
    BY <2>1, <2>3, <2>4 DEF Plain
<1>5. <<>> \in Seq(Observation) /\ Len(<<>>) <= Buffer
  BY EmptySeq, DashboardAssumption
<1>6. ASSUME NEW b \in Browsers, Unregister(b) PROVE Typed'
  <2>1. Queues' /\ \A a \in Browsers : Len(send'[a]) <= Buffer
    BY <1>5, <1>6 DEF Unregister, Queues, Plain, pageVars
  <2> QED
    BY <1>6, <2>1 DEF Unregister, Plain, OtherClients, pageVars
<1>7. ASSUME NEW r \in Runs, Expire(r) PROVE Typed'
  BY <1>7 DEF Expire, Plain, Queues, hubVars
<1>8. ASSUME Crash PROVE Typed'
  <2>1. Queues' /\ \A a \in Browsers : Len(send'[a]) <= Buffer
    BY <1>5, <1>8 DEF Crash, Queues, pageVars
  <2> QED
    BY <1>8, <2>1 DEF Crash, Plain, pageVars
<1>9. ASSUME UNCHANGED vars PROVE Typed'
  BY <1>9 DEF vars, Plain, Queues, hubVars, pageVars
<1> QED
  BY <1>2, <1>3, <1>4, <1>6, <1>7, <1>8, <1>9 DEF PageStep

------------------------------------------------------------------------------
(* The messages of a page.                                                 *)

Same == \A b \in Browsers : Deliveries(b)' = Deliveries(b)

\* Nothing is sent; messages may be lost with their channel.
Cut == \A b \in Browsers : \A i \in DOMAIN Deliveries(b)' :
         i \in DOMAIN Deliveries(b) /\ Deliveries(b)'[i] = Deliveries(b)[i]

DashInv == Typed /\ Handlers /\ Fresh /\ Once /\ SameOrder

\* A message that is lost does not change the order of the others.
LEMMA CutKeeps ==
  ASSUME Once, SameOrder, Cut, results \subseteq results'
  PROVE  Once' /\ SameOrder'
<1>1. Once'
  BY DEF Once, Cut
<1>2. SameOrder'
  BY DEF SameOrder, Cut
<1> QED
  BY <1>1, <1>2

\* Nothing is lost when nothing changes.
LEMMA SameIsCut == Same => Cut
BY DEF Same, Cut

\* The channels stay as they are.
LEMMA SameFact == UNCHANGED <<send, pushed>> => Same
BY DEF Same, Deliveries

\* A channel that is closed leaves the messages on the connection.
LEMMA ClosedFact ==
  ASSUME Typed, Typed', UNCHANGED pushed,
         \A b \in Browsers : send'[b] = send[b] \/ send'[b] = <<>>
  PROVE  Cut
<1> SUFFICES ASSUME NEW b \in Browsers, NEW i \in DOMAIN Deliveries(b)'
             PROVE  i \in DOMAIN Deliveries(b) /\ Deliveries(b)'[i] = Deliveries(b)[i]
  BY DEF Cut
<1>1. pushed[b] \in Seq(Observation) /\ send[b] \in Seq(Observation)
  BY DEF Typed, Queues
<1>2. CASE send'[b] = send[b]
  BY <1>2, Zenon DEF Deliveries
<1>3. CASE send'[b] = <<>>
  <2>1. Deliveries(b)' = pushed[b]
    BY <1>1, <1>3, ConcatEmptySeq DEF Deliveries
  <2>2. i \in 1..Len(pushed[b])
    BY <1>1, <2>1, LenProperties
  <2>3. i \in DOMAIN (pushed[b] \o send[b]) /\ (pushed[b] \o send[b])[i] = pushed[b][i]
    BY <1>1, <2>2, ConcatFirst, Zenon
  <2> QED
    BY <2>1, <2>3, Zenon DEF Deliveries
<1> QED
  BY <1>2, <1>3

\* The write pump takes from the channel what it writes.
LEMMA ForwardFact ==
  ASSUME Typed, NEW b \in Browsers, Forward(b)
  PROVE  Same
<1> SUFFICES ASSUME NEW a \in Browsers PROVE Deliveries(a)' = Deliveries(a)
  BY DEF Same
<1>1. send[b] # <<>> /\ send[b] \in Seq(Observation) /\ pushed[b] \in Seq(Observation)
  BY DEF Forward, Typed, Queues
<1>2. CASE a = b
  <2>1. send'[a] = Tail(send[b]) /\ pushed'[a] = Append(pushed[b], Head(send[b]))
    BY <1>2 DEF Forward, Typed, Queues
  <2> QED
    BY <1>1, <1>2, <2>1, ConcatForward, Zenon DEF Deliveries
<1>3. CASE a # b
  BY <1>3 DEF Forward, Typed, Queues, Deliveries
<1> QED
  BY <1>2, <1>3

\* A channel with room takes one message more.
LEMMA SendFact ==
  ASSUME Typed, NEW b \in Browsers, NEW e \in Observation,
         send' = [send EXCEPT ![b] = Append(@, e)], UNCHANGED pushed
  PROVE  /\ \A a \in Browsers : a # b => Deliveries(a)' = Deliveries(a)
         /\ Deliveries(b)' = Append(Deliveries(b), e)
<1>1. \A a \in Browsers : a # b => Deliveries(a)' = Deliveries(a)
  BY DEF Deliveries, Typed, Queues
<1>2. send'[b] = Append(send[b], e) /\ send[b] \in Seq(Observation) /\ pushed[b] \in Seq(Observation)
  BY DEF Typed, Queues
<1>3. \A s, t \in Seq(Observation) : \A x \in Observation : s \o Append(t, x) = Append(s \o t, x)
  BY ConcatAppend
<1>4. pushed[b] \o Append(send[b], e) = Append(pushed[b] \o send[b], e)
  BY <1>2, <1>3, Zenon
<1>5. Deliveries(b)' = pushed'[b] \o send'[b] /\ pushed'[b] = pushed[b]
  BY DEF Deliveries
<1> QED
  BY <1>1, <1>2, <1>4, <1>5, Zenon DEF Deliveries

\* The steps of the pages and of time send nothing.
LEMMA PagesKeep ==
  ASSUME DashInv, (\E b \in Browsers : PageStep(b)) \/ (\E r \in Runs : Expire(r)) \/ UNCHANGED vars
  PROVE  DashInv'
<1> USE DEF DashInv
<1>1. Typed'
  BY TypedRest
<1>2. UNCHANGED <<results, serving, todo, casting>>
  BY DEF PageStep, Load, Poll, Connect, Forward, PumpReturns, Unregister, Expire, vars, hubVars, pageVars
<1>3. Same \/ (Cut /\ Unlocked)
  <2>1. ASSUME NEW b \in Browsers, Unregister(b) PROVE Cut /\ Unlocked
    <3>1. UNCHANGED pushed /\ \A a \in Browsers : send'[a] = send[a] \/ send'[a] = <<>>
      BY <2>1 DEF Unregister, pageVars, Typed, Queues
    <3> QED
      BY <1>1, <2>1, <3>1, ClosedFact DEF Unregister
  <2>2. ASSUME NEW b \in Browsers, Forward(b) PROVE Same
    BY <2>2, ForwardFact
  <2>3. ASSUME NEW b \in Browsers, Load(b) \/ Poll(b) \/ Connect(b) \/ PumpReturns(b) PROVE Same
    BY <2>3, SameFact DEF Load, Poll, Connect, PumpReturns, hubVars, pageVars
  <2>4. ASSUME (\E r \in Runs : Expire(r)) \/ UNCHANGED vars PROVE Same
    BY <2>4, SameFact DEF Expire, vars, hubVars, pageVars
  <2> QED
    BY <2>1, <2>2, <2>3, <2>4 DEF PageStep
<1>4. Cut /\ Once' /\ SameOrder'
  BY <1>2, <1>3, SameIsCut, CutKeeps
<1>5. Handlers'
  BY <1>2 DEF Handlers
<1>6. Unsent'
  BY <1>2, <1>4 DEF Fresh, Unsent, Occurs, Cut
<1>7. NotYet'
  BY <1>2, <1>4, CastFact DEF Fresh, NotYet, Occurs, Cut
<1>8. Latest'
  BY <1>2, <1>3 DEF Fresh, Latest, Same, Unlocked
<1> QED
  BY <1>1, <1>4, <1>5, <1>6, <1>7, <1>8 DEF Fresh

\* A crash ends the Broadcasts.
LEMMA CrashKeeps ==
  ASSUME DashInv, Crash
  PROVE  DashInv'
<1> USE DEF DashInv
<1>1. Typed'
  BY TypedRest
<1>2. Cut
  <2>1. UNCHANGED pushed /\ \A b \in Browsers : send'[b] = <<>>
    BY DEF Crash, pageVars
  <2> QED
    BY <1>1, <2>1, ClosedFact
<1>3. Once' /\ SameOrder'
  BY <1>2, CutKeeps DEF Crash
<1>4. /\ \A c \in Conns : serving'[c] = NULL /\ todo'[c] = {} /\ casting'[c] = NULL
      /\ UNCHANGED results
  BY DEF Crash
<1>5. Handlers' /\ Fresh'
  BY <1>4 DEF Handlers, Fresh, Unsent, NotYet, Latest
<1> QED
  BY <1>1, <1>3, <1>5

\* A first write is news to everyone, and a replay is not broadcast.
LEMMA CommitKeeps ==
  ASSUME DashInv, NEW c \in Conns, NEW r \in Runs, Commit(c, r)
  PROVE  DashInv'
<1> USE DEF DashInv
<1>1. Typed'
  BY TypedHandler
<1>2. /\ serving[c] = NULL /\ casting[c] = NULL /\ UNCHANGED <<casting, send, pushed>>
      /\ results' = results \cup ({r} \X Targets)
  BY DEF Commit, hubVars, pageVars, Handlers
<1>3. Same /\ Cut /\ Once' /\ SameOrder'
  BY <1>2, SameFact, SameIsCut, CutKeeps
<1>4. /\ \A d \in Conns : d # c => serving'[d] = serving[d] /\ todo'[d] = todo[d]
      /\ todo'[c] = News(r) /\ serving'[c] = IF News(r) = {} THEN NULL ELSE r
  BY DEF Commit, Typed, Plain
<1>5. NotYet' /\ Latest'
  <2>1. NotYet'
    BY <1>2, <1>3, CastFact DEF Fresh, NotYet, Occurs, Cut
  <2>2. Latest'
    BY <1>2, <1>3 DEF Fresh, Latest, Same
  <2> QED
    BY <2>1, <2>2
<1>6. CASE News(r) = {}
  <2>1. Handlers'
    BY <1>2, <1>4, <1>6 DEF Handlers
  <2>2. Unsent'
    BY <1>3, <1>4, <1>6 DEF Fresh, Unsent, Occurs, Cut
  <2> QED
    BY <1>1, <1>3, <1>5, <2>1, <2>2 DEF Fresh
<1>7. CASE News(r) # {}
  <2>1. News(r) = Targets /\ Targets # {} /\ \A t \in Targets : <<r, t>> \notin results
    BY <1>7 DEF News
  <2>2. r # NULL /\ \A d \in Conns : serving[d] # r
    BY <2>1, DashboardAssumption, Zenon DEF Handlers
  <2>3. Handlers'
    <3>1. \A d \in Conns : todo'[d] # {} \/ casting'[d] # NULL => serving'[d] # NULL
      BY <1>2, <1>4, <1>7, <2>2 DEF Handlers
    <3>2. \A d \in Conns : serving'[d] # NULL => {serving'[d]} \X Targets \subseteq results'
      BY <1>2, <1>4, <1>7 DEF Handlers
    <3>3. \A d, e \in Conns : d # e /\ serving'[d] # NULL => serving'[d] # serving'[e]
      BY <1>2, <1>4, <1>7, <2>2 DEF Handlers
    <3>4. /\ \A d \in Conns : casting'[d] # NULL => casting'[d].event \in {serving'[d]} \X (Targets \ todo'[d])
          /\ \A d, e \in Conns : casting'[d] # NULL /\ casting'[e] # NULL => d = e
      BY <1>2, <1>4 DEF Handlers
    <3> QED
      BY <3>1, <3>2, <3>3, <3>4 DEF Handlers
  <2>4. Unsent'
    <3> SUFFICES ASSUME NEW d \in Conns, NEW b \in Browsers, NEW t \in todo'[d],
                        NEW i \in DOMAIN Deliveries(b), Deliveries(b)[i] = <<serving'[d], t>>
                 PROVE  FALSE
      BY <1>3 DEF Unsent, Occurs, Same
    <3>1. CASE d = c
      BY <1>4, <1>7, <2>1, <3>1 DEF Once
    <3>2. CASE d # c
      BY <1>4, <3>2 DEF Fresh, Unsent, Occurs
    <3> QED
      BY <3>1, <3>2
  <2> QED
    BY <1>1, <1>3, <1>5, <2>3, <2>4 DEF Fresh
<1> QED
  BY <1>6, <1>7

\* A Broadcast takes the lock from nobody, with a message that is new to all.
LEMMA LockKeeps ==
  ASSUME DashInv, NEW c \in Conns, Lock(c)
  PROVE  DashInv'
<1> USE DEF DashInv
<1>1. Typed'
  BY TypedHandler DEF HandlerStep
<1>2. Unlocked /\ UNCHANGED <<results, serving, send, pushed>>
  BY DEF Lock, pageVars
<1>3. Same /\ Cut /\ Once' /\ SameOrder'
  BY <1>2, SameFact, SameIsCut, CutKeeps
<1>4. PICK t \in todo[c] :
        /\ todo' = [todo EXCEPT ![c] = @ \ {t}]
        /\ casting' = [casting EXCEPT ![c] = [event |-> <<serving[c], t>>, left |-> clients]]
  BY Zenon DEF Lock
<1>5. /\ t \in Targets /\ serving[c] # NULL
      /\ \A d \in Conns : d # c => todo'[d] = todo[d] /\ casting'[d] = NULL
      /\ todo'[c] = todo[c] \ {t} /\ casting'[c] = [event |-> <<serving[c], t>>, left |-> clients]
  BY <1>2, <1>4, TodoFact DEF Unlocked, Typed, Plain
<1>6. \A b \in Browsers : \A i \in DOMAIN Deliveries(b) : Deliveries(b)[i] # <<serving[c], t>>
  BY DEF Fresh, Unsent, Occurs
<1>7. Handlers'
  <2>1. casting'[c].event \in {serving'[c]} \X (Targets \ todo'[c])
    BY <1>2, <1>5
  <2> QED
    BY <1>2, <1>5, <2>1 DEF Handlers
<1>8. Unsent'
  BY <1>2, <1>3, <1>5 DEF Fresh, Unsent, Occurs, Cut
<1>9. clients \subseteq Browsers
  BY DEF Typed, Plain
<1>10. NotYet'
  <2> SUFFICES ASSUME NEW b \in clients, NEW i \in DOMAIN Deliveries(b)' PROVE Deliveries(b)'[i] # <<serving[c], t>>
    BY <1>5 DEF NotYet, Occurs
  <2> QED
    BY <1>3, <1>6, <1>9 DEF Same
<1>11. Latest'
  <2> SUFFICES ASSUME NEW b \in Browsers, NEW i \in DOMAIN Deliveries(b)' PROVE Deliveries(b)'[i] # <<serving[c], t>>
    BY <1>5 DEF Latest
  <2> QED
    BY <1>3, <1>6 DEF Same
<1> QED
  BY <1>1, <1>3, <1>7, <1>8, <1>10, <1>11 DEF Fresh

\* The lock is released, and the request may be done.
LEMMA UnlockKeeps ==
  ASSUME DashInv, NEW c \in Conns, Unlock(c)
  PROVE  DashInv'
<1> USE DEF DashInv
<1>1. Typed'
  BY TypedHandler DEF HandlerStep
<1>2. UNCHANGED <<results, todo, send, pushed>>
  BY DEF Unlock, pageVars
<1>3. Same /\ Cut /\ Once' /\ SameOrder'
  BY <1>2, SameFact, SameIsCut, CutKeeps
<1>4. /\ \A d \in Conns : d # c => serving'[d] = serving[d] /\ casting'[d] = casting[d]
      /\ casting'[c] = NULL
      /\ (serving'[c] = NULL /\ todo[c] = {}) \/ serving'[c] = serving[c]
  BY DEF Unlock, Typed, Plain
<1>5. Handlers'
  BY <1>2, <1>4 DEF Handlers
<1>6. Unsent'
  BY <1>2, <1>3, <1>4 DEF Fresh, Unsent, Occurs, Cut
<1>7. NotYet'
  BY <1>3, <1>4, CastFact DEF Fresh, NotYet, Occurs, Cut
<1>8. Latest'
  BY <1>3, <1>4 DEF Fresh, Latest, Same
<1> QED
  BY <1>1, <1>3, <1>5, <1>6, <1>7, <1>8 DEF Fresh

\* What two sequences have in common is in the same order in both.
Agree(A, B) ==
  \A i, j \in DOMAIN A, k, l \in DOMAIN B : i < j /\ A[i] = B[k] /\ A[j] = B[l] => k < l

\* A message that nobody was sent anything after is appended to a sequence
\* that lacks it: the two orders still agree.
LEMMA AppendKeepsOrder ==
  ASSUME NEW S, NEW A \in Seq(S), NEW B \in Seq(S), NEW e \in S,
         \A i \in DOMAIN A : A[i] = e => i = Len(A),
         \A k \in DOMAIN B : B[k] # e,
         Agree(A, B), Agree(B, A),
         NEW C, C = Append(B, e)
  PROVE  Agree(A, C) /\ Agree(C, A)
<1>1. /\ Len(A) \in Nat /\ DOMAIN A = 1..Len(A) /\ Len(B) \in Nat /\ DOMAIN B = 1..Len(B)
      /\ DOMAIN C = 1..(Len(B) + 1) /\ C[Len(B) + 1] = e
      /\ \A k \in DOMAIN B : C[k] = B[k]
  BY LenProperties, AppendProperties
<1>2. \A k \in DOMAIN C : k \in DOMAIN B \/ (k = Len(B) + 1 /\ C[k] = e)
  BY <1>1
<1>3. ASSUME NEW i \in DOMAIN A, NEW j \in DOMAIN A, NEW k \in DOMAIN C, NEW l \in DOMAIN C,
             i < j, A[i] = C[k], A[j] = C[l]
      PROVE  k < l
  <2>1. k \in DOMAIN B
    BY <1>1, <1>2, <1>3
  <2>2. CASE l \in DOMAIN B
    BY <1>1, <1>3, <2>1, <2>2 DEF Agree
  <2>3. CASE l = Len(B) + 1
    BY <1>1, <2>1, <2>3
  <2> QED
    BY <1>2, <2>2, <2>3
<1>4. ASSUME NEW i \in DOMAIN C, NEW j \in DOMAIN C, NEW k \in DOMAIN A, NEW l \in DOMAIN A,
             i < j, C[i] = A[k], C[j] = A[l]
      PROVE  k < l
  <2>1. i \in DOMAIN B
    BY <1>1, <1>4
  <2>2. CASE j \in DOMAIN B
    BY <1>1, <1>4, <2>1, <2>2 DEF Agree
  <2>3. CASE j = Len(B) + 1
    <3>1. l = Len(A)
      BY <1>1, <1>4, <2>3
    <3>2. k # l
      BY <1>1, <1>4, <2>1, <2>3
    <3> QED
      BY <1>1, <3>1, <3>2
  <2> QED
    BY <1>2, <2>2, <2>3
<1> QED
  BY <1>3, <1>4 DEF Agree

\* Without duplicates a sequence agrees with itself.
LEMMA SelfOrder ==
  ASSUME NEW A, \A i, j \in DOMAIN A : A[i] = A[j] => i = j
  PROVE  Agree(A, A)
BY DEF Agree

\* The deliveries are sequences.
LEMMA DeliveriesFact ==
  ASSUME Typed, NEW b \in Browsers
  PROVE  Deliveries(b) \in Seq(Observation) /\ DOMAIN Deliveries(b) = 1..Len(Deliveries(b)) /\ Len(Deliveries(b)) \in Nat
<1>1. Deliveries(b) \in Seq(Observation)
  BY ConcatFact DEF Typed, Queues, Deliveries
<1> QED
  BY <1>1, LenProperties

\* A client is offered the message that everyone is being sent.
LEMMA OfferKeeps ==
  ASSUME DashInv, NEW c \in Conns, Offer(c)
  PROVE  DashInv'
<1> USE DEF DashInv
<1>1. Typed'
  BY TypedHandler DEF HandlerStep
<1>2. casting[c] # NULL /\ UNCHANGED <<results, serving, todo, pushed>>
  BY DEF Offer, pageVars
<1> DEFINE e == casting[c].event
<1>3. PICK b \in casting[c].left :
        /\ casting' = [casting EXCEPT ![c].left = casting[c].left \ {b}]
        /\ send' = [send EXCEPT ![b] = IF HasRoom(b) THEN Append(@, casting[c].event) ELSE @]
  BY Zenon DEF Offer, Remaining
<1>4. casting[c] \in Cast /\ e \in Observation /\ b \in Browsers /\ casting[c].left \subseteq Browsers
  BY <1>2, CastFact
<1>5. /\ \A d \in Conns : d # c => casting'[d] = casting[d] /\ casting[d] = NULL
      /\ casting'[c].event = e /\ casting'[c].left = casting[c].left \ {b} /\ casting'[c] # NULL
  <2>1. \A d \in Conns : d # c => casting'[d] = casting[d] /\ casting[d] = NULL
    BY <1>2, <1>3 DEF Handlers, Typed, Plain
  <2>2. casting'[c] = [casting[c] EXCEPT !.left = casting[c].left \ {b}]
    BY <1>3 DEF Typed, Plain
  <2>3. /\ casting'[c].event = e /\ casting'[c].left = casting[c].left \ {b} /\ casting'[c] \in Cast
    BY <1>4, <2>2 DEF Cast
  <2> QED
    BY <2>1, <2>3, DashboardAssumption
<1>6. e \in results /\ e[1] = serving[c] /\ e[2] \notin todo[c] /\ serving[c] # NULL
  <2>1. e \in {serving[c]} \X (Targets \ todo[c]) /\ serving[c] # NULL
    BY <1>2 DEF Handlers
  <2>2. {serving[c]} \X Targets \subseteq results
    BY <2>1 DEF Handlers
  <2> QED
    BY <2>1, <2>2
<1>7. \A d \in Conns : \A t \in todo[d] : <<serving[d], t>> # e
  BY <1>6 DEF Handlers
<1>8. Handlers'
  BY <1>2, <1>5 DEF Handlers
<1>9. /\ \A i \in DOMAIN Deliveries(b) : Deliveries(b)[i] # e
      /\ \A a \in casting[c].left : \A i \in DOMAIN Deliveries(a) : Deliveries(a)[i] # e
      /\ \A a \in Browsers : \A i \in DOMAIN Deliveries(a) : Deliveries(a)[i] = e => i = Len(Deliveries(a))
  BY <1>2, <1>3 DEF Fresh, NotYet, Latest, Occurs
<1>10. CASE ~HasRoom(b)
  <2>1. UNCHANGED send
    BY <1>3, <1>4, <1>10 DEF Typed, Queues
  <2>2. Same /\ Cut /\ Once' /\ SameOrder'
    BY <1>2, <2>1, SameFact, SameIsCut, CutKeeps
  <2>3. Unsent'
    BY <1>2, <2>2 DEF Fresh, Unsent, Occurs, Cut
  <2>4. NotYet'
    BY <1>4, <1>5, <1>9, <2>2 DEF NotYet, Occurs, Same
  <2>5. Latest'
    BY <1>5, <1>9, <2>2 DEF Latest, Same
  <2> QED
    BY <1>1, <1>8, <2>2, <2>3, <2>4, <2>5 DEF Fresh
<1>11. CASE HasRoom(b)
  <2> HIDE DEF e
  <2>0. send' = [send EXCEPT ![b] = Append(@, e)]
    BY <1>3, <1>11 DEF e
  <2>1. \A a \in Browsers : a # b => Deliveries(a)' = Deliveries(a)
    BY <1>2, <1>4, <2>0, SendFact
  <2>2. Deliveries(b)' = Append(Deliveries(b), e)
    BY <1>2, <1>4, <2>0, SendFact
  <2>3. \A a \in Browsers : /\ Deliveries(a) \in Seq(Observation) /\ Len(Deliveries(a)) \in Nat
                            /\ DOMAIN Deliveries(a) = 1..Len(Deliveries(a))
    BY DeliveriesFact
  <2>4. /\ Len(Deliveries(b)') = Len(Deliveries(b)) + 1
        /\ DOMAIN Deliveries(b)' = 1..(Len(Deliveries(b)) + 1)
        /\ Deliveries(b)'[Len(Deliveries(b)) + 1] = e
        /\ \A i \in DOMAIN Deliveries(b) : Deliveries(b)'[i] = Deliveries(b)[i]
    BY <1>4, <2>2, <2>3, AppendProperties, LenProperties
  <2>5. \A i \in DOMAIN Deliveries(b)' :
           \/ i \in DOMAIN Deliveries(b) /\ Deliveries(b)'[i] = Deliveries(b)[i]
           \/ i = Len(Deliveries(b)) + 1 /\ Deliveries(b)'[i] = e
    BY <1>4, <2>3, <2>4
  <2>6. Unsent'
    <3> SUFFICES ASSUME NEW d \in Conns, NEW a \in Browsers, NEW t \in todo[d],
                        NEW i \in DOMAIN Deliveries(a)', Deliveries(a)'[i] = <<serving[d], t>>
                 PROVE  FALSE
      BY <1>2 DEF Unsent, Occurs
    <3>1. \A k \in DOMAIN Deliveries(a) : Deliveries(a)[k] # <<serving[d], t>>
      BY DEF Fresh, Unsent, Occurs
    <3> QED
      BY <1>7, <2>1, <2>5, <3>1
  <2>7. NotYet'
    <3> SUFFICES ASSUME NEW a \in casting[c].left \ {b}, NEW i \in DOMAIN Deliveries(a)', Deliveries(a)'[i] = e
                 PROVE  FALSE
      BY <1>5 DEF NotYet, Occurs
    <3> QED
      BY <1>4, <1>9, <2>1
  <2>8. Latest'
    <3> SUFFICES ASSUME NEW a \in Browsers, NEW i \in DOMAIN Deliveries(a)', Deliveries(a)'[i] = e
                 PROVE  i = Len(Deliveries(a)')
      BY <1>5 DEF Latest
    <3>1. CASE a = b
      BY <1>9, <2>4, <2>5, <3>1
    <3>2. CASE a # b
      BY <1>9, <2>1, <3>2
    <3> QED
      BY <3>1, <3>2
  <2>9. Once'
    <3> SUFFICES ASSUME NEW a \in Browsers, NEW i \in DOMAIN Deliveries(a)', NEW j \in DOMAIN Deliveries(a)'
                 PROVE  /\ Deliveries(a)'[i] \in results
                        /\ Deliveries(a)'[i] = Deliveries(a)'[j] => i = j
      BY <1>2 DEF Once
    <3>1. CASE a = b
      BY <1>6, <1>9, <2>5, <3>1 DEF Once
    <3>2. CASE a # b
      BY <2>1, <3>2 DEF Once
    <3> QED
      BY <3>1, <3>2
  <2>10. SameOrder'
    <3>1. \A x, y \in Browsers : Agree(Deliveries(x), Deliveries(y))
      BY DEF SameOrder, Agree
    <3>2. ASSUME NEW a \in Browsers, a # b
          PROVE  Agree(Deliveries(a), Deliveries(b)') /\ Agree(Deliveries(b)', Deliveries(a))
      <4>1. Agree(Deliveries(a), Deliveries(b)) /\ Agree(Deliveries(b), Deliveries(a))
        BY <1>4, <3>1
      <4>2. Deliveries(a) \in Seq(Observation) /\ Deliveries(b) \in Seq(Observation)
        BY <1>4, <2>3
      <4>3. /\ \A i \in DOMAIN Deliveries(a) : Deliveries(a)[i] = e => i = Len(Deliveries(a))
            /\ \A k \in DOMAIN Deliveries(b) : Deliveries(b)[k] # e
        BY <1>9
      <4> QED
        BY <1>4, <2>2, <4>1, <4>2, <4>3, AppendKeepsOrder
    <3>3. Agree(Deliveries(b)', Deliveries(b)')
      BY <1>4, <2>9, SelfOrder DEF Once
    <3>4. ASSUME NEW x \in Browsers, NEW y \in Browsers PROVE Agree(Deliveries(x)', Deliveries(y)')
      <4>1. CASE x = b /\ y = b
        BY <3>3, <4>1
      <4>2. CASE x = b /\ y # b
        BY <2>1, <3>2, <4>2
      <4>3. CASE x # b /\ y = b
        BY <2>1, <3>2, <4>3
      <4>4. CASE x # b /\ y # b
        BY <2>1, <3>1, <4>4
      <4> QED
        BY <4>1, <4>2, <4>3, <4>4
    <3> QED
      BY <3>4 DEF SameOrder, Agree
  <2> QED
    BY <1>1, <1>8, <2>6, <2>7, <2>8, <2>9, <2>10 DEF Fresh
<1> QED
  BY <1>10, <1>11

------------------------------------------------------------------------------
(* Theorems.                                                               *)

\* No run, no request, no page (DashInv holds at first).
LEMMA DashInvInit == Init => DashInv
<1> SUFFICES ASSUME Init PROVE DashInv
  OBVIOUS
<1>1. <<>> \in Seq(Observation) /\ Len(<<>>) = 0
  BY EmptySeq
<1>2. Typed
  BY <1>1, DashboardAssumption DEF Init, Typed, Plain, Queues
<1>3. \A b \in Browsers : DOMAIN Deliveries(b) = {}
  <2> TAKE b \in Browsers
  <2>1. Deliveries(b) = <<>>
    BY <1>1, ConcatEmptySeq DEF Init, Deliveries
  <2> QED
    BY <2>1
<1>4. Handlers /\ Fresh
  BY DEF Init, Handlers, Fresh, Unsent, NotYet, Latest
<1>5. Once /\ SameOrder
  BY <1>3 DEF Once, SameOrder
<1> QED
  BY <1>2, <1>4, <1>5 DEF DashInv

\* DashInv is inductive.
LEMMA DashInvNext == DashInv /\ [Next]_vars => DashInv'
BY CommitKeeps, LockKeeps, OfferKeeps, UnlockKeeps, PagesKeep, CrashKeeps DEF Next, HandlerStep

\* The channels never hold more than their capacity, and every variable keeps
\* its type.
THEOREM DashboardTypeCorrect == Spec => []DashboardTypeOK
<1>1. DashInv => DashboardTypeOK
  BY TypedIsTypeOK DEF DashInv
<1> QED
  BY <1>1, DashInvInit, DashInvNext, PTL DEF Spec

\* However often runs are posted, however the handlers and the pages
\* interleave, and whenever the controller dies, no page is sent an
\* observation that is not stored, or one twice.
THEOREM PagesGetNews == Spec => []EventsAreNews
<1>1. DashInv => EventsAreNews
  <2> SUFFICES ASSUME DashInv, NEW b \in Browsers
               PROVE  /\ Range(Deliveries(b)) \subseteq results
                      /\ Cardinality(Range(Deliveries(b))) = Len(Deliveries(b))
    BY DEF EventsAreNews
  <2>1. Deliveries(b) \in Seq(Observation)
    BY DeliveriesFact DEF DashInv
  <2>2. Range(Deliveries(b)) \subseteq results
    BY DEF DashInv, Once, Range
  <2>3. \A i, j \in DOMAIN Deliveries(b) : Deliveries(b)[i] = Deliveries(b)[j] => i = j
    BY DEF DashInv, Once
  <2> QED
    BY <2>1, <2>2, <2>3, DistinctCount
<1> QED
  BY <1>1, DashInvInit, DashInvNext, PTL DEF Spec

\* Any two pages are sent what both are sent in the same order.
THEOREM PagesAgree == Spec => []SameOrder
<1>1. DashInv => SameOrder
  BY DEF DashInv
<1> QED
  BY <1>1, DashInvInit, DashInvNext, PTL DEF Spec

------------------------------------------------------------------------------
(* What a client misses.                                                   *)

\* A run is stored whole.
Whole == \A r \in Runs : \A t, u \in Targets : <<r, t>> \in results => <<r, u>> \in results

Coming(o, b) == \E c \in Conns : casting[c] # NULL /\ casting[c].event = o /\ b \in casting[c].left

Due(o, b) == o \in missed[b] \/ Occurs(o, b) \/ Pending(o) \/ Coming(o, b)

Accounted == \A b \in clients : \A o \in results : Due(o, b)

MissInv == Whole /\ Accounted

\* Nothing is sent, and the handlers stay where they are: what is due stays due to
\* every client whose messages are the same.
LEMMA QuietKeeps ==
  ASSUME MissInv, UNCHANGED <<results, serving, todo, casting, missed>>,
         \A b \in clients' : b \in clients /\ Deliveries(b)' = Deliveries(b)
  PROVE  MissInv'
<1>1. Whole'
  BY DEF MissInv, Whole
<1>2. ASSUME NEW b \in clients', NEW o \in results' PROVE Due(o, b)'
  <2>1. Due(o, b) /\ Deliveries(b)' = Deliveries(b)
    BY <1>2 DEF MissInv, Accounted
  <2>2. Occurs(o, b)' <=> Occurs(o, b)
    BY <2>1 DEF Occurs
  <2> QED
    BY <2>1, <2>2 DEF Due, Pending, Coming
<1> QED
  BY <1>1, <1>2 DEF MissInv, Accounted

\* The steps of the pages and of time.  A page that registers has missed what is
\* not to be broadcast any more.
LEMMA PagesMiss ==
  ASSUME DashInv, MissInv,
         (\E b \in Browsers : PageStep(b)) \/ (\E r \in Runs : Expire(r)) \/ Crash \/ UNCHANGED vars
  PROVE  MissInv'
<1>1. Typed /\ clients \subseteq Browsers
  BY DEF DashInv, Typed, Plain
<1>2. ASSUME NEW b \in Browsers, Load(b) \/ Poll(b) \/ PumpReturns(b) PROVE MissInv'
  <2>1. UNCHANGED <<results, serving, todo, casting, missed, clients, send, pushed>>
    BY <1>2 DEF Load, Poll, PumpReturns, hubVars, pageVars
  <2> QED
    BY <1>1, <2>1, QuietKeeps, SameFact DEF Same
<1>3. ASSUME (\E r \in Runs : Expire(r)) \/ UNCHANGED vars PROVE MissInv'
  <2>1. UNCHANGED <<results, serving, todo, casting, missed, clients, send, pushed>>
    BY <1>3 DEF Expire, vars, hubVars, pageVars
  <2> QED
    BY <1>1, <2>1, QuietKeeps, SameFact DEF Same
<1>4. ASSUME NEW b \in Browsers, Forward(b) PROVE MissInv'
  <2>1. UNCHANGED <<results, serving, todo, casting, missed, clients>>
    BY <1>4 DEF Forward
  <2> QED
    BY <1>1, <1>4, <2>1, QuietKeeps, ForwardFact DEF Same
<1>5. ASSUME NEW b \in Browsers, Unregister(b) PROVE MissInv'
  <2>1. UNCHANGED <<results, serving, todo, casting, missed, pushed>> /\ clients' = clients \ {b}
    BY <1>5 DEF Unregister, OtherClients, pageVars
  <2>2. \A a \in Browsers \ {b} : send'[a] = send[a]
    BY <1>1, <1>5 DEF Unregister, Typed, Queues
  <2>3. \A a \in clients' : a \in clients /\ Deliveries(a)' = Deliveries(a)
    BY <1>1, <2>1, <2>2 DEF Deliveries
  <2> QED
    BY <2>1, <2>3, QuietKeeps
<1>6. ASSUME NEW b \in Browsers, Connect(b) PROVE MissInv'
  <2>1. UNCHANGED <<results, serving, todo, casting, send, pushed>>
    BY <1>6 DEF Connect
  <2>2. CASE UNCHANGED <<clients, missed>>
    BY <1>1, <2>1, <2>2, QuietKeeps, SameFact DEF Same
  <2>3. CASE clients' = clients \cup {b} /\ missed' = [missed EXCEPT ![b] = {o \in results : ~Pending(o)}]
    <3>1. Whole'
      BY <2>1 DEF MissInv, Whole
    <3>2. \A o : Pending(o)' <=> Pending(o)
      BY <2>1 DEF Pending
    <3>3. ASSUME NEW a \in clients', NEW o \in results' PROVE Due(o, a)'
      <4>1. CASE a = b
        <5>1. missed'[b] = {q \in results : ~Pending(q)}
          BY <1>1, <2>3 DEF Typed, Plain
        <5> QED
          BY <2>1, <3>2, <3>3, <4>1, <5>1 DEF Due
      <4>2. CASE a # b
        <5>1. a \in clients /\ missed'[a] = missed[a] /\ Due(o, a) /\ Deliveries(a)' = Deliveries(a)
          BY <1>1, <2>1, <2>3, <3>3, <4>2 DEF Typed, Plain, MissInv, Accounted, Deliveries
        <5>2. (Occurs(o, a)' <=> Occurs(o, a)) /\ (Coming(o, a)' <=> Coming(o, a))
          BY <2>1, <5>1 DEF Occurs, Coming
        <5> QED
          BY <3>2, <5>1, <5>2 DEF Due
      <4> QED
        BY <4>1, <4>2
    <3> QED
      BY <3>1, <3>3 DEF MissInv, Accounted
  <2> QED
    BY <1>6, <2>2, <2>3 DEF Connect
<1>7. ASSUME Crash PROVE MissInv'
  BY <1>7 DEF Crash, MissInv, Whole, Accounted
<1> QED
  BY <1>2, <1>3, <1>4, <1>5, <1>6, <1>7 DEF PageStep

\* The rows of a first write are to be broadcast; a replay stores nothing.
LEMMA CommitMiss ==
  ASSUME DashInv, MissInv, NEW c \in Conns, NEW r \in Runs, Commit(c, r)
  PROVE  MissInv'
<1>1. /\ serving[c] = NULL /\ UNCHANGED <<casting, clients, missed, send, pushed>>
      /\ results' = results \cup ({r} \X Targets)
  BY DEF Commit, hubVars, pageVars
<1>2. /\ \A d \in Conns : d # c => serving'[d] = serving[d] /\ todo'[d] = todo[d]
      /\ todo'[c] = News(r) /\ serving'[c] = IF News(r) = {} THEN NULL ELSE r
  BY DEF Commit, DashInv, Typed, Plain
<1>3. results \subseteq Observation /\ clients \subseteq Browsers
  BY DEF DashInv, Typed, Plain
<1>4. Whole'
  BY <1>1 DEF MissInv, Whole
<1>5. ASSUME NEW b \in clients, NEW o \in results PROVE Due(o, b)'
  <2>1. Due(o, b)
    BY DEF MissInv, Accounted
  <2>2. Occurs(o, b) => Occurs(o, b)'
    BY <1>1, <1>3, SameFact DEF Same, Occurs
  <2>3. o[1] # NULL
    BY <1>3, DashboardAssumption DEF Observation
  <2>4. Pending(o) => Pending(o)'
    BY <1>1, <1>2, <2>3 DEF Pending
  <2>5. Coming(o, b) => Coming(o, b)'
    BY <1>1 DEF Coming
  <2> QED
    BY <1>1, <2>1, <2>2, <2>4, <2>5 DEF Due
<1>6. ASSUME NEW b \in clients, NEW o \in {r} \X Targets, o \notin results PROVE Due(o, b)'
  <2>1. PICK t \in Targets : o = <<r, t>>
    BY <1>6
  <2>2. \A u \in Targets : <<r, u>> \notin results
    BY <1>6, <2>1 DEF MissInv, Whole
  <2>3. News(r) = Targets
    BY <2>2 DEF News
  <2>4. serving'[c] = o[1] /\ o[2] \in todo'[c]
    BY <1>2, <2>1, <2>3
  <2> QED
    BY <2>4 DEF Due, Pending
<1>7. Accounted'
  BY <1>1, <1>5, <1>6 DEF Accounted
<1> QED
  BY <1>4, <1>7 DEF MissInv

\* What was to be broadcast comes to every client.
LEMMA LockMiss ==
  ASSUME DashInv, MissInv, NEW c \in Conns, Lock(c)
  PROVE  MissInv'
<1>1. Unlocked /\ UNCHANGED <<results, serving, clients, missed, send, pushed>>
  BY DEF Lock, pageVars
<1>2. PICK t \in todo[c] :
        /\ todo' = [todo EXCEPT ![c] = @ \ {t}]
        /\ casting' = [casting EXCEPT ![c] = [event |-> <<serving[c], t>>, left |-> clients]]
  BY Zenon DEF Lock
<1>3. /\ \A d \in Conns : d # c => todo'[d] = todo[d]
      /\ todo'[c] = todo[c] \ {t} /\ casting'[c] = [event |-> <<serving[c], t>>, left |-> clients]
  BY <1>2 DEF DashInv, Typed, Plain
<1>4. casting'[c] # NULL
  <2>1. <<serving[c], t>> \in Observation /\ clients \subseteq Browsers
    BY TodoFact DEF DashInv, Typed, Plain
  <2>2. casting'[c] \in Cast
    BY <1>3, <2>1 DEF Cast
  <2> QED
    BY <2>2, DashboardAssumption
<1>5. Whole'
  BY <1>1 DEF MissInv, Whole
<1>6. ASSUME NEW b \in clients, NEW o \in results PROVE Due(o, b)'
  <2>1. Due(o, b) /\ ~Coming(o, b)
    BY <1>1 DEF MissInv, Accounted, Unlocked, Coming
  <2>2. Occurs(o, b) => Occurs(o, b)'
    BY <1>1, SameFact DEF Same, Occurs, DashInv, Typed, Plain
  <2>3. Pending(o) => Pending(o)' \/ Coming(o, b)'
    <3> SUFFICES ASSUME NEW d \in Conns, serving[d] = o[1], o[2] \in todo[d]
                 PROVE  Pending(o)' \/ Coming(o, b)'
      BY DEF Pending
    <3>1. CASE d # c \/ o[2] # t
      <4>1. serving'[d] = o[1] /\ o[2] \in todo'[d]
        BY <1>1, <1>3, <3>1
      <4> QED
        BY <4>1 DEF Pending
    <3>2. CASE d = c /\ o[2] = t
      <4>1. o = <<o[1], o[2]>>
        BY DEF DashInv, Typed, Plain, Observation
      <4>2. casting'[c].event = o /\ casting'[c].left = clients
        BY <1>3, <3>2, <4>1
      <4> QED
        BY <1>4, <4>2 DEF Coming
    <3> QED
      BY <3>1, <3>2
  <2> QED
    BY <1>1, <2>1, <2>2, <2>3 DEF Due
<1> QED
  BY <1>1, <1>5, <1>6 DEF MissInv, Accounted

\* The client is sent the event, or has missed it; the others still wait for it.
LEMMA OfferMiss ==
  ASSUME DashInv, MissInv, NEW c \in Conns, Offer(c)
  PROVE  MissInv'
<1>1. casting[c] # NULL /\ UNCHANGED <<results, serving, todo, clients, pushed>>
  BY DEF Offer, pageVars
<1>2. PICK b \in casting[c].left :
        /\ casting' = [casting EXCEPT ![c].left = casting[c].left \ {b}]
        /\ send' = [send EXCEPT ![b] = IF HasRoom(b) THEN Append(@, casting[c].event) ELSE @]
        /\ missed' = [missed EXCEPT ![b] = IF HasRoom(b) THEN @ ELSE @ \cup {casting[c].event}]
  BY Zenon DEF Offer, Remaining
<1>3. Typed /\ casting[c] \in Cast /\ b \in Browsers /\ clients \subseteq Browsers
  BY <1>1, CastFact DEF DashInv, Typed, Plain
<1>4. PICK e \in Observation : e = casting[c].event
  BY <1>1, CastFact DEF DashInv
<1>5. /\ \A d \in Conns : d # c => casting'[d] = casting[d]
      /\ casting'[c].event = e /\ casting'[c].left = casting[c].left \ {b} /\ casting'[c] # NULL
  <2>1. /\ \A d \in Conns : d # c => casting'[d] = casting[d]
        /\ casting'[c] = [casting[c] EXCEPT !.left = casting[c].left \ {b}]
    BY <1>2, <1>3 DEF Typed, Plain
  <2>2. casting'[c].event = e /\ casting'[c].left = casting[c].left \ {b} /\ casting'[c] \in Cast
    BY <1>3, <1>4, <2>1 DEF Cast
  <2> QED
    BY <2>1, <2>2, DashboardAssumption
<1>6. \A a \in Browsers : missed[a] \subseteq missed'[a]
  BY <1>2, <1>3 DEF Typed, Plain
<1>7. /\ \A a \in Browsers : \A o : Occurs(o, a) => Occurs(o, a)'
      /\ e \in missed'[b] \/ Occurs(e, b)'
  <2>1. CASE HasRoom(b)
    <3>1. send' = [send EXCEPT ![b] = Append(@, e)]
      BY <1>2, <1>4, <2>1
    <3>2. /\ \A a \in Browsers : a # b => Deliveries(a)' = Deliveries(a)
          /\ Deliveries(b)' = Append(Deliveries(b), e)
      BY <1>1, <1>3, <3>1, SendFact
    <3>3. /\ Deliveries(b) \in Seq(Observation) /\ Len(Deliveries(b)) \in Nat
          /\ DOMAIN Deliveries(b) = 1..Len(Deliveries(b))
      BY <1>3, DeliveriesFact
    <3>4. /\ DOMAIN Deliveries(b)' = 1..(Len(Deliveries(b)) + 1)
          /\ Deliveries(b)'[Len(Deliveries(b)) + 1] = e
          /\ \A i \in DOMAIN Deliveries(b) : Deliveries(b)'[i] = Deliveries(b)[i]
      BY <1>3, <3>2, <3>3, AppendProperties, LenProperties
    <3>5. \A i \in DOMAIN Deliveries(b) : i \in DOMAIN Deliveries(b)'
      BY <3>3, <3>4
    <3>6. Len(Deliveries(b)) + 1 \in DOMAIN Deliveries(b)'
      BY <3>3, <3>4
    <3>7. Occurs(e, b)'
      BY <3>4, <3>6, Zenon DEF Occurs
    <3>8. ASSUME NEW a \in Browsers, NEW o, Occurs(o, a) PROVE Occurs(o, a)'
      <4>1. CASE a # b
        BY <3>2, <3>8, <4>1, Zenon DEF Occurs
      <4>2. CASE a = b
        <5>1. PICK i \in DOMAIN Deliveries(b) : Deliveries(b)[i] = o
          BY <3>8, <4>2, Zenon DEF Occurs
        <5>2. i \in DOMAIN Deliveries(b)' /\ Deliveries(b)'[i] = o
          BY <3>4, <3>5, <5>1, Zenon
        <5> QED
          BY <4>2, <5>2, Zenon DEF Occurs
      <4> QED
        BY <4>1, <4>2
    <3> QED
      BY <3>7, <3>8, Zenon
  <2>2. CASE ~HasRoom(b)
    <3>1. UNCHANGED send
      BY <1>2, <1>3, <2>2 DEF Typed, Queues
    <3>2. e \in missed'[b]
      BY <1>2, <1>3, <1>4, <2>2 DEF Typed, Plain
    <3> QED
      BY <1>1, <3>1, <3>2, SameFact DEF Same, Occurs
  <2> QED
    BY <2>1, <2>2
<1>8. Whole'
  BY <1>1 DEF MissInv, Whole
<1>9. ASSUME NEW a \in clients, NEW o \in results PROVE Due(o, a)'
  <2>1. Due(o, a)
    BY DEF MissInv, Accounted
  <2>2. Pending(o) => Pending(o)'
    BY <1>1 DEF Pending
  <2>3. Coming(o, a) => Coming(o, a)' \/ (o = e /\ a = b)
    BY <1>5, <1>4 DEF Coming
  <2>4. a \in Browsers /\ (o \in missed[a] => o \in missed'[a]) /\ (Occurs(o, a) => Occurs(o, a)')
    BY <1>3, <1>6, <1>7
  <2>5. o = e /\ a = b => o \in missed'[a] \/ Occurs(o, a)'
    BY <1>7, Zenon
  <2> QED
    BY <2>1, <2>2, <2>3, <2>4, <2>5, Zenon DEF Due
<1> QED
  BY <1>1, <1>8, <1>9 DEF MissInv, Accounted

\* The lock is released when no client waits.
LEMMA UnlockMiss ==
  ASSUME DashInv, MissInv, NEW c \in Conns, Unlock(c)
  PROVE  MissInv'
<1>1. UNCHANGED <<results, todo, clients, missed, send, pushed>> /\ casting[c].left = {}
  BY DEF Unlock, pageVars
<1>2. /\ \A d \in Conns : d # c => serving'[d] = serving[d] /\ casting'[d] = casting[d]
      /\ todo[c] = {} \/ serving'[c] = serving[c]
  BY DEF Unlock, DashInv, Typed, Plain
<1>3. Whole'
  BY <1>1 DEF MissInv, Whole
<1>4. ASSUME NEW b \in clients, NEW o \in results PROVE Due(o, b)'
  <2>1. Due(o, b)
    BY DEF MissInv, Accounted
  <2>2. Occurs(o, b) => Occurs(o, b)'
    BY <1>1, SameFact DEF Same, Occurs, DashInv, Typed, Plain
  <2>3. Pending(o) => Pending(o)'
    BY <1>1, <1>2 DEF Pending
  <2>4. Coming(o, b) => Coming(o, b)'
    BY <1>1, <1>2 DEF Coming
  <2> QED
    BY <1>1, <2>1, <2>2, <2>3, <2>4 DEF Due
<1> QED
  BY <1>1, <1>3, <1>4 DEF MissInv, Accounted

\* A client misses what its own channel has no room for and nothing else, with
\* any number of requests, pages, replays and crashes.
THEOREM ClientsMissLittle == Spec => []OnlyFullChannelsMiss
<1>1. Init => MissInv
  BY DEF Init, MissInv, Whole, Accounted
<1>2. DashInv /\ MissInv /\ [Next]_vars => MissInv'
  BY CommitMiss, LockMiss, OfferMiss, UnlockMiss, PagesMiss DEF Next, HandlerStep
<1>3. MissInv => OnlyFullChannelsMiss
  <2> SUFFICES ASSUME MissInv, NEW b \in clients, NEW o \in results, o \notin missed[b],
                      ~Pending(o), ~Coming(o, b)
               PROVE  o \in Range(Deliveries(b))
    BY DEF OnlyFullChannelsMiss, Coming
  <2>1. Occurs(o, b)
    BY DEF MissInv, Accounted, Due
  <2> QED
    BY <2>1 DEF Occurs, Range
<1> QED
  BY <1>1, <1>2, <1>3, DashInvInit, DashInvNext, PTL DEF Spec
==============================================================================
