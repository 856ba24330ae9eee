--------------------------- MODULE WSTicketsProofs ---------------------------
(***************************************************************************)
(* WSTickets for any number of tickets, addresses and upgrade requests in  *)
(* progress, and any lifetime, window, block and limit.                    *)
(***************************************************************************)
EXTENDS WSTickets, FiniteSetTheorems, TLAPS

Upgrading(h) == handler[h].at = "upgrade"

\* A ticket in the store has admitted nobody, and one that admitted somebody
\* belongs to one upgrade or one connection.
OneUse ==
  /\ \A t \in Tickets : t \in present \/ t \notin issued => admitted[t] = 0
  /\ \A t \in Tickets : admitted[t] <= 1
  /\ \A h \in Handlers : Upgrading(h) => /\ handler[h].ticket \in Tickets \ open
                                         /\ admitted[handler[h].ticket] = 1
  /\ \A g, h \in Handlers : Upgrading(g) /\ Upgrading(h) /\ g # h
                              => handler[g].ticket # handler[h].ticket
  /\ \A t \in open : admitted[t] = 1

\* A window that does not end in a block has less than Limit failures, that is
\* at most OneWindow unless Limit is 1.
OneWindow == IF Limit = 1 THEN 1 ELSE Limit - 1

\* What an entry st of the limiter says of the ages f of the last failures: none
\* after a block; no more than OneWindow of the last Window when the window is
\* over; and in a window with count failures, all before them are older than it,
\* and those before OneWindow of these are older than Window.
Ages(st, f) ==
  /\ st.count >= Limit => \A k \in 1..TooMany : f[k] > Window
  /\ st.since > Window => \A k \in 1..TooMany : k >= OneWindow => f[k] > Window
  /\ st.since <= Window /\ st.count < Limit =>
       /\ st.count >= 1
       /\ \A k \in 1..TooMany : k >= st.count => f[k] >= st.since
       /\ \A k \in 1..TooMany : k >= st.count + OneWindow => f[k] > Window

FailureAges == \A i \in IPs : Ages(limiter[i], lately[i])

Counted == IsFiniteSet(open) /\ GaugeIsExact

TicketsInv == TicketsTypeOK /\ OneUse /\ FailureAges /\ Counted

\* An empty store, no failures, no connections (TicketsInv holds at first).
LEMMA TicketsInvInit == Init => TicketsInv
<1> SUFFICES ASSUME Init PROVE TicketsInv
  OBVIOUS
<1>1. present = {} /\ open = {}
  BY DEF Init, present
<1>2. TicketsTypeOK
  <2>1. lately \in [IPs -> [1..TooMany -> 0..(Window + 1)]]
    BY TicketsAssumption DEF Init, NoFailures
  <2> QED
    BY <1>1, <2>1, TicketsAssumption DEF Init, TicketsTypeOK, NoEntry, IPState
<1>3. OneUse
  BY <1>1 DEF Init, OneUse, Upgrading, NoUpgrade
<1>4. FailureAges
  BY TicketsAssumption DEF Init, FailureAges, Ages, NoEntry, NoFailures
<1>5. Counted
  BY <1>1, FS_EmptySet DEF Init, Counted, GaugeIsExact
<1> QED
  BY <1>2, <1>3, <1>4, <1>5 DEF TicketsInv

\* RecordFailure gives an entry of the right shape.  A failure inside a block
\* leaves it alone.
LEMMA AfterFailureKeeps ==
  ASSUME NEW st \in IPState
  PROVE  /\ AfterFailure(st) \in IPState
         /\ st.block > 0 => AfterFailure(st) = st
<1>1. st.count \in Nat /\ st.since \in 0..(Window + 1) /\ st.block \in 0..Block
  BY DEF IPState
<1>2. CASE st.block > 0
  BY <1>2 DEF AfterFailure
<1>3. CASE ~(st.block > 0)
  <2> DEFINE n == IF st.since > Window THEN 1 ELSE st.count + 1
             s == IF st.since > Window THEN 0 ELSE st.since
             b == IF n >= Limit THEN Block ELSE 0
  <2>1. AfterFailure(st) = [count |-> n, since |-> s, block |-> b]
    BY <1>3 DEF AfterFailure
  <2>2. n \in Nat /\ s \in 0..(Window + 1) /\ b \in 0..Block
    BY <1>1, TicketsAssumption
  <2> HIDE DEF n, s, b
  <2> QED
    BY <1>3, <2>1, <2>2 DEF IPState
<1> QED
  BY <1>2, <1>3

\* One more failure, which is noted: the ages still agree with the entry.
LEMMA NotedKeeps ==
  ASSUME TicketsInv, NEW i \in IPs, limiter' = [limiter EXCEPT ![i] = AfterFailure(@)]
  PROVE  /\ Noted(i) \in [1..TooMany -> 0..(Window + 1)]
         /\ Ages(AfterFailure(limiter[i]), Noted(i))
<1> DEFINE st == limiter[i]
           f == lately[i]
<1>1. /\ st \in IPState /\ f \in [1..TooMany -> 0..(Window + 1)] /\ Ages(st, f)
      /\ limiter'[i] = AfterFailure(st)
  BY DEF TicketsInv, TicketsTypeOK, FailureAges
<1>2. st.count \in Nat /\ st.since \in 0..(Window + 1) /\ st.block \in 0..Block
  BY <1>1 DEF IPState
<1>3. TooMany \in Nat \ {0} /\ OneWindow \in Nat \ {0}
  BY TicketsAssumption DEF TooMany, OneWindow
<1>4. CASE st.block > 0
  BY <1>1, <1>4 DEF AfterFailure, Noted
<1>5. CASE ~(st.block > 0)
  <2> DEFINE n == IF st.since > Window THEN 1 ELSE st.count + 1
             s == IF st.since > Window THEN 0 ELSE st.since
             g == [k \in 1..TooMany |-> IF k = 1 THEN 0 ELSE f[k - 1]]
  <2>1. AfterFailure(st) = [count |-> n, since |-> s, block |-> IF n >= Limit THEN Block ELSE 0]
    BY <1>5 DEF AfterFailure
  <2>2. CASE n >= Limit
    <3>1. Noted(i) = NoFailures
      BY <1>1, <1>5, <2>1, <2>2, TicketsAssumption DEF Noted
    <3> QED
      BY <1>2, <2>1, <2>2, <3>1, TicketsAssumption DEF Ages, NoFailures
  <2>3. CASE ~(n >= Limit)
    <3>1. Noted(i) = g
      BY <1>1, <1>5, <2>1, <2>3 DEF Noted
    <3>2. g \in [1..TooMany -> 0..(Window + 1)]
      BY <1>1, <1>3, TicketsAssumption
    <3>3. \A k \in 1..TooMany : k > 1 => k - 1 \in 1..TooMany /\ g[k] = f[k - 1]
      BY <1>3
    <3>4. n \in Nat /\ n >= 1 /\ s \in Nat /\ s <= Window
      BY <1>2, TicketsAssumption
    <3>5. /\ \A k \in 1..TooMany : k >= n => g[k] >= s
          /\ \A k \in 1..TooMany : k >= n + OneWindow => g[k] > Window
      <4> SUFFICES ASSUME NEW k \in 1..TooMany
                   PROVE  (k >= n => g[k] >= s) /\ (k >= n + OneWindow => g[k] > Window)
        OBVIOUS
      <4> HIDE DEF g
      <4>1. CASE st.since > Window
        <5>1. n = 1 /\ s = 0 /\ g[k] \in Nat
          BY <3>2, <4>1, TicketsAssumption
        <5>2. k >= 1 + OneWindow => g[k] > Window
          <6> HAVE k >= 1 + OneWindow
          <6>1. k > 1 /\ k - 1 >= OneWindow
            BY <1>3
          <6> QED
            BY <1>1, <3>3, <4>1, <6>1 DEF Ages
        <5> QED
          BY <5>1, <5>2
      <4>2. CASE ~(st.since > Window)
        <5>1. n = st.count + 1 /\ s = st.since /\ st.since <= Window /\ st.count < Limit
          BY <1>2, <2>3, <4>2, TicketsAssumption
        <5>2. /\ st.count >= 1
              /\ \A m \in 1..TooMany : m >= st.count => f[m] >= st.since
              /\ \A m \in 1..TooMany : m >= st.count + OneWindow => f[m] > Window
          BY <1>1, <5>1 DEF Ages
        <5>3. k >= n => k > 1 /\ k - 1 >= st.count
          BY <1>2, <5>1, <5>2
        <5>4. k >= n + OneWindow => k > 1 /\ k - 1 >= st.count + OneWindow
          BY <1>2, <1>3, <5>1, <5>2
        <5> QED
          BY <3>3, <5>1, <5>2, <5>3, <5>4
      <4> QED
        BY <4>1, <4>2
    <3>6. AfterFailure(st).count = n /\ AfterFailure(st).since = s
      BY <2>1
    <3> HIDE DEF n, s, g
    <3>7. Ages(AfterFailure(st), g)
      BY <2>3, <3>4, <3>5, <3>6, TicketsAssumption DEF Ages
    <3> QED
      BY <3>1, <3>2, <3>7
  <2> QED
    BY <2>2, <2>3
<1> QED
  BY <1>4, <1>5

\* Issue and Prune change the store only; a ticket is issued once.
LEMMA StoreKeeps ==
  ASSUME TicketsInv, (\E t \in Tickets : Issue(t)) \/ Prune
  PROVE  TicketsInv'
<1> USE DEF TicketsInv
<1>1. UNCHANGED <<admitted, limiter, lately, handler, open, gauge>>
  BY DEF Issue, Prune
<1>2. FailureAges' /\ Counted'
  BY <1>1 DEF FailureAges, Counted, GaugeIsExact
<1>3. CASE \E t \in Tickets : Issue(t)
  <2>1. PICK t \in Tickets : Issue(t)
    BY <1>3
  <2>2. /\ present' = present \cup {t} /\ issued' = issued \cup {t} /\ t \notin issued
        /\ tickets' \in [present' -> 0..(TTL + 1)]
    BY <2>1, TicketsAssumption DEF Issue, present, TicketsTypeOK
  <2>3. TicketsTypeOK'
    BY <1>1, <2>2 DEF TicketsTypeOK
  <2>4. OneUse'
    BY <1>1, <2>2 DEF OneUse, Upgrading
  <2> QED
    BY <1>2, <2>3, <2>4
<1>4. CASE Prune
  <2>1. /\ present' \subseteq present /\ issued' = issued
        /\ tickets' \in [present' -> 0..(TTL + 1)]
    BY <1>4 DEF Prune, Unexpired, present, TicketsTypeOK
  <2>2. TicketsTypeOK'
    BY <1>1, <2>1 DEF TicketsTypeOK
  <2>3. OneUse'
    BY <1>1, <2>1 DEF OneUse, Upgrading, TicketsTypeOK
  <2> QED
    BY <1>2, <2>2, <2>3
<1> QED
  BY <1>3, <1>4

\* A new upgrade request, whose ticket nothing is known of yet.
LEMMA BeginKeeps ==
  ASSUME TicketsInv, NEW h \in Handlers, NEW i \in IPs, NEW t \in Tickets \cup {None},
         BeginUpgrade(h, i, t)
  PROVE  TicketsInv'
<1> USE DEF TicketsInv
<1>1. /\ UNCHANGED <<tickets, issued, admitted, limiter, lately, open, gauge>> /\ present' = present
      /\ handler' = [handler EXCEPT ![h] = [at |-> "validate", ip |-> i, ticket |-> t]]
  BY DEF BeginUpgrade, present
<1>2. FailureAges' /\ Counted'
  BY <1>1 DEF FailureAges, Counted, GaugeIsExact
<1>3. TicketsTypeOK'
  BY <1>1 DEF TicketsTypeOK
<1>4. \A g \in Handlers : Upgrading(g)' => Upgrading(g) /\ handler'[g] = handler[g]
  BY <1>1 DEF Upgrading, TicketsTypeOK
<1>5. OneUse'
  BY <1>1, <1>4 DEF OneUse
<1> QED
  BY <1>2, <1>3, <1>5

\* Validate takes the ticket out of the store in the step that looks it up: the
\* upgrade it admits is the only one.
LEMMA ValidateKeeps ==
  ASSUME TicketsInv, NEW h \in Handlers, Validate(h)
  PROVE  TicketsInv'
<1> USE DEF TicketsInv
<1> DEFINE t == handler[h].ticket
           good == t \in present /\ tickets[t] <= TTL
<1>1. /\ UNCHANGED <<issued, limiter, lately, open, gauge>>
      /\ present' = present \ {t}
      /\ tickets' = [s \in present \ {t} |-> tickets[s]]
      /\ admitted' = IF good THEN [admitted EXCEPT ![t] = @ + 1] ELSE admitted
      /\ handler' = [handler EXCEPT ![h].at = IF good THEN "upgrade" ELSE "fail"]
  BY DEF Validate, Deletes, present
<1>2. handler[h] \in [at : {"validate"}, ip : IPs, ticket : Tickets \cup {None}]
  BY DEF Validate, TicketsTypeOK, NoUpgrade
<1>3. FailureAges' /\ Counted'
  BY <1>1 DEF FailureAges, Counted, GaugeIsExact
<1>4. good => t \in Tickets /\ admitted[t] = 0
  BY DEF TicketsTypeOK, OneUse
<1>5. TicketsTypeOK'
  <2>1. admitted' \in [Tickets -> Nat]
    BY <1>1, <1>4 DEF TicketsTypeOK
  <2>2. tickets' \in [present' -> 0..(TTL + 1)] /\ present' \subseteq issued
    BY <1>1 DEF TicketsTypeOK
  <2>3. [handler[h] EXCEPT !.at = IF good THEN "upgrade" ELSE "fail"]
          \in [at : {"validate", "fail", "upgrade"}, ip : IPs, ticket : Tickets \cup {None}]
    BY <1>2
  <2>4. handler' = [handler EXCEPT ![h] = [handler[h] EXCEPT !.at = IF good THEN "upgrade" ELSE "fail"]]
    BY <1>1 DEF TicketsTypeOK
  <2> QED
    BY <1>1, <2>1, <2>2, <2>3, <2>4 DEF TicketsTypeOK
<1>6. /\ Upgrading(h)' <=> good
      /\ handler'[h].ticket = t
      /\ \A g \in Handlers \ {h} : handler'[g] = handler[g]
  BY <1>1, <1>2 DEF Upgrading, TicketsTypeOK
<1>7. \A s \in Tickets : admitted'[s] = IF good /\ s = t THEN 1 ELSE admitted[s]
  BY <1>1, <1>4 DEF TicketsTypeOK
<1>8. OneUse'
  <2> HIDE DEF good, t
  <2>1. \A s \in Tickets : s \in present' \/ s \notin issued' => admitted'[s] = 0
    <3>1. good => t \in present /\ t \in issued
      BY DEF good, TicketsTypeOK
    <3> QED
      BY <1>1, <1>7, <3>1 DEF OneUse
  <2>2. \A s \in Tickets : admitted'[s] <= 1
    BY <1>7 DEF OneUse
  <2>3. good => t \notin open /\ \A g \in Handlers \ {h} : Upgrading(g) => handler[g].ticket # t
    BY <1>4 DEF OneUse
  <2>4. \A g \in Handlers : Upgrading(g)' => /\ handler'[g].ticket \in Tickets \ open'
                                             /\ admitted'[handler'[g].ticket] = 1
    <3>1. good => t \in Tickets \ open' /\ admitted'[t] = 1
      BY <1>1, <1>4, <1>7, <2>3
    <3>2. ASSUME NEW g \in Handlers \ {h}, Upgrading(g)'
          PROVE  handler'[g].ticket \in Tickets \ open' /\ admitted'[handler'[g].ticket] = 1
      <4>1. Upgrading(g) /\ handler'[g] = handler[g]
        BY <1>6, <3>2 DEF Upgrading
      <4> QED
        BY <1>1, <1>7, <4>1 DEF OneUse
    <3> QED
      BY <1>6, <3>1, <3>2
  <2>5. \A f, g \in Handlers : Upgrading(f)' /\ Upgrading(g)' /\ f # g
                                => handler'[f].ticket # handler'[g].ticket
    BY <1>6, <2>3 DEF OneUse, Upgrading
  <2>6. \A s \in open' : admitted'[s] = 1
    BY <1>1, <1>7 DEF OneUse, TicketsTypeOK
  <2> QED
    BY <2>1, <2>2, <2>4, <2>5, <2>6 DEF OneUse
<1> QED
  BY <1>3, <1>5, <1>8

\* wsRejectAndCount touches the limiter only.
LEMMA FailureKeeps ==
  ASSUME TicketsInv, NEW h \in Handlers, RecordFailure(h)
  PROVE  TicketsInv'
<1> USE DEF TicketsInv
<1> DEFINE ip == handler[h].ip
<1>1. /\ UNCHANGED <<tickets, issued, admitted, open, gauge>> /\ present' = present
      /\ limiter' = [limiter EXCEPT ![ip] = AfterFailure(@)]
      /\ lately' = [lately EXCEPT ![ip] = Noted(ip)]
      /\ handler' = [handler EXCEPT ![h] = NoUpgrade]
  BY DEF RecordFailure, present
<1>2. ip \in IPs /\ limiter[ip] \in IPState
  BY DEF RecordFailure, TicketsTypeOK, NoUpgrade
<1>3. TicketsTypeOK'
  BY <1>1, <1>2, AfterFailureKeeps, NotedKeeps DEF TicketsTypeOK
<1>4. FailureAges'
  BY <1>1, <1>2, NotedKeeps DEF FailureAges, TicketsTypeOK
<1>5. \A g \in Handlers : Upgrading(g)' => Upgrading(g) /\ handler'[g] = handler[g]
  BY <1>1 DEF Upgrading, TicketsTypeOK, NoUpgrade
<1>6. OneUse'
  BY <1>1, <1>5 DEF OneUse
<1>7. Counted'
  BY <1>1 DEF Counted, GaugeIsExact
<1> QED
  BY <1>3, <1>4, <1>6, <1>7

\* The upgrade opens a connection that was not open, so the gauge counts it.
LEMMA UpgradeKeeps ==
  ASSUME TicketsInv, NEW h \in Handlers, Upgrade(h)
  PROVE  TicketsInv'
<1> USE DEF TicketsInv
<1> DEFINE t == handler[h].ticket
<1>1. /\ UNCHANGED <<tickets, issued, admitted, limiter, lately>> /\ present' = present
      /\ handler' = [handler EXCEPT ![h] = NoUpgrade]
      /\ Upgrading(h)
  BY DEF Upgrade, Upgrading, present
<1>2. t \in Tickets \ open /\ admitted[t] = 1
  BY <1>1 DEF OneUse
<1>3. \/ open' = open \cup {t} /\ gauge' = gauge + 1
      \/ open' = open /\ gauge' = gauge
  BY DEF Upgrade
<1>4. TicketsTypeOK'
  BY <1>1, <1>2, <1>3 DEF TicketsTypeOK
<1>5. \A g \in Handlers : Upgrading(g)' => Upgrading(g) /\ handler'[g] = handler[g] /\ g # h
  BY <1>1 DEF Upgrading, TicketsTypeOK, NoUpgrade
<1>6. OneUse'
  BY <1>1, <1>2, <1>3, <1>5 DEF OneUse
<1>7. Counted'
  BY <1>2, <1>3, FS_AddElement DEF Counted, GaugeIsExact
<1>8. FailureAges'
  BY <1>1 DEF FailureAges
<1> QED
  BY <1>4, <1>6, <1>7, <1>8

\* A connection ends.
LEMMA CloseKeeps ==
  ASSUME TicketsInv, NEW t \in Tickets, Close(t)
  PROVE  TicketsInv'
<1> USE DEF TicketsInv
<1>1. /\ UNCHANGED <<tickets, issued, admitted, limiter, lately, handler>> /\ present' = present
      /\ t \in open /\ open' = open \ {t} /\ gauge' = gauge - 1
  BY DEF Close, GaugeAfterClose, present
<1>2. Counted'
  BY <1>1, FS_RemoveElement DEF Counted, GaugeIsExact
<1>3. gauge' \in Nat
  BY <1>2, FS_CardinalityType DEF Counted, GaugeIsExact
<1>4. TicketsTypeOK'
  BY <1>1, <1>3 DEF TicketsTypeOK
<1>5. OneUse'
  BY <1>1 DEF OneUse, Upgrading
<1>6. FailureAges'
  BY <1>1 DEF FailureAges
<1> QED
  BY <1>2, <1>4, <1>5, <1>6

\* Time passes: a window and the failures in it grow older together.
LEMMA TickKeeps ==
  ASSUME TicketsInv, Tick
  PROVE  TicketsInv'
<1> USE DEF TicketsInv
<1>1. UNCHANGED <<issued, admitted, handler, open, gauge>> /\ present' = present
  BY DEF Tick, present
<1>2. \A i \in IPs : /\ limiter[i].count \in Nat /\ limiter[i].since \in 0..(Window + 1)
                     /\ limiter[i].block \in 0..Block
  BY DEF TicketsTypeOK, IPState
<1>3. \A i \in IPs :
        /\ limiter'[i].count = limiter[i].count
        /\ limiter'[i].since = IF limiter[i].since <= Window THEN limiter[i].since + 1 ELSE Window + 1
        /\ limiter'[i].block = IF limiter[i].block > 0 THEN limiter[i].block - 1 ELSE 0
  BY DEF Tick
<1>4. limiter' \in [IPs -> IPState]
  BY <1>2, TicketsAssumption DEF Tick, IPState
<1>5. tickets' \in [present' -> 0..(TTL + 1)]
  BY <1>1, TicketsAssumption DEF Tick, TicketsTypeOK
<1>6. TicketsTypeOK'
  <2>1. lately' \in [IPs -> [1..TooMany -> 0..(Window + 1)]]
    <3> SUFFICES ASSUME NEW i \in IPs, NEW k \in 1..TooMany
                 PROVE  (IF lately[i][k] <= Window THEN lately[i][k] + 1 ELSE Window + 1) \in 0..(Window + 1)
      BY DEF Tick
    <3>1. lately[i][k] \in 0..(Window + 1)
      BY DEF TicketsTypeOK
    <3> QED
      BY <3>1, TicketsAssumption
  <2> QED
    BY <1>1, <1>4, <1>5, <2>1 DEF TicketsTypeOK
<1>7. OneUse'
  BY <1>1 DEF OneUse, Upgrading
<1>8. FailureAges'
  <2> SUFFICES ASSUME NEW i \in IPs PROVE Ages(limiter'[i], lately'[i])
    BY DEF FailureAges
  <2>1. Ages(limiter[i], lately[i])
    BY DEF FailureAges
  <2>2. TooMany \in Nat /\ OneWindow \in Nat /\ (Limit > 1 => OneWindow = Limit - 1)
    BY TicketsAssumption DEF TooMany, OneWindow
  <2>3. \A k \in 1..TooMany : /\ lately[i][k] \in 0..(Window + 1)
                               /\ lately'[i][k] = IF lately[i][k] <= Window THEN lately[i][k] + 1 ELSE Window + 1
    BY DEF Tick, TicketsTypeOK
  <2>4. limiter'[i].count >= Limit => \A k \in 1..TooMany : lately'[i][k] > Window
    BY <1>2, <1>3, <2>1, <2>3, TicketsAssumption DEF Ages
  <2>5. limiter'[i].since > Window => \A k \in 1..TooMany : k >= OneWindow => lately'[i][k] > Window
    BY <1>2, <1>3, <2>1, <2>2, <2>3, TicketsAssumption DEF Ages
  <2>6. limiter'[i].since <= Window /\ limiter'[i].count < Limit =>
          /\ limiter'[i].count >= 1
          /\ \A k \in 1..TooMany : k >= limiter'[i].count => lately'[i][k] >= limiter'[i].since
          /\ \A k \in 1..TooMany : k >= limiter'[i].count + OneWindow => lately'[i][k] > Window
    BY <1>2, <1>3, <2>1, <2>2, <2>3, TicketsAssumption DEF Ages
  <2> QED
    BY <2>4, <2>5, <2>6 DEF Ages
<1>9. Counted'
  BY <1>1 DEF Counted, GaugeIsExact
<1> QED
  BY <1>6, <1>7, <1>8, <1>9

\* TicketsInv is inductive.
LEMMA TicketsInvNext == TicketsInv /\ [Next]_wsVars => TicketsInv'
<1> SUFFICES ASSUME TicketsInv, [Next]_wsVars PROVE TicketsInv'
  OBVIOUS
<1>1. CASE UNCHANGED wsVars
  BY <1>1 DEF wsVars, TicketsInv, TicketsTypeOK, OneUse, FailureAges, Counted, GaugeIsExact,
              present, Upgrading
<1> QED
  BY <1>1, StoreKeeps, BeginKeeps, ValidateKeeps, FailureKeeps, UpgradeKeeps, CloseKeeps, TickKeeps
  DEF Next

\* Every variable keeps its type; the gauge never goes below zero.
THEOREM TicketsTypeCorrect == Spec => []TicketsTypeOK
<1>1. TicketsInv => TicketsTypeOK
  BY DEF TicketsInv
<1> QED
  BY TicketsInvInit, TicketsInvNext, <1>1, PTL DEF Spec

\* A ticket is good for one connection, with any number of handlers racing for
\* the tickets and any pruner.
THEOREM TicketsWorkOnce == Spec => []AdmittedOnce
<1>1. TicketsInv => AdmittedOnce
  BY DEF TicketsInv, OneUse, AdmittedOnce
<1> QED
  BY TicketsInvInit, TicketsInvNext, <1>1, PTL DEF Spec

\* The gauge counts the connections, however upgrades and closes interleave:
\* no connection is counted twice, because no ticket opens two.
THEOREM GaugeCounts == Spec => []GaugeIsExact
<1>1. TicketsInv => GaugeIsExact
  BY DEF TicketsInv, Counted
<1> QED
  BY TicketsInvInit, TicketsInvNext, <1>1, PTL DEF Spec

\* The failures that an address can have in its last Window without a block are
\* bounded for every limit and window, however concurrent requests interleave.
THEOREM FailuresAreFew == Spec => []FewFailures
<1>1. TicketsInv => FewFailures
  <2> SUFFICES ASSUME TicketsInv, NEW i \in IPs PROVE lately[i][TooMany] > Window
    BY DEF FewFailures
  <2>1. Ages(limiter[i], lately[i]) /\ limiter[i].count \in Nat /\ limiter[i].since \in Nat
    BY DEF TicketsInv, FailureAges, TicketsTypeOK, IPState
  <2>2. /\ TooMany \in 1..TooMany /\ TooMany >= OneWindow
        /\ limiter[i].count \in 1..(Limit - 1) => TooMany >= limiter[i].count + OneWindow
    BY <2>1, TicketsAssumption DEF TooMany, OneWindow
  <2> QED
    BY <2>1, <2>2, TicketsAssumption DEF Ages
<1> QED
  BY TicketsInvInit, TicketsInvNext, <1>1, PTL DEF Spec

\* Late failures neither prolong nor shorten a block.
THEOREM BlocksRunTheirTime == Spec => BlockRunsItsTime
<1> DEFINE Keeps == \A i \in IPs : limiter[i].block > 0
                      => limiter'[i].block \in {limiter[i].block, limiter[i].block - 1}
<1>1. TicketsInv /\ [Next]_wsVars => [Keeps]_wsVars
  <2> SUFFICES ASSUME TicketsInv, Next PROVE Keeps
    OBVIOUS
  <2>1. CASE UNCHANGED limiter
    BY <2>1
  <2>2. CASE Tick
    BY <2>2 DEF Tick
  <2>3. CASE \E h \in Handlers : RecordFailure(h)
    BY <2>3, AfterFailureKeeps DEF RecordFailure, TicketsInv, TicketsTypeOK
  <2> QED
    BY <2>1, <2>2, <2>3 DEF Next, Issue, Close, BeginUpgrade, Validate, Upgrade, Prune
<1> QED
  BY TicketsInvInit, TicketsInvNext, <1>1, PTL DEF Spec, BlockRunsItsTime
==============================================================================
