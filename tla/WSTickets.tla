------------------------------ MODULE WSTickets ------------------------------
(***************************************************************************)
(* Opening a WebSocket: handleWSTicket and handleWS (ws.go) with the       *)
(* ticket store and the failure limiter (internal/ticket).  Both guard     *)
(* their maps by a mutex, so a call is one step, and concurrent handlers   *)
(* interleave between calls.  Times are kept as ages, capped where no      *)
(* comparison can tell them apart.                                         *)
(***************************************************************************)
EXTENDS Integers, FiniteSets

CONSTANTS
  Tickets,   \* ticket values; each is drawn at most once (256 random bits)
  IPs,       \* client addresses
  Handlers,  \* upgrade requests that can be in progress at a time
  TTL,       \* DefaultTTL, in ticks
  Window,    \* DefaultWindow, in ticks
  Block,     \* DefaultBlockDuration, in ticks
  Limit,     \* NLM_WS_TICKET_RATE_LIMIT
  None

ASSUME TicketsAssumption ==
  /\ TTL \in Nat \ {0} /\ Window \in Nat \ {0} /\ Block \in Nat \ {0} /\ Limit \in Nat \ {0}
  /\ None \notin Tickets \cup IPs

VARIABLES
  tickets,   \* Store.tickets: the age of each ticket present
  issued,    \* history: the tickets ever issued
  admitted,  \* history: how often each ticket was accepted
  limiter,   \* RateLimiter.failures
  lately,    \* history: how long ago each address last failed, see Noted
  handler,   \* the upgrade requests in progress
  open,      \* connections that serveWS is serving
  gauge      \* ActiveWebSocketConnections

wsVars == <<tickets, issued, admitted, limiter, lately, handler, open, gauge>>

present == DOMAIN tickets

\* An address without an entry is one whose window has long passed:
\* RecordFailure treats the two alike.
IPState   == [count : Nat, since : 0..(Window + 1), block : 0..Block]
NoEntry   == [count |-> 0, since |-> Window + 1, block |-> 0]
NoUpgrade == [at |-> "idle", ip |-> None, ticket |-> None]

\* The first number of failures that no address has in its last Window, see FewFailures.
TooMany    == IF Limit = 1 THEN 1 ELSE 2 * Limit - 2
NoFailures == [k \in 1..TooMany |-> Window + 1]

TicketsTypeOK ==
  /\ present \subseteq issued /\ issued \subseteq Tickets
  /\ tickets \in [present -> 0..(TTL + 1)]
  /\ admitted \in [Tickets -> Nat]
  /\ limiter \in [IPs -> IPState]
  /\ lately \in [IPs -> [1..TooMany -> 0..(Window + 1)]]
  /\ handler \in [Handlers -> {NoUpgrade} \cup
       [at : {"validate", "fail", "upgrade"}, ip : IPs, ticket : Tickets \cup {None}]]
  /\ open \subseteq Tickets
  /\ gauge \in Nat

Init ==
  /\ tickets = [t \in {} |-> 0]
  /\ issued = {}
  /\ admitted = [t \in Tickets |-> 0]
  /\ limiter = [i \in IPs |-> NoEntry]
  /\ lately = [i \in IPs |-> NoFailures]
  /\ handler = [h \in Handlers |-> NoUpgrade]
  /\ open = {}
  /\ gauge = 0

------------------------------------------------------------------------------

\* handleWSTicket: Issue.
Issue(t) ==
  /\ t \notin issued
  /\ issued' = issued \cup {t}
  /\ tickets' = [s \in present \cup {t} |-> IF s = t THEN 0 ELSE tickets[s]]
  /\ UNCHANGED <<admitted, limiter, lately, handler, open, gauge>>

Blocked(i) == limiter[i].block > 0

\* handleWS as far as its tests: a blocked address gets a 429, which changes nothing.
\* The request carries a ticket that was issued, or none that ever was.
BeginUpgrade(h, i, t) ==
  /\ handler[h].at = "idle"
  /\ ~Blocked(i)
  /\ t \in issued \cup {None}
  /\ handler' = [handler EXCEPT ![h] = [at |-> "validate", ip |-> i, ticket |-> t]]
  /\ UNCHANGED <<tickets, issued, admitted, limiter, lately, open, gauge>>

\* Mutant: a valid ticket is left for Prune to remove.
DeletesExpired(t) == IF t \in present /\ tickets[t] <= TTL THEN present ELSE present \ {t}

\* What Validate leaves in the store.
Deletes(t) == present \ {t}

\* Validate: look up, delete, compare with the expiry.
Validate(h) ==
  LET t == handler[h].ticket
      good == t \in present /\ tickets[t] <= TTL
  IN
  /\ handler[h].at = "validate"
  /\ tickets' = [s \in Deletes(t) |-> tickets[s]]
  /\ admitted' = IF good THEN [admitted EXCEPT ![t] = @ + 1] ELSE admitted
  /\ handler' = [handler EXCEPT ![h].at = IF good THEN "upgrade" ELSE "fail"]
  /\ UNCHANGED <<issued, limiter, lately, open, gauge>>

\* Mutant: a failure inside a block prolongs it.
AfterFailureInBlock(st) ==
  LET n == IF st.since > Window THEN 1 ELSE st.count + 1
  IN  [count |-> n,
       since |-> IF st.since > Window THEN 0 ELSE st.since,
       block |-> IF n >= Limit THEN st.block + Block ELSE st.block]

\* Mutant: the limit is passed, not reached.
AfterFailureOffByOne(st) ==
  LET n == IF st.since > Window THEN 1 ELSE st.count + 1
  IN  IF st.block > 0 THEN st
      ELSE [count |-> n,
            since |-> IF st.since > Window THEN 0 ELSE st.since,
            block |-> IF n > Limit THEN Block ELSE 0]

\* RecordFailure: nothing inside a block; a new window if the old one is over.
AfterFailure(st) ==
  LET n == IF st.since > Window THEN 1 ELSE st.count + 1
  IN  IF st.block > 0 THEN st
      ELSE [count |-> n,
            since |-> IF st.since > Window THEN 0 ELSE st.since,
            block |-> IF n >= Limit THEN Block ELSE 0]

\* The ages of the failures of address i, the latest first, after one more in this
\* step: those of a block are left out, and one that starts a block begins anew.
Noted(i) ==
  IF limiter[i].block > 0 THEN lately[i]
  ELSE IF limiter'[i].block > 0 THEN NoFailures
  ELSE [k \in 1..TooMany |-> IF k = 1 THEN 0 ELSE lately[i][k - 1]]

\* wsRejectAndCount.
RecordFailure(h) ==
  /\ handler[h].at = "fail"
  /\ limiter' = [limiter EXCEPT ![handler[h].ip] = AfterFailure(@)]
  /\ lately' = [lately EXCEPT ![handler[h].ip] = Noted(handler[h].ip)]
  /\ handler' = [handler EXCEPT ![h] = NoUpgrade]
  /\ UNCHANGED <<tickets, issued, admitted, open, gauge>>

\* Mutant: the gauge is not decremented when the hello cannot be written.
CloseEarly == gauge' \in {gauge, gauge - 1}

\* The deferred function of serveWS runs on every way out.
GaugeAfterClose == gauge' = gauge - 1

\* The upgrade succeeds and serveWS starts, or it fails (origin, client gone).
Upgrade(h) ==
  /\ handler[h].at = "upgrade"
  /\ \/ open' = open \cup {handler[h].ticket} /\ gauge' = gauge + 1
     \/ UNCHANGED <<open, gauge>>
  /\ handler' = [handler EXCEPT ![h] = NoUpgrade]
  /\ UNCHANGED <<tickets, issued, admitted, limiter, lately>>

\* serveWS returns: read error, missing pong, or a failed write.
Close(t) ==
  /\ t \in open
  /\ open' = open \ {t}
  /\ GaugeAfterClose
  /\ UNCHANGED <<tickets, issued, admitted, limiter, lately, handler>>

\* Mutant: Prune keeps what is expired.
PrunedTheWrongWay == {t \in present : tickets[t] > TTL}

\* What Prune keeps.
Unexpired == {t \in present : tickets[t] <= TTL}

\* A turn of RunPruner.
Prune ==
  /\ tickets' = [t \in Unexpired |-> tickets[t]]
  /\ UNCHANGED <<issued, admitted, limiter, lately, handler, open, gauge>>

Tick ==
  /\ tickets' = [t \in present |-> IF tickets[t] <= TTL THEN tickets[t] + 1 ELSE TTL + 1]
  /\ limiter' = [i \in IPs |->
       [count |-> limiter[i].count,
        since |-> IF limiter[i].since <= Window THEN limiter[i].since + 1 ELSE Window + 1,
        block |-> IF limiter[i].block > 0 THEN limiter[i].block - 1 ELSE 0]]
  /\ lately' = [i \in IPs |-> [k \in 1..TooMany |->
       IF lately[i][k] <= Window THEN lately[i][k] + 1 ELSE Window + 1]]
  /\ UNCHANGED <<issued, admitted, handler, open, gauge>>

Next ==
  \/ \E t \in Tickets : Issue(t) \/ Close(t)
  \/ \E h \in Handlers :
       \/ \E i \in IPs, t \in Tickets \cup {None} : BeginUpgrade(h, i, t)
       \/ Validate(h) \/ RecordFailure(h) \/ Upgrade(h)
  \/ Prune \/ Tick

Spec == Init /\ [][Next]_wsVars

\* Time passes and the pruner's ticker fires.
FairSpec == Spec /\ WF_wsVars(Tick) /\ WF_wsVars(Prune)

------------------------------------------------------------------------------
(* Properties.                                                             *)

\* However many requests present a ticket at once, and whatever the pruner
\* does meanwhile, it is accepted at most once (store.go:90-104).
AdmittedOnce == \A t \in Tickets : admitted[t] <= 1

\* A block runs its full time: failures of requests that passed Blocked before
\* it began neither prolong nor shorten it (ratelimit.go:82-85).
BlockRunsItsTime ==
  [][\A i \in IPs : limiter[i].block > 0 => limiter'[i].block \in {limiter[i].block, limiter[i].block - 1}]_wsVars

\* An address is blocked before its failures of the last Window, since its last
\* block if it had one, number 2 * Limit - 2, also when they come from concurrent
\* requests (ratelimit.go:72-99).  Lines 11 and 17 promise a rolling window, in
\* which Limit of them would do.  The code counts in windows that start with a
\* failure, so Limit - 1 failures at the end of one window and Limit - 2 more early
\* in the next go unblocked.  For a Limit of 2 the two are the same.
FewFailures == \A i \in IPs : Blocked(i) \/ lately[i][TooMany] > Window

\* ActiveWebSocketConnections is the number of connections being served: each
\* way out of serveWS undoes the increment of handleWS (ws.go:97-109).
GaugeIsExact == gauge = Cardinality(open)

\* Every ticket leaves the store, used or not (store.go:106-137).
TicketsLeave == \A t \in Tickets : t \in present ~> t \notin present
==============================================================================
