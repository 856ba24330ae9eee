------------------------------ MODULE Dashboard ------------------------------
(***************************************************************************)
(* What an operator's page shows: POST /api/v1/results fans every new      *)
(* observation out to the UI WebSockets (broadcastResults in ui.go, WSHub  *)
(* in ws_hub.go), and the page polls the latency matrix (handleFragMatrix, *)
(* queryMatrix in probe_matrix.go).  Of the handler only the commit and    *)
(* what follows it for the UI are kept (module Ingest has the rest).  Node *)
(* and targets are active hubs, so their cells are part of the matrix.     *)
(***************************************************************************)
EXTENDS Naturals, FiniteSets, Sequences, Functions

CONSTANTS
  NULL,
  Runs,      \* probe runs of one node, numbered by their observed_at
  Targets,   \* the targets observed in each
  Conns,     \* requests the controller can be serving at a time
  Browsers,  \* operators' pages
  Buffer,    \* capacity of a uiClient's send channel
  MaxOld     \* bound on the runs that come to be older than five minutes

Observation == Runs \X Targets

\* A Broadcast: its message, and the clients it has not come to.
Cast == [event : Observation, left : SUBSET Browsers]

ASSUME DashboardAssumption ==
  /\ Runs \subseteq Nat /\ NULL \notin Runs /\ NULL \notin Cast
  /\ Buffer \in Nat \ {0} /\ MaxOld \in Nat

VARIABLES
  results,  \* table probe_results: (probe_run_id, target_id)
  serving,  \* the run each request broadcasts before it is answered, or NULL
  todo,     \* targets that the broadcastResults of a request has not come to
  casting,  \* the Broadcast of each request, from Lock to Unlock, or NULL
  clients,  \* WSHub.clients
  send,     \* the send channel of each client
  pump,     \* the connection of each page: its write pump
  missed,   \* history: what each client registered too late for or had no room for
  old,      \* runs observed more than five minutes ago
  page,     \* how far each page is, and whether its last poll failed
  pushed    \* history: the events written to the page's connection, in order

pageVars == <<old, page, pushed>>
hubVars  == <<casting, clients, send, pump, missed>>
vars     == <<results, serving, todo, hubVars, pageVars>>

DashboardTypeOK ==
  /\ results \subseteq Observation
  /\ serving \in [Conns -> Runs \cup {NULL}]
  /\ todo \in [Conns -> SUBSET Targets]
  /\ casting \in [Conns -> Cast \cup {NULL}]
  /\ clients \subseteq Browsers
  /\ \A b \in Browsers : Len(send[b]) <= Buffer /\ Range(send[b]) \subseteq Observation
  /\ pump \in [Browsers -> {"none", "running", "returned"}]
  /\ missed \in [Browsers -> SUBSET Observation]
  /\ old \subseteq Runs
  /\ page \in [Browsers -> {"new", "loaded", "open", "error"}]
  /\ \A b \in Browsers : Range(pushed[b]) \subseteq Observation

Init ==
  /\ results = {}
  /\ serving = [c \in Conns |-> NULL]
  /\ todo = [c \in Conns |-> {}]
  /\ casting = [c \in Conns |-> NULL]
  /\ clients = {}
  /\ send = [b \in Browsers |-> <<>>]
  /\ pump = [b \in Browsers |-> "none"]
  /\ old = {}
  /\ page = [b \in Browsers |-> "new"]
  /\ pushed = [b \in Browsers |-> <<>>]
  /\ missed = [b \in Browsers |-> {}]

------------------------------------------------------------------------------
(* The results handler.                                                    *)

\* Mutant: a replay is broadcast as well.
NewsOfAnyStatus(r) == Targets

\* The observations that handleResults broadcasts: those of a first write.
News(r) == IF \E t \in Targets : <<r, t>> \in results THEN {} ELSE Targets

\* A node posts a run, for the first time or again: the transaction, and the
\* status that decides whether broadcastResults is called.
Commit(c, r) ==
  /\ serving[c] = NULL
  /\ results' = results \cup ({r} \X Targets)
  /\ todo' = [todo EXCEPT ![c] = News(r)]
  /\ serving' = [serving EXCEPT ![c] = IF News(r) = {} THEN NULL ELSE r]
  /\ UNCHANGED <<hubVars, pageVars>>

\* Mutant: Broadcast shares the lock with another Broadcast.
Shared == TRUE

\* No Broadcast holds WSHub.mu.
Unlocked == \A c \in Conns : casting[c] = NULL

\* Broadcast takes the lock ...
Lock(c) ==
  /\ casting[c] = NULL /\ Unlocked
  /\ \E t \in todo[c] :
       /\ todo' = [todo EXCEPT ![c] = @ \ {t}]
       /\ casting' = [casting EXCEPT ![c] = [event |-> <<serving[c], t>>, left |-> clients]]
  /\ UNCHANGED <<results, serving, clients, send, pump, missed, pageVars>>

\* Mutant: off by one.
HasRoomForOneMore(b) == Len(send[b]) <= Buffer

\* c.send <- msg can go on: the channel holds Buffer messages.
HasRoom(b) == Len(send[b]) < Buffer

\* Mutant: the send blocks.
Blocks(b) == HasRoom(b)

\* The select has a default: a send never waits.
NeverBlocks(b) == TRUE

\* Mutant: the loop ends at the first client without room.
UpToTheFirstFull(c, b) == IF HasRoom(b) THEN casting[c].left \ {b} ELSE {}

\* The clients that Broadcast has not come to after b.
Remaining(c, b) == casting[c].left \ {b}

\* ... offers the event to every client, skipping those without room ...
Offer(c) ==
  /\ casting[c] # NULL
  /\ \E b \in casting[c].left :
       /\ NeverBlocks(b)
       /\ casting' = [casting EXCEPT ![c].left = Remaining(c, b)]
       /\ send' = [send EXCEPT ![b] = IF HasRoom(b) THEN Append(@, casting[c].event) ELSE @]
       /\ missed' = [missed EXCEPT ![b] = IF HasRoom(b) THEN @ ELSE @ \cup {casting[c].event}]
  /\ UNCHANGED <<results, serving, todo, clients, pump, pageVars>>

\* ... and lets go of it.  After the last observation the request is answered.
Unlock(c) ==
  /\ casting[c] # NULL /\ casting[c].left = {}
  /\ casting' = [casting EXCEPT ![c] = NULL]
  /\ serving' = [serving EXCEPT ![c] = IF todo[c] = {} THEN NULL ELSE @]
  /\ UNCHANGED <<results, todo, clients, send, pump, missed, pageVars>>

HandlerStep(c) == Lock(c) \/ Offer(c) \/ Unlock(c)

------------------------------------------------------------------------------
(* The matrix.                                                             *)

\* The rows of the last five minutes.
Recent == {o \in results : o[1] \notin old}

\* MAX(observed_at) has no declared type, so the driver returns it as a string, which
\* Scan cannot put into LastSeen, a time.Time: the query fails if it finds any row.
\* (Nor does a NULL, the AVG of probes that all failed, fit into AvgLatMS.)
Unscannable == Recent # {}

\* GET /ui/: the page with the matrix, or 500 and no page.
Load(b) ==
  /\ page[b] = "new" /\ ~Unscannable
  /\ page' = [page EXCEPT ![b] = "loaded"]
  /\ UNCHANGED <<results, serving, todo, hubVars, old, pushed>>

\* The page asks for the fragment every 30 seconds; htmx leaves the page as
\* it is when the answer is an error.
Poll(b) ==
  /\ page[b] \in {"open", "error"}
  /\ page' = [page EXCEPT ![b] = IF Unscannable THEN "error" ELSE "open"]
  /\ UNCHANGED <<results, serving, todo, hubVars, old, pushed>>

------------------------------------------------------------------------------
(* The WebSocket of a page, which its script opens once: serveUIClient.    *)

\* A row that a request has yet to broadcast.
Pending(o) == \E c \in Conns : serving[c] = o[1] /\ o[2] \in todo[c]

\* handleUIWS: register, or the upgrade fails.
Connect(b) ==
  /\ page[b] = "loaded" /\ Unlocked
  /\ page' = [page EXCEPT ![b] = "open"]
  /\ \/ /\ pump' = [pump EXCEPT ![b] = "running"]
        /\ clients' = clients \cup {b}
        /\ missed' = [missed EXCEPT ![b] = {o \in results : ~Pending(o)}]
     \/ UNCHANGED <<pump, clients, missed>>
  /\ UNCHANGED <<results, serving, todo, casting, send, old, pushed>>

\* The write pump forwards an event.
Forward(b) ==
  /\ pump[b] = "running" /\ send[b] # <<>>
  /\ send' = [send EXCEPT ![b] = Tail(@)]
  /\ pushed' = [pushed EXCEPT ![b] = Append(@, Head(send[b]))]
  /\ UNCHANGED <<results, serving, todo, casting, clients, pump, missed, old, page>>

\* It returns: an event or a ping cannot be written in time, or the read pump
\* has closed `done`.  The page may be gone, or go on without its events.
PumpReturns(b) ==
  /\ pump[b] = "running"
  /\ pump' = [pump EXCEPT ![b] = "returned"]
  /\ UNCHANGED <<results, serving, todo, casting, clients, send, missed, pageVars>>

\* Mutant: the client is left in the map.
KeptClients(b) == clients

\* delete(h.clients, c).
OtherClients(b) == clients \ {b}

\* The deferred unregister.
Unregister(b) ==
  /\ pump[b] = "returned" /\ Unlocked
  /\ pump' = [pump EXCEPT ![b] = "none"]
  /\ clients' = OtherClients(b)
  /\ send' = [send EXCEPT ![b] = <<>>]
  /\ UNCHANGED <<results, serving, todo, casting, missed, pageVars>>

------------------------------------------------------------------------------

\* Five minutes have passed since a run, which may still be in a spool.
Expire(r) ==
  /\ Cardinality(old) < MaxOld
  /\ r \notin old /\ \A q \in Runs : q < r => q \in old
  /\ old' = old \cup {r}
  /\ UNCHANGED <<results, serving, todo, hubVars, page, pushed>>

\* The controller dies and restarts; pages stay open.
Crash ==
  /\ serving' = [c \in Conns |-> NULL]
  /\ todo' = [c \in Conns |-> {}]
  /\ casting' = [c \in Conns |-> NULL]
  /\ clients' = {}
  /\ send' = [b \in Browsers |-> <<>>]
  /\ pump' = [b \in Browsers |-> "none"]
  /\ UNCHANGED <<results, missed, pageVars>>

PageStep(b) == \/ Load(b) \/ Poll(b) \/ Connect(b) \/ Forward(b)
               \/ PumpReturns(b) \/ Unregister(b)

Next ==
  \/ \E c \in Conns : (\E r \in Runs : Commit(c, r)) \/ HandlerStep(c)
  \/ \E b \in Browsers : PageStep(b)
  \/ \E r \in Runs : Expire(r)
  \/ Crash

Spec == Init /\ [][Next]_vars

\* Handlers run, and sync.Mutex does not starve one that waits for it;
\* serveUIClient comes to its end.
Fairness ==
  /\ \A c \in Conns : SF_vars(HandlerStep(c))
  /\ \A b \in Browsers : SF_vars(Connect(b) \/ Unregister(b))

FairSpec == Spec /\ Fairness

------------------------------------------------------------------------------
(* Properties.                                                             *)

Deliveries(b) == pushed[b] \o send[b]

\* What a page is sent is news: an observation that is stored, and each at
\* most once, however often its run is posted: the broadcast follows the
\* commit and only a 201 leads to one (results.go:73-79, 118-120).
EventsAreNews ==
  \A b \in Browsers : /\ Range(Deliveries(b)) \subseteq results
                      /\ Cardinality(Range(Deliveries(b))) = Len(Deliveries(b))

\* Two pages are sent what both are sent in the same order, whatever each of
\* them misses (ws_hub.go:49-58).
SameOrder ==
  \A a, b \in Browsers :
    LET A == Deliveries(a)
        B == Deliveries(b)
    IN \A i, j \in DOMAIN A, k, l \in DOMAIN B :
         i < j /\ A[i] = B[k] /\ A[j] = B[l] => k < l

\* A page that stalls, disappears or is slow to say goodbye keeps no results
\* request from being answered (ws_hub.go:53-56 under the lock).
RequestsFinish == \A c \in Conns : []<>(serving[c] = NULL)

\* A client misses only what was broadcast before it registered and what its own
\* channel had no room for: every other stored observation was sent to it, is
\* being broadcast and will come to it, or is in a request still to be answered.
\* What other clients have no room for, and replays, take nothing from it
\* (ws_hub.go:49-58, ui.go:206-224).
OnlyFullChannelsMiss ==
  \A b \in clients : \A o \in results \ missed[b] :
    \/ o \in Range(Deliveries(b))
    \/ Pending(o)
    \/ \E c \in Conns : casting[c] # NULL /\ casting[c].event = o /\ b \in casting[c].left

\* The hub forgets a connection that has ended, although Broadcast may be
\* filling its buffer and taking the lock (ws_hub.go:41-45, 60-64).
ClientsLeave == \A b \in Browsers : []<>(b \in clients => pump[b] = "running")

\* ws_hub.go:47-48 "Slow clients are skipped (non-blocking send); they'll catch up
\* via htmx polling": a poll is answered with the matrix.
PollsAreAnswered == \A b \in Browsers : page[b] # "error"
==============================================================================
