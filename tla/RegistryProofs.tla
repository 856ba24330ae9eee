--------------------------- MODULE RegistryProofs ----------------------------
(***************************************************************************)
(* NodeRegistry for any number of nodes, addresses and secrets and any     *)
(* number of operators' requests in progress, alone and beside an agent    *)
(* that fetches its targets from it (TargetSync).                          *)
(***************************************************************************)
EXTENDS TargetSync, TLAPS

\* What is in the table, and what a request is about to write, is valid.
RowsValid ==
  /\ \A n \in registered : Valid(nodes[n])
  /\ \A a \in Admins : req[a].at \in {"prior", "write"} => Valid(req[a].next)

RegistryInv == RegistryTypeOK /\ RowsValid

\* The statement a request is at tells the kind of record it is.
LEMMA RequestShape ==
  ASSUME NEW r \in Request
  PROVE  /\ r.at = "prior" =>
              r \in [at : {"prior"}, id : Nodes, next : Node, prior : {None}, rotates : BOOLEAN]
         /\ r.at = "write" =>
              r \in [at : {"write"}, id : Nodes, next : Node, prior : Node \cup {None},
                     rotates : BOOLEAN]
         /\ r.at = "delete" =>
              r \in [at : {"delete"}, id : Nodes, next : {None}, prior : Node, rotates : {FALSE}]
<1>1. CASE r = NoRequest
  BY <1>1 DEF NoRequest
<1>2. CASE r \in [at : {"prior"}, id : Nodes, next : Node, prior : {None}, rotates : BOOLEAN]
  <2>1. r.at = "prior"
    BY <1>2
  <2> QED
    BY <1>2, <2>1
<1>3. CASE r \in [at : {"write"}, id : Nodes, next : Node, prior : Node \cup {None},
                  rotates : BOOLEAN]
  <2>1. r.at = "write"
    BY <1>3
  <2> QED
    BY <1>3, <2>1
<1>4. CASE r \in [at : {"delete"}, id : Nodes, next : {None}, prior : Node, rotates : {FALSE}]
  <2>1. r.at = "delete"
    BY <1>4
  <2> QED
    BY <1>4, <2>1
<1>5. CASE r \in [at : {"bump"}, id : Nodes, next : Node \cup {None}, prior : Node \cup {None},
                  rotates : BOOLEAN]
  <2>1. r.at = "bump"
    BY <1>5
  <2> QED
    BY <2>1
<1> QED
  BY <1>1, <1>2, <1>3, <1>4, <1>5 DEF Request

\* At most one row, which has an address, and no request.
LEMMA RegistryInvInit == RegistryInit => RegistryInv
<1> SUFFICES ASSUME RegistryInit PROVE RegistryInv
  OBVIOUS
<1>1. registered \subseteq Nodes /\ \A n \in registered : nodes[n] \in Node /\ nodes[n].address # None
  <2>1. CASE nodes = [n \in {} |-> None]
    BY <2>1 DEF registered
  <2>2. CASE \E n \in Nodes, row \in Node : row.address # None /\ nodes = [m \in {n} |-> row]
    BY <2>2 DEF registered
  <2> QED
    BY <2>1, <2>2 DEF RegistryInit
<1>2. nodes = [n \in registered |-> nodes[n]] /\ version \in Nat \ {0}
  <2>1. CASE nodes = [n \in {} |-> None] /\ version = 1
    BY <2>1 DEF registered
  <2>2. ASSUME NEW n \in Nodes, NEW row \in Node, nodes = [m \in {n} |-> row],
               version = IF Active(row) THEN 2 ELSE 1
        PROVE  nodes = [m \in registered |-> nodes[m]] /\ version \in Nat \ {0}
    BY <2>2 DEF registered
  <2> QED
    BY <2>1, <2>2, Zenon DEF RegistryInit
<1>3. \A n \in registered : Valid(nodes[n])
  BY <1>1 DEF Valid
<1> QED
  BY <1>1, <1>2, <1>3, RegistryAssumption
  DEF RegistryInit, RegistryInv, RegistryTypeOK, RowsValid, Request, NoRequest

\* A new request for a valid row, or a DELETE, keeps the invariant.
LEMMA BeginKeeps ==
  ASSUME RegistryInv, NEW a \in Admins, NEW r \in Request, Begin(a, r),
         r.at \in {"prior", "write"} => Valid(r.next)
  PROVE  RegistryInv'
<1>1. nodes' = nodes /\ version' = version /\ registered' = registered
  BY DEF Begin, registered
<1>2. req' = [req EXCEPT ![a] = r] /\ requests' \in 0..MaxRequests
  BY RegistryAssumption DEF Begin, RegistryInv, RegistryTypeOK
<1>3. RegistryTypeOK'
  BY <1>1, <1>2 DEF RegistryInv, RegistryTypeOK
<1>4. RowsValid'
  BY <1>1, <1>2 DEF RegistryInv, RegistryTypeOK, RowsValid, Valid
<1> QED
  BY <1>3, <1>4 DEF RegistryInv

\* Every statement of every request keeps the invariant: what a handler writes
\* has passed validateAdminNodeFields or is a valid row with another
\* disabled_at, whatever other requests did since it was read.
LEMMA AdminStepKeeps ==
  ASSUME RegistryInv, NEW a \in Admins, AdminStep(a)
  PROVE  RegistryInv'
<1> RegistryTypeOK /\ RowsValid
  BY DEF RegistryInv
<1>1. ASSUME NEW n \in Nodes, NEW row \in Node, NEW rotates \in BOOLEAN, Valid(row),
             Submit(a, n, row, rotates)
      PROVE  RegistryInv'
  <2> DEFINE r == [at |-> "prior", id |-> n, next |-> row, prior |-> None, rotates |-> rotates]
  <2>1. r \in Request
    BY DEF Request
  <2> QED
    BY <1>1, <2>1, BeginKeeps DEF Submit
<1>2. CASE Create(a) \/ CreateFromForm(a)
  BY <1>1, <1>2 DEF Create, CreateFromForm
<1>3. CASE Patch(a)
  <2>1. PICK n \in registered, row \in Node :
          Valid(row) /\ Submit(a, n, row, row.secret # nodes[n].secret)
    BY <1>3 DEF Patch
  <2>2. n \in Nodes /\ (row.secret # nodes[n].secret) \in BOOLEAN
    BY DEF RegistryTypeOK
  <2> QED
    BY <1>1, <2>1, <2>2
<1>4. CASE PatchDisabled(a)
  <2>1. PICK n \in registered, disable \in BOOLEAN :
          Submit(a, n, [nodes[n] EXCEPT !.disabled = disable], FALSE)
    BY <1>4 DEF PatchDisabled
  <2>2. nodes[n] \in Node /\ Valid(nodes[n]) /\ n \in Nodes
    BY DEF RegistryTypeOK, RowsValid
  <2>3. [nodes[n] EXCEPT !.disabled = disable] \in Node
    BY <2>2 DEF Node
  <2>4. Valid([nodes[n] EXCEPT !.disabled = disable])
    BY <2>2 DEF Valid, Node
  <2> QED
    BY <1>1, <2>1, <2>2, <2>3, <2>4
<1>5. CASE DeleteRead(a)
  <2>1. PICK n \in registered :
          Begin(a, [at |-> "delete", id |-> n, next |-> None, prior |-> nodes[n], rotates |-> FALSE])
    BY <1>5 DEF DeleteRead
  <2>2. [at |-> "delete", id |-> n, next |-> None, prior |-> nodes[n], rotates |-> FALSE] \in Request
    BY DEF RegistryTypeOK, Request
  <2> QED
    BY <2>1, <2>2, BeginKeeps
<1>6. CASE UpsertRead(a)
  <2>1. req[a].at = "prior" /\ req[a] \in Request /\ Lookup(req[a].id) \in Node \cup {None}
    BY <1>6 DEF UpsertRead, Lookup, RegistryTypeOK
  <2>2. req[a] \in [at : {"prior"}, id : Nodes, next : Node, prior : {None}, rotates : BOOLEAN]
    BY <2>1, RequestShape
  <2>3. [req[a] EXCEPT !.at = "write", !.prior = Lookup(req[a].id)]
          \in [at : {"write"}, id : Nodes, next : Node, prior : Node \cup {None}, rotates : BOOLEAN]
    BY <2>1, <2>2
  <2>4. [req[a] EXCEPT !.at = "write", !.prior = Lookup(req[a].id)] \in Request
    BY <2>3 DEF Request
  <2>5. req' = [req EXCEPT ![a] = [req[a] EXCEPT !.at = "write", !.prior = Lookup(req[a].id)]]
    BY <1>6 DEF UpsertRead, RegistryTypeOK
  <2>6. req'[a].next = req[a].next
    BY <2>1, <2>5 DEF RegistryTypeOK, Request, NoRequest
  <2>7. RegistryTypeOK'
    BY <1>6, <2>4, <2>5 DEF UpsertRead, RegistryTypeOK, registered
  <2>8. RowsValid'
    BY <1>6, <2>1, <2>5, <2>6 DEF UpsertRead, RowsValid, RegistryTypeOK, registered, Valid
  <2> QED
    BY <2>7, <2>8 DEF RegistryInv
<1>7. ASSUME NEW bump \in BOOLEAN, Finish(a, bump), req[a].at \in {"write", "delete"}
      PROVE  /\ req' \in [Admins -> Request]
             /\ \A b \in Admins : req'[b].at \in {"prior", "write"} => req'[b] = req[b]
  <2>1. CASE bump
    <3>1. req' = [req EXCEPT ![a] = [req[a] EXCEPT !.at = "bump"]]
      BY <1>7, <2>1 DEF Finish, RegistryTypeOK
    <3>2. req[a] \in [at : {"write", "delete"}, id : Nodes, next : Node \cup {None},
                      prior : Node \cup {None}, rotates : BOOLEAN]
      <4>1. req[a] \in Request
        BY DEF RegistryTypeOK
      <4> QED
        BY <1>7, <4>1, RequestShape
    <3>3. [req[a] EXCEPT !.at = "bump"]
            \in [at : {"bump"}, id : Nodes, next : Node \cup {None},
                 prior : Node \cup {None}, rotates : BOOLEAN]
      BY <3>2
    <3>4. [req[a] EXCEPT !.at = "bump"] \in Request /\ [req[a] EXCEPT !.at = "bump"].at = "bump"
      BY <3>3 DEF Request
    <3> QED
      BY <3>1, <3>4 DEF RegistryTypeOK
  <2>2. CASE ~bump
    BY <1>7, <2>2 DEF Finish, RegistryTypeOK, Request, NoRequest
  <2> QED
    BY <2>1, <2>2
<1>8. CASE UpsertWrite(a)
  <2>0. req[a].at = "write" /\ req[a] \in Request
    BY <1>8 DEF UpsertWrite, Written, RegistryTypeOK
  <2>1. req[a].next \in Node /\ req[a].id \in Nodes /\ Valid(req[a].next)
    BY <2>0, RequestShape DEF RowsValid
  <2>2. registered' = registered \cup {req[a].id}
    BY <1>8 DEF UpsertWrite, Written, registered
  <2>3. \A n \in registered' : nodes'[n] = IF n = req[a].id THEN req[a].next ELSE nodes[n]
    BY <1>8, <2>2 DEF UpsertWrite, Written
  <2>4. nodes' \in [registered' -> Node]
    BY <1>8, <2>1, <2>2 DEF UpsertWrite, Written, RegistryTypeOK
  <2>5. hubSetChanged(req[a].prior, req[a].next) \in BOOLEAN
    BY DEF hubSetChanged
  <2>6. /\ req' \in [Admins -> Request]
        /\ \A b \in Admins : req'[b].at \in {"prior", "write"} => req'[b] = req[b]
    BY <1>7, <1>8, <2>5 DEF UpsertWrite, Written
  <2>7. RegistryTypeOK'
    BY <1>8, <2>1, <2>2, <2>4, <2>6 DEF UpsertWrite, Written, RegistryTypeOK
  <2>8. RowsValid'
    BY <2>1, <2>2, <2>3, <2>6 DEF RowsValid, Valid
  <2> QED
    BY <2>7, <2>8 DEF RegistryInv
<1>9. CASE DeleteWrite(a)
  <2>1. registered' = registered \ {req[a].id} /\ nodes' \in [registered' -> Node]
    BY <1>9 DEF DeleteWrite, registered, RegistryTypeOK
  <2>2. \A n \in registered' : nodes'[n] = nodes[n]
    BY <1>9, <2>1 DEF DeleteWrite
  <2>3. /\ req' \in [Admins -> Request]
        /\ \A b \in Admins : req'[b].at \in {"prior", "write"} => req'[b] = req[b]
    BY <1>7, <1>9 DEF DeleteWrite
  <2>4. RegistryTypeOK'
    BY <1>9, <2>1, <2>3 DEF DeleteWrite, RegistryTypeOK
  <2>5. RowsValid'
    BY <2>1, <2>2, <2>3 DEF RowsValid, Valid
  <2> QED
    BY <2>4, <2>5 DEF RegistryInv
<1>10. CASE Bump(a) \/ Abort(a)
  <2>1. /\ nodes' = nodes /\ requests' = requests /\ version' \in Nat \ {0}
        /\ req' = [req EXCEPT ![a] = NoRequest]
    BY <1>10 DEF Bump, Abort, RegistryTypeOK
  <2>2. NoRequest \in Request /\ NoRequest.at = "idle"
    BY DEF Request, NoRequest
  <2> QED
    BY <2>1, <2>2 DEF RegistryInv, RegistryTypeOK, RowsValid, registered, Valid
<1> QED
  BY <1>2, <1>3, <1>4, <1>5, <1>6, <1>8, <1>9, <1>10 DEF AdminStep

\* RegistryInv is inductive.
LEMMA RegistryInvNext == RegistryInv /\ [RegistryNext]_registryVars => RegistryInv'
<1> SUFFICES ASSUME RegistryInv, [RegistryNext]_registryVars PROVE RegistryInv'
  OBVIOUS
<1>1. CASE UNCHANGED registryVars
  BY <1>1 DEF registryVars, RegistryInv, RegistryTypeOK, RowsValid, registered, Valid
<1> QED
  BY <1>1, AdminStepKeeps DEF RegistryNext

\* Every hub has an address however many operators create, patch, enable,
\* disable and delete nodes at the same time.
THEOREM HubsAreAddressed == RegistrySpec => []HubsHaveAddresses
<1>1. RegistryInv => HubsHaveAddresses
  BY DEF RegistryInv, RowsValid, Valid, HubsHaveAddresses
<1> QED
  BY RegistryInvInit, RegistryInvNext, <1>1, PTL DEF RegistrySpec

\* The active hubs stay the same when only the row of one node changes, and
\* that one is as active as before, at the same address.
LEMMA SameHubs ==
  ASSUME NEW id,
         \A n : n # id => (n \in registered' <=> n \in registered),
         \A n \in registered : n # id => nodes'[n] = nodes[n],
         (id \in registered' /\ Active(nodes'[id])) <=> (id \in registered /\ Active(nodes[id])),
         id \in registered /\ Active(nodes[id]) => nodes'[id].address = nodes[id].address
  PROVE  ActiveHubs' = ActiveHubs
<1> DEFINE Hub(n) == n \in registered /\ Active(nodes[n])
<1>1. ASSUME NEW n PROVE (Hub(n)' <=> Hub(n)) /\ (Hub(n) => nodes'[n].address = nodes[n].address)
  <2>1. CASE n = id
    BY <2>1, Zenon
  <2>2. CASE n # id
    <3>1. (n \in registered' <=> n \in registered) /\ (n \in registered => nodes'[n] = nodes[n])
      BY <2>2
    <3> QED
      BY <3>1 DEF Active
  <2> QED
    BY <2>1, <2>2
<1>2. \A h : h \in ActiveHubs <=> \E n : Hub(n) /\ h = <<n, nodes[n].address>>
  BY DEF ActiveHubs
<1>3. \A h : h \in ActiveHubs' <=> \E n : Hub(n)' /\ h = <<n, nodes'[n].address>>
  BY DEF ActiveHubs, Active
<1> HIDE DEF Hub
<1>4. \A h : h \in ActiveHubs' <=> h \in ActiveHubs
  BY <1>1, <1>2, <1>3
<1> QED
  BY <1>4 DEF ActiveHubs

\* hubSetChanged, and the test in Delete, miss no change of the active hubs:
\* a write that compares with the row it replaces goes on to the bump whenever
\* it changes them.
LEMMA WriteIsBumped ==
  ASSUME RegistryInv, NEW a \in Admins, NEW b \in Admins, AdminStep(b),
         req[a].at \in {"write", "delete"}, req'[a] # req[a],
         req[a].prior = Lookup(req[a].id), ActiveHubs' # ActiveHubs
  PROVE  req'[a].at = "bump"
<1> DEFINE id == req[a].id
           prior == req[a].prior
<1>1. req \in [Admins -> Request] /\ req[a] \in Request
  BY DEF RegistryInv, RegistryTypeOK
<1>2. ASSUME nodes' = nodes PROVE FALSE
  BY <1>2 DEF ActiveHubs, registered, Active
<1>3. UpsertWrite(b) \/ DeleteWrite(b)
  BY <1>2 DEF AdminStep, Create, CreateFromForm, Patch, PatchDisabled, Submit, Begin,
              DeleteRead, UpsertRead, Bump, Abort
<1>4. a = b
  BY <1>1, <1>3 DEF UpsertWrite, Written, DeleteWrite, Finish
<1>5. /\ id \in registered => prior = nodes[id]
      /\ id \notin registered => prior = None
  BY DEF Lookup
<1>6. ASSUME NEW bump \in BOOLEAN, Finish(a, bump), bump PROVE req'[a].at = "bump"
  <2>1. req'[a] = [req[a] EXCEPT !.at = "bump"]
    BY <1>1, <1>6 DEF Finish
  <2>2. req[a] \in [at : {"write", "delete"}, id : Nodes, next : Node \cup {None},
                    prior : Node \cup {None}, rotates : BOOLEAN]
    BY <1>1, RequestShape
  <2> QED
    BY <2>1, <2>2
<1>7. CASE UpsertWrite(a)
  <2>1. /\ registered' = registered \cup {id}
        /\ \A n \in registered' : nodes'[n] = IF n = id THEN req[a].next ELSE nodes[n]
    BY <1>7 DEF UpsertWrite, Written, registered
  <2>2. ASSUME ~hubSetChanged(prior, req[a].next) PROVE FALSE
    <3>1. Active(prior) <=> Active(req[a].next)
      BY <2>2 DEF hubSetChanged, Active
    <3>2. Active(prior) => prior.address = req[a].next.address
      BY <2>2, <3>1 DEF hubSetChanged
    <3>3. (id \in registered' /\ Active(nodes'[id])) <=> (id \in registered /\ Active(nodes[id]))
      BY <1>5, <2>1, <3>1 DEF Active
    <3>4. id \in registered /\ Active(nodes[id]) => nodes'[id].address = nodes[id].address
      BY <1>5, <2>1, <3>2
    <3> QED
      BY <2>1, <3>3, <3>4, SameHubs
  <2>3. hubSetChanged(prior, req[a].next) \in BOOLEAN /\ Finish(a, hubSetChanged(prior, req[a].next))
    BY <1>7 DEF UpsertWrite, Written, hubSetChanged
  <2> QED
    BY <1>6, <2>2, <2>3
<1>8. CASE DeleteWrite(a)
  <2> DEFINE bump == id \in registered /\ prior.role = "hub" /\ ~prior.disabled
  <2>1. /\ registered' = registered \ {id}
        /\ \A n \in registered' : nodes'[n] = nodes[n]
    BY <1>8 DEF DeleteWrite, registered
  <2>2. ASSUME ~bump PROVE FALSE
    <3>1. ~(id \in registered /\ Active(nodes[id]))
      BY <1>5, <2>2 DEF Active
    <3> QED
      BY <2>1, <3>1, SameHubs
  <2>3. bump \in BOOLEAN /\ Finish(a, bump)
    BY <1>8 DEF DeleteWrite
  <2> QED
    BY <1>6, <2>2, <2>3
<1> QED
  BY <1>3, <1>4, <1>7, <1>8

\* No change of the active hubs goes without its bump on account of what is
\* compared, with any number of operators at work: only a row that another
\* request has changed since it was read, or a failing statement, loses one.
THEOREM ChangesAreBumped == RegistrySpec => ChangeIsBumped
<1> DEFINE Bumped ==
      \A a \in Admins :
        /\ req[a].at \in {"write", "delete"} /\ req'[a] # req[a]
        /\ req[a].prior = Lookup(req[a].id)
        /\ ActiveHubs' # ActiveHubs
        => req'[a].at = "bump"
<1>1. RegistryInv /\ [RegistryNext]_registryVars => [Bumped]_registryVars
  BY WriteIsBumped DEF RegistryNext
<1> QED
  BY RegistryInvInit, RegistryInvNext, <1>1, PTL DEF RegistrySpec, ChangeIsBumped

------------------------------------------------------------------------------
(* An agent beside the registry.                                           *)

\* The agent only reads the registry.
LEMMA AgentReads == AgentStep \/ Age \/ Restart => UNCHANGED registryVars
BY DEF AgentStep, Age, Restart, StartCycle, FetchRows, FetchVersion, FetchStore, FetchFails,
       Probe, PostAccepted, NoticeVersion, EndCycle

\* The registry behaves beside an agent as it does alone, so what is proved of
\* it holds there.
THEOREM RegistryInside == Spec => RegistrySpec
<1>1. Init => RegistryInit
  BY DEF Init
<1>2. [Next]_vars => [RegistryNext]_registryVars
  BY AgentReads DEF Next, vars, registryVars
<1> QED
  BY <1>1, <1>2, PTL DEF Spec, RegistrySpec

\* Every hub has an address, and a change of the active hubs is bumped.
COROLLARY RegistryBesideAgent == Spec => []HubsHaveAddresses /\ ChangeIsBumped
BY RegistryInside, HubsAreAddressed, ChangesAreBumped, PTL

\* A list of targets names nodes and addresses: an active hub has an address.
LEMMA TargetsAreHubs ==
  ASSUME RegistryInv
  PROVE  TargetsOf(Self) \in Hubs
<1>1. ASSUME NEW n \in registered, Active(nodes[n]) PROVE <<n, nodes[n].address>> \in Nodes \X Addresses
  <2>1. n \in Nodes /\ nodes[n] \in Node
    BY DEF RegistryInv, RegistryTypeOK
  <2>2. nodes[n].address \in Addresses
    BY <1>1, <2>1 DEF Node, Active
  <2> QED
    BY <2>1, <2>2
<1>2. ActiveHubs \subseteq Nodes \X Addresses
  BY <1>1 DEF ActiveHubs
<1> QED
  BY <1>2 DEF TargetsOf, Hubs

\* The types of the agent's part.
AgentTypeOK ==
  /\ cache \in [targets : Hubs, known : Nat, expected : Nat, fetched : BOOLEAN]
  /\ aged \in BOOLEAN
  /\ agent \in {"idle", "fetch", "version", "store", "probe", "post", "notice"}
  /\ answer \in [targets : Hubs, version : Nat]
  /\ restarts \in 0..MaxRestarts
  /\ origin \in Origin /\ reading \in Origin

\* A step of the registry leaves the version a list was read at, and only adds
\* to what was not told.
LEMMA SinceFacts ==
  ASSUME NEW o \in Origin
  PROVE  /\ Since(o) \in Origin /\ Since(o).version = o.version
         /\ o.untold => Since(o).untold
         /\ o # NoOrigin /\ Untold => Since(o).untold
<1>1. CASE o # NoOrigin /\ Untold
  <2>1. Since(o) = [o EXCEPT !.untold = TRUE]
    BY <1>1 DEF Since
  <2>2. [o EXCEPT !.untold = TRUE] \in Origin
    BY DEF Origin
  <2>3. [o EXCEPT !.untold = TRUE].version = o.version
    BY DEF Origin
  <2>4. [o EXCEPT !.untold = TRUE].untold
    BY Zenon DEF Origin
  <2> QED
    BY <2>1, <2>2, <2>3, <2>4, Zenon
<1>2. CASE ~(o # NoOrigin /\ Untold)
  <2>1. Since(o) = o
    BY <1>2 DEF Since
  <2> QED
    BY <1>2, <2>1, Zenon
<1> QED
  BY <1>1, <1>2

AgentInv == RegistryInv /\ AgentTypeOK

\* The records the agent starts from have their types.
LEMMA AgentConstants ==
  /\ EmptyCache \in [targets : Hubs, known : Nat, expected : Nat, fetched : BOOLEAN]
  /\ NoAnswer \in [targets : Hubs, version : Nat] /\ NoOrigin \in Origin
BY DEF EmptyCache, NoAnswer, Hubs, NoOrigin, Origin

\* An agent with an empty cache, beside an empty registry.
LEMMA AgentInvInit == Init => AgentInv
<1> SUFFICES ASSUME Init PROVE AgentInv
  OBVIOUS
<1>1. RegistryInv
  BY RegistryInvInit DEF Init
<1>2. aged \in BOOLEAN
  BY Zenon DEF Init
<1>3. cache = EmptyCache /\ agent = "idle" /\ answer = NoAnswer /\ restarts = 0
      /\ origin = NoOrigin /\ reading = NoOrigin
  BY DEF Init
<1> QED
  BY AgentConstants, <1>1, <1>2, <1>3, SyncAssumption DEF AgentTypeOK, AgentInv

\* The agent's part keeps its types: what it is given by the registry has them.
LEMMA AgentInvNext == AgentInv /\ [Next]_vars => AgentInv'
<1> SUFFICES ASSUME RegistryInv, AgentTypeOK, [Next]_vars PROVE AgentInv'
  BY DEF AgentInv
<1>1. RegistryInv'
  BY RegistryInvNext, AgentReads DEF Next, vars, registryVars
<1>2. version \in Nat
  BY DEF RegistryInv, RegistryTypeOK
<1>3. ASSUME Meanwhile \/ UNCHANGED <<syncVars, history>> PROVE AgentTypeOK'
  <2>1. origin' \in Origin /\ reading' \in Origin
    BY <1>3, SinceFacts DEF Meanwhile, history, AgentTypeOK
  <2> QED
    BY <1>3, <2>1 DEF Meanwhile, syncVars, AgentTypeOK
<1>4. ASSUME StartCycle \/ Probe \/ FetchFails \/ EndCycle PROVE AgentTypeOK'
  BY AgentConstants, <1>4 DEF StartCycle, Probe, FetchFails, EndCycle, Move, history, AgentTypeOK
<1>5. ASSUME FetchRows PROVE AgentTypeOK'
  BY <1>2, <1>5, TargetsAreHubs DEF FetchRows, Move, Origin, AgentTypeOK
<1>6. ASSUME FetchVersion \/ PostAccepted PROVE AgentTypeOK'
  BY <1>2, <1>6 DEF FetchVersion, PostAccepted, Move, history, AgentTypeOK
<1>7. ASSUME FetchStore PROVE AgentTypeOK'
  BY AgentConstants, <1>7 DEF FetchStore, Move, AgentTypeOK
<1>8. ASSUME NoticeVersion PROVE AgentTypeOK'
  BY AgentConstants, <1>8 DEF NoticeVersion, Move, history, AgentTypeOK
<1>9. ASSUME Age \/ Restart PROVE AgentTypeOK'
  <2>1. aged' \in BOOLEAN
    BY <1>9, Zenon DEF Age, Restart
  <2>2. CASE Age
    BY <2>1, <2>2 DEF Age, history, AgentTypeOK
  <2>3. CASE Restart
    <3>1. cache' = EmptyCache /\ agent' = "idle" /\ answer' = NoAnswer
          /\ origin' = NoOrigin /\ reading' = NoOrigin
      BY <2>3 DEF Restart
    <3>2. restarts' \in 0..MaxRestarts
      BY <2>3, SyncAssumption DEF Restart, AgentTypeOK
    <3> QED
      BY AgentConstants, <2>1, <3>1, <3>2 DEF AgentTypeOK
  <2> QED
    BY <1>9, <2>2, <2>3
<1>10. AgentTypeOK'
  BY <1>3, <1>4, <1>5, <1>6, <1>7, <1>8, <1>9 DEF Next, AgentStep, vars
<1> QED
  BY <1>1, <1>10 DEF AgentInv

\* Whatever the agent fetched, noticed or failed to fetch, its list names nodes
\* by id and address, and the registry keeps its types beside it.
THEOREM SyncTypeCorrect == Spec => []SyncTypeOK
<1>1. AgentInv => SyncTypeOK
  BY DEF AgentInv, RegistryInv, AgentTypeOK, SyncTypeOK
<1> QED
  BY <1>1, AgentInvInit, AgentInvNext, PTL DEF Spec

------------------------------------------------------------------------------
(* What a list of targets is worth.                                        *)

\* A bump is on its way.
BumpPending == \E a \in Admins : req[a].at = "bump"

\* The list is right, or there is a reason why it is not.
Reason(list, o) == list = TargetsOf(Self) \/ o.version < version \/ BumpPending \/ o.untold

\* Where the rows of a list came from.
ReadBefore(o) == o # NoOrigin /\ o.version <= version

\* Both the cached list and the one on its way to the agent have a reason.
ListInv ==
  /\ cache.fetched => ReadBefore(origin) /\ Reason(cache.targets, origin)
  /\ agent \in {"version", "store"} => ReadBefore(reading) /\ Reason(answer.targets, reading)

\* A write of a request, or its end, in the terms of Untold.
LEMMA RegistryStepFacts ==
  ASSUME RegistryInv, NEW b \in Admins, AdminStep(b)
  PROVE  /\ version' \in Nat /\ version <= version'
         /\ nodes' # nodes => req[b].at \in {"write", "delete"} /\ req'[b] # req[b]
         /\ \A a \in Admins : req[a].at = "bump" /\ req'[a].at # "bump"
                                => version < version' \/ Untold
<1>0. version \in Nat /\ req \in [Admins -> Request]
  BY DEF RegistryInv, RegistryTypeOK
<1>1. CASE Bump(b)
  BY <1>0, <1>1 DEF Bump
<1>2. CASE Abort(b)
  <2>1. ASSUME NEW a \in Admins, req[a].at = "bump", req'[a].at # "bump" PROVE Untold
    BY <1>2, <2>1 DEF Abort, Untold
  <2> QED
    BY <1>0, <1>2, <2>1 DEF Abort
<1>3. ASSUME NEW to, req' = [req EXCEPT ![b] = to], req[b].at # "bump", version' = version,
             nodes' # nodes => req[b].at \in {"write", "delete"} /\ to.at \in {"bump", "idle"}
      PROVE  /\ version' \in Nat /\ version <= version'
             /\ nodes' # nodes => req[b].at \in {"write", "delete"} /\ req'[b] # req[b]
             /\ \A a \in Admins : ~(req[a].at = "bump" /\ req'[a].at # "bump")
  BY <1>0, <1>3
<1>4. CASE UpsertWrite(b) \/ DeleteWrite(b)
  <2>1. PICK bump \in BOOLEAN : Finish(b, bump)
    BY <1>4 DEF UpsertWrite, Written, DeleteWrite, hubSetChanged
  <2> DEFINE to == IF bump THEN [req[b] EXCEPT !.at = "bump"] ELSE NoRequest
  <2>2. req' = [req EXCEPT ![b] = to]
    BY <1>0, <2>1 DEF Finish
  <2>3. req[b].at \in {"write", "delete"} /\ version' = version
    BY <1>4 DEF UpsertWrite, Written, DeleteWrite
  <2>4. to.at \in {"bump", "idle"}
    <3>1. req[b] \in [at : {"write", "delete"}, id : Nodes, next : Node \cup {None},
                      prior : Node \cup {None}, rotates : BOOLEAN]
      <4>1. req[b] \in Request
        BY <1>0
      <4> QED
        BY <2>3, <4>1, RequestShape
    <3> QED
      BY <3>1 DEF NoRequest
  <2> HIDE DEF to
  <2> QED
    BY <1>3, <2>2, <2>3, <2>4
<1>5. CASE UpsertRead(b)
  <2>1. /\ req' = [req EXCEPT ![b] = [req[b] EXCEPT !.at = "write", !.prior = Lookup(req[b].id)]]
        /\ req[b].at # "bump" /\ version' = version /\ nodes' = nodes
    BY <1>0, <1>5 DEF UpsertRead
  <2> QED
    BY <1>3, <2>1
<1>6. ASSUME NEW r, Begin(b, r)
      PROVE  /\ version' \in Nat /\ version <= version'
             /\ nodes' # nodes => req[b].at \in {"write", "delete"} /\ req'[b] # req[b]
             /\ \A a \in Admins : ~(req[a].at = "bump" /\ req'[a].at # "bump")
  BY <1>3, <1>6 DEF Begin
<1>7. CASE Create(b) \/ CreateFromForm(b) \/ Patch(b) \/ PatchDisabled(b) \/ DeleteRead(b)
  BY <1>6, <1>7 DEF Create, CreateFromForm, Patch, PatchDisabled, DeleteRead, Submit
<1> QED
  BY <1>1, <1>2, <1>4, <1>5, <1>7 DEF AdminStep

\* No step of the registry makes a list wrong without a reason: a change of the
\* active hubs is followed by a bump or is one that may go untold, and a bump
\* that is not made is untold as well.
LEMMA RegistryReasons ==
  ASSUME RegistryInv, RegistryNext, NEW list, NEW o \in Origin, ReadBefore(o), Reason(list, o)
  PROVE  /\ Since(o) # NoOrigin /\ Since(o).version <= version'
         /\ \/ list = TargetsOf(Self)' \/ Since(o).version < version'
            \/ BumpPending' \/ Since(o).untold
<1>0. PICK b \in Admins : AdminStep(b)
  BY DEF RegistryNext
<1>1. /\ version \in Nat /\ version' \in Nat /\ version <= version'
      /\ nodes' # nodes => req[b].at \in {"write", "delete"} /\ req'[b] # req[b]
      /\ \A a \in Admins : req[a].at = "bump" /\ req'[a].at # "bump" => version < version' \/ Untold
  BY <1>0, RegistryStepFacts DEF RegistryInv, RegistryTypeOK
<1>2. /\ Since(o) \in Origin /\ Since(o).version = o.version
      /\ o.untold => Since(o).untold
      /\ Untold => Since(o).untold
  BY SinceFacts, Zenon DEF ReadBefore
<1>3. o.version \in Nat /\ o.version <= version
  BY DEF ReadBefore, Origin
<1>4. Since(o) # NoOrigin
  <2>1. CASE Untold
    BY <2>1, Zenon DEF Since, ReadBefore, Origin, NoOrigin
  <2>2. CASE ~Untold
    BY <2>2 DEF Since, ReadBefore
  <2> QED
    BY <2>1, <2>2
<1> DEFINE Told == \/ list = TargetsOf(Self)' \/ Since(o).version < version'
                   \/ BumpPending' \/ Since(o).untold
<1>5. ASSUME o.version < version PROVE Told
  BY <1>1, <1>2, <1>3, <1>5
<1>6. ASSUME o.untold PROVE Told
  BY <1>2, <1>6, Zenon
<1>7. ASSUME BumpPending PROVE Told
  <2>1. PICK a \in Admins : req[a].at = "bump"
    BY <1>7 DEF BumpPending
  <2>2. CASE req'[a].at = "bump"
    BY <2>2 DEF BumpPending
  <2>3. CASE req'[a].at # "bump"
    <3>1. version < version' \/ Untold
      BY <1>1, <2>1, <2>3
    <3>2. ASSUME version < version' PROVE Told
      BY <1>1, <1>2, <1>3, <3>2
    <3> QED
      BY <1>2, <3>1, <3>2
  <2> QED
    BY <2>2, <2>3
<1>8. ASSUME list = TargetsOf(Self) PROVE Told
  <2>1. CASE ActiveHubs' = ActiveHubs
    BY <1>8, <2>1 DEF TargetsOf
  <2>2. CASE ActiveHubs' # ActiveHubs
    <3>1. nodes' # nodes
      BY <2>2 DEF ActiveHubs, registered, Active
    <3>2. CASE req[b].prior = Lookup(req[b].id)
      BY <1>0, <1>1, <2>2, <3>1, <3>2, WriteIsBumped DEF BumpPending
    <3>3. CASE req[b].prior # Lookup(req[b].id)
      <4>1. Untold
        BY <1>1, <3>1, <3>3 DEF Untold
      <4> QED
        BY <1>2, <4>1
    <3> QED
      BY <3>2, <3>3
  <2> QED
    BY <2>1, <2>2
<1>9. Told
  BY <1>5, <1>6, <1>7, <1>8 DEF Reason
<1>10. Since(o).version <= version'
  BY <1>1, <1>2, <1>3
<1> QED
  BY <1>4, <1>9, <1>10

\* Every step keeps ListInv: a fetch reads the hubs as they are, and its result
\* becomes the cached list together with what is known of its origin.
LEMMA ListNext ==
  ASSUME RegistryInv, AgentTypeOK, ListInv, [Next]_vars
  PROVE  ListInv'
<1>0. version \in Nat \ {0} /\ origin \in Origin /\ reading \in Origin
  BY DEF RegistryInv, RegistryTypeOK, AgentTypeOK
<1>1. ASSUME RegistryNext, Meanwhile PROVE ListInv'
  <2>1. UNCHANGED <<cache, agent, answer>> /\ origin' = Since(origin) /\ reading' = Since(reading)
    BY <1>1 DEF Meanwhile, syncVars
  <2>2. cache.fetched => ReadBefore(origin)' /\ Reason(cache.targets, origin)'
    BY <1>0, <1>1, <2>1, RegistryReasons, Zenon DEF ListInv, ReadBefore, Reason
  <2>3. agent \in {"version", "store"} => ReadBefore(reading)' /\ Reason(answer.targets, reading)'
    BY <1>0, <1>1, <2>1, RegistryReasons, Zenon DEF ListInv, ReadBefore, Reason
  <2> QED
    BY <2>1, <2>2, <2>3 DEF ListInv
<1>2. ASSUME AgentStep \/ Age \/ Restart PROVE version' = version /\ TargetsOf(Self)' = TargetsOf(Self)
                                               /\ BumpPending' = BumpPending
  BY <1>2, AgentReads DEF registryVars, TargetsOf, ActiveHubs, registered, Active, BumpPending
<1>3. ASSUME FetchRows PROVE ListInv'
  <2>1. /\ agent' = "version" /\ cache' = cache /\ origin' = origin
        /\ answer'.targets = TargetsOf(Self)
        /\ reading' = [version |-> version, untold |-> FALSE]
    BY <1>3 DEF FetchRows, Move
  <2>2. ReadBefore(reading)'
    BY <1>0, <1>2, <1>3, <2>1 DEF AgentStep, ReadBefore, NoOrigin
  <2>3. Reason(answer.targets, reading)'
    BY <1>2, <1>3, <2>1 DEF AgentStep, Reason
  <2>4. cache'.fetched => ReadBefore(origin)' /\ Reason(cache.targets, origin)'
    BY <1>2, <1>3, <2>1, Zenon DEF AgentStep, ListInv, ReadBefore, Reason
  <2> QED
    BY <2>2, <2>3, <2>4 DEF ListInv
<1>4. ASSUME FetchStore PROVE ListInv'
  <2>1. /\ agent = "store" /\ agent' = "probe" /\ origin' = reading
        /\ cache'.targets = answer.targets
    BY <1>4 DEF FetchStore, Move
  <2> QED
    BY <1>2, <1>4, <2>1, Zenon DEF AgentStep, ListInv, ReadBefore, Reason
<1>5. ASSUME AgentStep \/ Age \/ Restart,
             cache'.fetched => cache.fetched /\ cache'.targets = cache.targets /\ origin' = origin,
             agent' \in {"version", "store"}
               => /\ agent \in {"version", "store"} /\ reading' = reading
                  /\ answer'.targets = answer.targets
      PROVE  ListInv'
  BY <1>2, <1>5, Zenon DEF ListInv, ReadBefore, Reason
<1>6. ASSUME StartCycle \/ FetchFails \/ Probe \/ PostAccepted \/ EndCycle \/ Age PROVE ListInv'
  <2>1. UNCHANGED <<cache, origin>>
    BY <1>6 DEF StartCycle, FetchFails, Probe, PostAccepted, EndCycle, Age, history
  <2>2. agent' \in {"version", "store"}
          => agent \in {"version", "store"} /\ reading' = reading /\ answer' = answer
    BY <1>6 DEF StartCycle, FetchFails, Probe, PostAccepted, EndCycle, Age, Move, history
  <2> QED
    BY <1>5, <1>6, <2>1, <2>2, Zenon DEF AgentStep
<1>7. ASSUME FetchVersion PROVE ListInv'
  <2>1. UNCHANGED <<cache, origin, reading>> /\ agent = "version"
    BY <1>7 DEF FetchVersion, Move, history
  <2>2. answer'.targets = answer.targets
    BY <1>7 DEF FetchVersion, AgentTypeOK
  <2> QED
    BY <1>5, <1>7, <2>1, <2>2, Zenon DEF AgentStep
<1>8. ASSUME NoticeVersion PROVE ListInv'
  <2>1. cache'.fetched => cache.fetched /\ cache'.targets = cache.targets /\ origin' = origin
    <3>1. CASE cache' = cache
      BY <1>8, <3>1 DEF NoticeVersion, history
    <3>2. CASE cache' = [cache EXCEPT !.expected = answer.version]
      <4>1. cache'.fetched = cache.fetched /\ cache'.targets = cache.targets
        BY <3>2 DEF AgentTypeOK
      <4> QED
        BY <1>8, <4>1 DEF NoticeVersion, history
    <3> QED
      BY <1>8, <3>1, <3>2 DEF NoticeVersion
  <2>2. agent' = "post"
    BY <1>8 DEF NoticeVersion, Move
  <2> QED
    BY <1>5, <1>8, <2>1, <2>2 DEF AgentStep
<1>9. ASSUME Restart PROVE ListInv'
  <2>1. ~cache'.fetched /\ agent' = "idle"
    BY <1>9, Zenon DEF Restart, EmptyCache
  <2> QED
    BY <2>1 DEF ListInv
<1>10. ASSUME UNCHANGED vars PROVE ListInv'
  BY <1>10 DEF vars, syncVars, history, registryVars, ListInv, ReadBefore, Reason, BumpPending,
               TargetsOf, ActiveHubs, registered, Active
<1> QED
  BY <1>1, <1>3, <1>4, <1>6, <1>7, <1>8, <1>9, <1>10 DEF Next, AgentStep

\* Whenever an agent's list is not the set of active hubs, another version can
\* be noticed, version and rows were read apart, a bump is on its way, or a
\* change went untold: for any number of operators, whatever fails.  In all
\* other cases an agent that knows the current version has the current hubs,
\* as the echo of targets_version supposes (results.go:118-132, nodes.go:165-230).
THEOREM StaleListsHaveReasons == Spec => []StaleListHasReason
<1>1. Init => ListInv
  <2> SUFFICES ASSUME Init PROVE ListInv
    OBVIOUS
  <2>1. ~cache.fetched /\ agent = "idle"
    BY Zenon DEF Init, EmptyCache
  <2> QED
    BY <2>1 DEF ListInv
<1>2. AgentInv /\ ListInv /\ [Next]_vars => ListInv'
  BY ListNext DEF AgentInv
<1>3. AgentInv /\ ListInv => StaleListHasReason
  <2> SUFFICES ASSUME AgentInv, ListInv, cache.fetched, cache.targets # TargetsOf(Self),
                      cache.known = version, origin.version = cache.known,
                      ~BumpPending, ~origin.untold
               PROVE  FALSE
    BY DEF StaleListHasReason, BumpPending
  <2>1. version \in Nat
    BY DEF AgentInv, RegistryInv, RegistryTypeOK
  <2>2. ~(origin.version < version)
    BY <2>1
  <2> QED
    BY <2>2 DEF ListInv, Reason
<1> QED
  BY <1>1, <1>2, <1>3, AgentInvInit, AgentInvNext, PTL DEF Spec
==============================================================================
