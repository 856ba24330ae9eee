----------------------------- MODULE NodeRegistry ----------------------------
(***************************************************************************)
(* The controller's nodes table and targets_version (NodeStore, nodes.go)  *)
(* under the operators' requests (admin.go, and the form handlers of       *)
(* ui.go).  A request is a sequence of statements on the one database      *)
(* connection, so the requests of different Admins interleave between      *)
(* statements.  A request that is refused changes nothing and is no step.  *)
(***************************************************************************)
EXTENDS Integers, FiniteSets

CONSTANTS
  Nodes,        \* node ids
  Addresses,    \* the non-empty addresses
  Secrets,      \* bearer secrets, standing for their hashes
  Admins,       \* operators' requests that can be in progress at a time
  MaxRequests,  \* bound on the requests of a behaviour
  DBErrors,     \* whether statements may fail
  None          \* no address, no row, no request

ASSUME RegistryAssumption ==
  /\ MaxRequests \in Nat
  /\ DBErrors \in BOOLEAN
  /\ None \notin Addresses

VARIABLES
  nodes,     \* table nodes: the registered ones, with their columns
  version,   \* controller_meta.targets_version
  req,       \* the request each operator has in progress
  requests   \* how many there have been

registryVars == <<nodes, version, req, requests>>

\* RoleListener is treated as RoleSpoke wherever a role is looked at.
Role == {"hub", "spoke"}
Node == [role : Role, address : Addresses \cup {None}, disabled : BOOLEAN, secret : Secrets]

\* A request in progress: the statement it is at, the node it is for, the row
\* it means to write, the row it read before writing, and whether it sets the
\* secret.
NoRequest == [at |-> "idle", id |-> None, next |-> None, prior |-> None, rotates |-> FALSE]
Request ==
  {NoRequest}
    \cup [at : {"prior"}, id : Nodes, next : Node, prior : {None}, rotates : BOOLEAN]
    \cup [at : {"write"}, id : Nodes, next : Node, prior : Node \cup {None}, rotates : BOOLEAN]
    \cup [at : {"delete"}, id : Nodes, next : {None}, prior : Node, rotates : {FALSE}]
    \cup [at : {"bump"}, id : Nodes, next : Node \cup {None}, prior : Node \cup {None},
          rotates : BOOLEAN]

registered == DOMAIN nodes

RegistryTypeOK ==
  /\ registered \subseteq Nodes
  /\ nodes \in [registered -> Node]
  /\ version \in Nat \ {0}
  /\ req \in [Admins -> Request]
  /\ requests \in 0..MaxRequests

\* The hubs an agent may be told to probe, with their addresses.
Active(row) == row # None /\ row.role = "hub" /\ ~row.disabled /\ row.address # None
ActiveHubs == {<<n, nodes[n].address>> : n \in {m \in registered : Active(nodes[m])}}

\* validateAdminNodeFields: a hub needs an address.
Valid(row) == row.role = "hub" => row.address # None

\* The table of the first migration, or one in which an earlier request has
\* registered a node, enabled and with an address, and bumped if it is a hub.
RegistryInit ==
  /\ \/ nodes = [n \in {} |-> None] /\ version = 1
     \/ \E n \in Nodes, row \in Node :
          /\ row.address # None /\ ~row.disabled
          /\ nodes = [m \in {n} |-> row]
          /\ version = IF Active(row) THEN 2 ELSE 1
  /\ req = [a \in Admins |-> NoRequest]
  /\ requests = 0

------------------------------------------------------------------------------

Begin(a, r) ==
  /\ req[a].at = "idle"
  /\ requests < MaxRequests
  /\ requests' = requests + 1
  /\ req' = [req EXCEPT ![a] = r]
  /\ UNCHANGED <<nodes, version>>

Submit(a, n, row, rotates) ==
  Begin(a, [at |-> "prior", id |-> n, next |-> row, prior |-> None, rotates |-> rotates])

\* handleAdminCreateNode as far as the test that the id is free.
Create(a) ==
  \E n \in Nodes \ registered, row \in Node : Valid(row) /\ Submit(a, n, row, TRUE)

\* handleFragCreateNode: no such test, and the node is enabled.
CreateFromForm(a) ==
  \E n \in Nodes, row \in Node : Valid(row) /\ ~row.disabled /\ Submit(a, n, row, TRUE)

\* handleAdminPatchNode reads the row and sets any of the columns of its copy.
Patch(a) ==
  \E n \in registered, row \in Node :
    Valid(row) /\ Submit(a, n, row, row.secret # nodes[n].secret)

\* patchDisabled: as a patch of one column, without validation.
PatchDisabled(a) ==
  \E n \in registered, disable \in BOOLEAN :
    Submit(a, n, [nodes[n] EXCEPT !.disabled = disable], FALSE)

Lookup(n) == IF n \in registered THEN nodes[n] ELSE None

\* The Get at the start of Upsert.
UpsertRead(a) ==
  /\ req[a].at = "prior"
  /\ req' = [req EXCEPT ![a].at = "write", ![a].prior = Lookup(req[a].id)]
  /\ UNCHANGED <<nodes, version, requests>>

\* Mutant: a row that was missing counts as active.
MissingIsActive(prior, next) == (prior = None \/ Active(prior)) # Active(next)

hubSetChanged(prior, next) ==
  \/ Active(prior) # Active(next)
  \/ Active(prior) /\ Active(next) /\ prior.address # next.address

Finish(a, bump) == req' = [req EXCEPT ![a] = IF bump THEN [@ EXCEPT !.at = "bump"] ELSE NoRequest]

\* Mutant: only the columns that differ from the row read before are set.
ChangedColumns(r) ==
  LET now == Lookup(r.id)
      was == r.prior
  IN  IF now = None \/ was = None THEN r.next
      ELSE [c \in DOMAIN now |-> IF r.next[c] # was[c] THEN r.next[c] ELSE now[c]]

\* The row that ON CONFLICT DO UPDATE leaves: all the columns are set.
Written(r) == r.next

\* INSERT ... ON CONFLICT DO UPDATE.
UpsertWrite(a) ==
  LET r == req[a] IN
  /\ r.at = "write"
  /\ nodes' = [n \in registered \cup {r.id} |-> IF n = r.id THEN Written(r) ELSE nodes[n]]
  /\ Finish(a, hubSetChanged(r.prior, r.next))
  /\ UNCHANGED <<version, requests>>

\* Delete reads the row first ...
DeleteRead(a) ==
  \E n \in registered :
    Begin(a, [at |-> "delete", id |-> n, next |-> None, prior |-> nodes[n],
              rotates |-> FALSE])

\* ... and then deletes it, if it is still there.
DeleteWrite(a) ==
  LET r == req[a] IN
  /\ r.at = "delete"
  /\ nodes' = [n \in registered \ {r.id} |-> nodes[n]]
  /\ Finish(a, r.id \in registered /\ r.prior.role = "hub" /\ ~r.prior.disabled)
  /\ UNCHANGED <<version, requests>>

\* bumpTargetsVersion, in a statement of its own.
Bump(a) ==
  /\ req[a].at = "bump"
  /\ version' = version + 1
  /\ req' = [req EXCEPT ![a] = NoRequest]
  /\ UNCHANGED <<nodes, requests>>

\* A statement fails (a foreign key keeps a node with results from being
\* deleted; the client's context ends), or the controller dies.  The error
\* of a bump is ignored.
Abort(a) ==
  /\ DBErrors
  /\ req[a].at # "idle"
  /\ req' = [req EXCEPT ![a] = NoRequest]
  /\ UNCHANGED <<nodes, version, requests>>

AdminStep(a) ==
  \/ Create(a) \/ CreateFromForm(a) \/ Patch(a) \/ PatchDisabled(a) \/ DeleteRead(a)
  \/ UpsertRead(a) \/ UpsertWrite(a) \/ DeleteWrite(a) \/ Bump(a) \/ Abort(a)

RegistryNext == \E a \in Admins : AdminStep(a)

RegistrySpec == RegistryInit /\ [][RegistryNext]_registryVars

------------------------------------------------------------------------------
(* Properties.                                                             *)

\* Every hub in the table has an address, so that HubTargetsFor never leaves
\* out an enabled hub: also when requests that each set some columns of a row
\* they read earlier overwrite one another (admin.go:174-191, ui.go:156-162).
HubsHaveAddresses == \A n \in registered : nodes[n].role = "hub" => nodes[n].address # None

\* nodes.go:194 "Bumps targets_version when the effective hub-target set
\* changes": a write that changes the active hubs goes on to the bump, unless
\* the row it compares with, read by an earlier statement, has been changed
\* in between (nodes.go:102-122, 198-230).
ChangeIsBumped ==
  [][\A a \in Admins :
       /\ req[a].at \in {"write", "delete"} /\ req'[a] # req[a]
       /\ req[a].prior = Lookup(req[a].id)
       /\ ActiveHubs' # ActiveHubs
       => req'[a].at = "bump"]_registryVars

\* admin.go:77 "the operator can rotate the secret by passing a new "secret"
\* string (or "" to keep the existing one)": a patch without a secret leaves
\* the node's secret as it is.
PatchKeepsSecret ==
  [][\A a \in Admins, n \in registered :
       req[a].at = "write" /\ req'[a].at # "write" /\ req[a].id = n /\ ~req[a].rotates
         => n \in registered' /\ nodes'[n].secret = nodes[n].secret]_registryVars
==============================================================================
