------------------------------ MODULE TargetSync -----------------------------
(***************************************************************************)
(* How an agent learns which hubs to probe: TargetCache                    *)
(* (internal/agent/targets.go) refreshes from GET /api/v1/targets          *)
(* (handleTargets and HubTargetsFor) when it is old or when the answer to  *)
(* a results POST (handleResults, notifyVersion) told it of another        *)
(* targets_version.  One agent process, over the registry.                 *)
(***************************************************************************)
EXTENDS NodeRegistry

CONSTANTS
  Self,         \* the agent's node id
  MaxRestarts   \* bound on restarts of the agent in a behaviour

ASSUME SyncAssumption == MaxRestarts \in Nat

VARIABLES
  cache,     \* TargetCache: targets, knownVersion, expectedNotice, fetched
  aged,      \* maxAge has passed since lastFetched
  agent,     \* where the process is in its cycle
  answer,    \* what the controller has read for the answer in progress
  restarts,
  origin,    \* history: of the rows that became the cached list, targets_version
             \* when they were read and whether a change went untold since
  reading    \* history: the same, of the rows read for the answer in progress

syncVars == <<cache, aged, agent, answer, restarts>>
history  == <<origin, reading>>
vars     == <<registryVars, syncVars, history>>

EmptyCache == [targets |-> {}, known |-> 0, expected |-> 0, fetched |-> FALSE]
NoAnswer   == [targets |-> {}, version |-> 0]
NoOrigin   == [version |-> 0, untold |-> FALSE]
Hubs       == SUBSET (Nodes \X Addresses)
Origin     == [version : Nat, untold : BOOLEAN]

SyncTypeOK ==
  /\ RegistryTypeOK
  /\ cache \in [targets : Hubs, known : Nat, expected : Nat, fetched : BOOLEAN]
  /\ aged \in BOOLEAN
  /\ agent \in {"idle", "fetch", "version", "store", "probe", "post", "notice"}
  /\ answer \in [targets : Hubs, version : Nat]
  /\ restarts \in 0..MaxRestarts
  /\ origin \in Origin /\ reading \in Origin

Init ==
  /\ RegistryInit
  /\ cache = EmptyCache
  /\ aged = FALSE
  /\ agent = "idle"
  /\ answer = NoAnswer
  /\ restarts = 0
  /\ origin = NoOrigin /\ reading = NoOrigin

\* Mutant: the query does not look at role and address.
EnabledNodes(id) == {<<n, nodes[n].address>> : n \in {m \in registered \ {id} : ~nodes[m].disabled}}

\* HubTargetsFor: the active hubs without the caller.
TargetsOf(id) == {h \in ActiveHubs : h[1] # id}

Move(from, to) == agent = from /\ agent' = to

------------------------------------------------------------------------------

\* Mutant: only a noticed version leads to a refresh.
NeedRefreshOnNotice == ~cache.fetched \/ (cache.expected # 0 /\ cache.expected # cache.known)

\* Mutant: a failed first fetch is not tried again before the list is old.
NeedRefreshLater == (cache.expected # 0 /\ cache.expected # cache.known) \/ aged

\* The three reasons of TargetCache.Targets.
NeedRefresh == \/ ~cache.fetched
               \/ cache.expected # 0 /\ cache.expected # cache.known
               \/ aged

\* Spoke.Run begins a cycle by asking the cache.
StartCycle ==
  /\ Move("idle", IF NeedRefresh THEN "fetch" ELSE "probe")
  /\ UNCHANGED <<registryVars, cache, aged, answer, restarts, history>>

\* The first query of HubTargetsFor, its rows read to the end ...
FetchRows ==
  /\ Move("fetch", "version")
  /\ answer' = [targets |-> TargetsOf(Self), version |-> 0]
  /\ reading' = [version |-> version, untold |-> FALSE]
  /\ UNCHANGED <<registryVars, cache, aged, restarts, origin>>

\* ... and the second one, for targets_version.
FetchVersion ==
  /\ Move("version", "store")
  /\ answer' = [answer EXCEPT !.version = version]
  /\ UNCHANGED <<registryVars, cache, aged, restarts, history>>

\* The answer is stored in the cache.
FetchStore ==
  /\ Move("store", "probe")
  /\ cache' = [targets |-> answer.targets, known |-> answer.version,
               expected |-> answer.version, fetched |-> TRUE]
  /\ aged' = FALSE
  /\ answer' = NoAnswer
  /\ origin' = reading
  /\ reading' = NoOrigin
  /\ UNCHANGED <<registryVars, restarts>>

\* No usable answer: a timeout, a 401, a 500.  The cached list is used.
FetchFails ==
  /\ agent \in {"fetch", "version", "store"}
  /\ agent' = "probe"
  /\ answer' = NoAnswer
  /\ reading' = NoOrigin
  /\ UNCHANGED <<registryVars, cache, aged, restarts, origin>>

\* A cycle without targets ends here, before anything is posted.
Probe ==
  /\ Move("probe", IF cache.targets = {} THEN "idle" ELSE "post")
  /\ UNCHANGED <<registryVars, cache, aged, answer, restarts, history>>

\* A row is accepted; handleResults reads targets_version last of all.
PostAccepted ==
  /\ Move("post", "notice")
  /\ answer' = [answer EXCEPT !.version = version]
  /\ UNCHANGED <<registryVars, cache, aged, restarts, history>>

\* NoticeVersion; the drain goes on with the next row.
NoticeVersion ==
  /\ Move("notice", "post")
  /\ cache' = IF answer.version <= 0 THEN cache ELSE [cache EXCEPT !.expected = answer.version]
  /\ answer' = NoAnswer
  /\ UNCHANGED <<registryVars, aged, restarts, history>>

\* The batch is empty, or Send fails for the rest of it.
EndCycle ==
  /\ agent \in {"post", "notice"}
  /\ agent' = "idle"
  /\ answer' = NoAnswer
  /\ UNCHANGED <<registryVars, cache, aged, restarts, history>>

\* maxAge (NLM_HUB_REFRESH_INTERVAL, at least a second) passes.
Age ==
  /\ cache.fetched /\ ~aged
  /\ aged' = TRUE
  /\ UNCHANGED <<registryVars, cache, agent, answer, restarts, history>>

\* The process is restarted, with an empty cache.
Restart ==
  /\ restarts < MaxRestarts
  /\ restarts' = restarts + 1
  /\ cache' = EmptyCache
  /\ aged' = FALSE
  /\ agent' = "idle"
  /\ answer' = NoAnswer
  /\ origin' = NoOrigin /\ reading' = NoOrigin
  /\ UNCHANGED registryVars

AgentStep == \/ StartCycle \/ FetchRows \/ FetchVersion \/ FetchStore \/ FetchFails
             \/ Probe \/ PostAccepted \/ NoticeVersion \/ EndCycle

\* A bump is lost, or a write compares with a row that is no longer the one
\* it replaces: nobody may be told of a change.
Untold ==
  \E a \in Admins :
    /\ req'[a] # req[a]
    /\ \/ req[a].at = "bump" /\ version' = version
       \/ /\ req[a].at \in {"write", "delete"} /\ nodes' # nodes
          /\ req[a].prior # Lookup(req[a].id)

Since(o) == IF o # NoOrigin /\ Untold THEN [o EXCEPT !.untold = TRUE] ELSE o

\* A step of the registry, as far as the agent is concerned.
Meanwhile ==
  /\ origin' = Since(origin)
  /\ reading' = Since(reading)
  /\ UNCHANGED syncVars

Next ==
  \/ RegistryNext /\ Meanwhile
  \/ AgentStep \/ Age \/ Restart

Spec == Init /\ [][Next]_vars

\* The ticker starts cycles and time passes; a fetch that is tried again and
\* again succeeds some time; a drain ends; requests in progress are finished.
Fairness ==
  /\ WF_vars(AgentStep) /\ WF_vars(Age)
  /\ SF_vars(FetchRows) /\ SF_vars(FetchVersion) /\ SF_vars(FetchStore) /\ SF_vars(EndCycle)
  /\ \A a \in Admins : WF_vars((UpsertRead(a) \/ UpsertWrite(a) \/ DeleteWrite(a) \/ Bump(a))
                               /\ Meanwhile)

FairSpec == Spec /\ Fairness

------------------------------------------------------------------------------
(* Properties.                                                             *)

\* Once the operators are done, the agent comes to probe the active hubs and
\* stays with them, whatever answers it missed, although a list may have been
\* read before a change and its version after it, a bump may have failed, or an
\* empty list kept the agent from posting: the refresh by age makes up for it
\* (targets.go:86-89).
CacheCatchesUp == <>[](cache.targets = TargetsOf(Self))

\* An agent that has hubs to probe never stops posting for good.  A cycle with
\* an empty list ends before the drain (spoke.go:87-89), and without a post no
\* answer tells of a new version: what the process fetched, or failed to fetch,
\* while the list was empty must not be able to keep it so.
PostsResume == <>[](TargetsOf(Self) # {}) => []<>(agent = "post")

\* A list that is not the set of active hubs has a reason: another version is
\* there to be noticed; the version was read after a change that the rows were
\* read before (nodes.go:165-192); a bump is on its way; or the change was not
\* told, its bump lost or its write compared with a stale row (nodes.go:198-230).
\* Whatever the versions say, with none of the four the list is right.
StaleListHasReason ==
  cache.fetched /\ cache.targets # TargetsOf(Self)
    => \/ cache.known # version
       \/ origin.version # cache.known
       \/ \E a \in Admins : req[a].at = "bump"
       \/ origin.untold
==============================================================================
