----------------------------- MODULE PowerProofs -----------------------------
(***************************************************************************)
(* PowerLoss for every set of runs, processes and requests and any number  *)
(* of power failures.                                                      *)
(***************************************************************************)
EXTENDS PowerLoss, LedgerProofs

\* What is on the disk is an earlier state of the spool.
DurableOK ==
  /\ durable.made \subseteq produced
  /\ DOMAIN durable.spool \subseteq durable.made
  /\ durable.spool \in [DOMAIN durable.spool -> Row]
  /\ durable.dropsTotal \in Nat
  /\ durable.saved \in Snapshot
  /\ durable.pages \in Nat
  /\ durable.dropped \subseteq durable.made

\* Each run whose INSERT is on the disk is accounted for by the disk and the
\* controller together.
DurableKept ==
  \A r \in durable.made :
    r \in DOMAIN durable.spool \/ Stored(r) \/ r \in durable.dropped \/ r \in undone

\* durable has the fields of File.
DurableFields ==
  durable = [spool |-> durable.spool, dropsTotal |-> durable.dropsTotal, saved |-> durable.saved,
             pages |-> durable.pages, made |-> durable.made, dropped |-> durable.dropped]

HostInv == LedgerInv /\ OnlyUnflushedLost /\ DurableFields /\ DurableOK /\ DurableKept

\* At first the disk and the tables are the same, and empty.
LEMMA HostInit == PowerInit => HostInv
<1> SUFFICES ASSUME PowerInit PROVE HostInv
  OBVIOUS
<1>1. LedgerInv
  BY RequestsInit DEF PowerInit
<1>2. SpoolTypeOK
  BY <1>1 DEF LedgerInv, AnswerInv, TypeInv, DeliveryTypeOK
<1>3. produced = {} /\ spooled = {} /\ dropped = {}
  BY DEF PowerInit, Init, SpoolInit, produced, spooled
<1>4. DurableFields /\ DurableOK /\ DurableKept
  BY <1>2, <1>3 DEF PowerInit, File, DurableFields, DurableOK, DurableKept, SpoolTypeOK, spooled
<1>5. OnlyUnflushedLost
  BY <1>3 DEF OnlyUnflushedLost
<1> QED
  BY <1>1, <1>4, <1>5 DEF HostInv

\* Steps that agent and controller also take without power failures: the
\* refinement of RunLedger accounts for the runs in the tables, and what the
\* controller has stored stays.
LEMMA NextKeeps ==
  ASSUME HostInv, [Next]_vars, UNCHANGED undone
  PROVE  /\ LedgerInv' /\ OnlyUnflushedLost'
         /\ produced \subseteq produced'
         /\ \A r \in Runs : Stored(r) => Stored(r)'
<1>1. LedgerInv /\ LedgerInv' /\ TypeInv
  BY RequestsNext DEF HostInv, LedgerInv, AnswerInv
<1>2. produced \subseteq produced'
  BY <1>1, ProducedGrows
<1>3. [Ledger!Next]_Ledger!ledger
  BY <1>1, NextRefines
<1>4. \A r \in produced' : r \in Runs
  BY <1>1 DEF LedgerInv, AnswerInv, TypeInv, DeliveryTypeOK, SpoolTypeOK
<1>5. \A r \in produced' : Kept(r) \/ r \in produced' \ produced \/ r \in undone
  BY DEF HostInv, OnlyUnflushedLost, Kept
<1>6. \A r \in produced' : Kept(r)' \/ r \in undone
  BY <1>3, <1>4, <1>5, KeptForGood
<1>7. OnlyUnflushedLost'
  BY <1>6 DEF OnlyUnflushedLost, Kept
<1>8. StoredRuns \subseteq StoredRuns'
  BY <1>3 DEF Ledger!ledger, Ledger!Next, Ledger!Produce, Ledger!Store, Ledger!Settle, Ledger!Drop,
              StoredRuns
<1> QED
  BY <1>1, <1>2, <1>7, <1>8 DEF StoredRuns

\* The disk is left alone, or its rows age: it stays an earlier state of the
\* spool, and accounts for its runs.
LEMMA DiskKeeps ==
  ASSUME HostInv, UNCHANGED undone, produced \subseteq produced',
         \A r \in Runs : Stored(r) => Stored(r)',
         \/ durable' = durable
         \/ durable' = [durable EXCEPT !.spool = [r \in DOMAIN @ |-> Aged(@[r])]]
  PROVE  DurableFields' /\ DurableOK' /\ DurableKept'
<1> USE SpoolAssumption DEF LoadSpool
<1> DurableFields /\ DurableOK /\ DurableKept
  BY DEF HostInv
<1>0. durable.made \subseteq Runs
  BY DEF HostInv, DurableOK, LedgerInv, AnswerInv, TypeInv, DeliveryTypeOK, SpoolTypeOK
<1>1. CASE durable' = durable
  BY <1>0, <1>1 DEF DurableFields, DurableOK, DurableKept
<1>2. CASE durable' = [durable EXCEPT !.spool = [r \in DOMAIN @ |-> Aged(@[r])]]
  <2>1. durable' = [spool |-> [r \in DOMAIN durable.spool |-> Aged(durable.spool[r])],
                    dropsTotal |-> durable.dropsTotal, saved |-> durable.saved,
                    pages |-> durable.pages, made |-> durable.made, dropped |-> durable.dropped]
    BY <1>2 DEF DurableFields
  <2>2. DOMAIN durable'.spool = DOMAIN durable.spool
    BY <2>1
  <2>3. \A row \in Row : Aged(row) \in Row
    BY DEF Aged, Later, Row
  <2>4. durable'.spool \in [DOMAIN durable'.spool -> Row]
    BY <2>1, <2>2, <2>3 DEF DurableOK
  <2>5. DurableFields' /\ DurableOK'
    BY <2>1, <2>2, <2>4 DEF DurableFields, DurableOK
  <2>6. DurableKept'
    BY <1>0, <2>1, <2>2 DEF DurableKept
  <2> QED
    BY <2>5, <2>6
<1> QED
  BY <1>1, <1>2

\* A power failure replaces the tables by what is on the disk and ends every
\* process; requests that were sent remain, with nobody waiting for them.
LEMMA FailureKeeps ==
  ASSUME HostInv, PowerFailure
  PROVE  HostInv'
<1> SpoolTypeOK /\ IngestTypeOK /\ FinitelyMany /\ DurableOK
  BY DEF HostInv, LedgerInv, AnswerInv, TypeInv, DeliveryTypeOK
<1>1. /\ UNCHANGED <<payload, phase, uncounted, durable, results, conn>>
      /\ UNCHANGED ingestVars /\ produced' = produced /\ spooled' = DOMAIN durable.spool
  BY DEF PowerFailure, ingestVars, produced, spooled
<1>2. SpoolTypeOK'
  BY <1>1 DEF PowerFailure, DurableOK, SpoolTypeOK, ZeroSnapshot, Snapshot, Label
<1>3. IngestTypeOK' /\ FinitelyMany' /\ caller' \in [Conns -> Procs \cup {NULL}]
  BY <1>1 DEF PowerFailure, ingestVars, IngestTypeOK, FinitelyMany
<1>4. \A r : Stored(r)' <=> Stored(r)
  BY <1>1 DEF Stored
<1>5. AllOrNothing' /\ RequestsProduced'
  BY <1>1, <1>4 DEF HostInv, LedgerInv, AnswerInv, AllOrNothing, RequestsProduced
<1>6. CallersWait'
  BY DEF PowerFailure, CallersWait
<1>7. AcceptedMeansStored'
  <2>1. AcceptedMeansStored /\ \A p \in Procs : pc'[p] = "idle"
    BY DEF HostInv, LedgerInv, AnswerInv, PowerFailure
  <2> QED
    BY <1>1, <1>4, <2>1 DEF AcceptedMeansStored
<1>8. OnlyUnflushedLost'
  BY <1>1, <1>4 DEF HostInv, DurableKept, PowerFailure, OnlyUnflushedLost
<1>9. DurableFields' /\ DurableOK'
  BY <1>1 DEF HostInv, DurableFields, DurableOK
<1>10. DurableKept'
  BY <1>1, <1>4 DEF HostInv, DurableKept, PowerFailure
<1> QED
  BY <1>2, <1>3, <1>5, <1>6, <1>7, <1>8, <1>9, <1>10
  DEF HostInv, LedgerInv, AnswerInv, TypeInv, DeliveryTypeOK

\* HostInv is inductive.
LEMMA HostNextKeeps == HostInv /\ [HostNext]_hostVars => HostInv'
<1> SUFFICES ASSUME HostInv, [HostNext]_hostVars PROVE HostInv'
  OBVIOUS
<1>1. CASE Online \/ HostTick \/ UNCHANGED hostVars
  <2>1. [Next]_vars
    BY <1>1, ZenonT(40) DEF Online, HostTick, Next, hostVars
  <2>2. /\ UNCHANGED undone
        /\ \/ durable' = durable
           \/ durable' = [durable EXCEPT !.spool = [r \in DOMAIN @ |-> Aged(@[r])]]
    BY <1>1, ZenonT(40) DEF Online, HostTick, hostVars, powerVars
  <2>3. /\ LedgerInv' /\ OnlyUnflushedLost'
        /\ produced \subseteq produced'
        /\ \A r \in Runs : Stored(r) => Stored(r)'
    BY <2>1, <2>2, NextKeeps
  <2>4. DurableFields' /\ DurableOK' /\ DurableKept'
    BY <2>2, <2>3, DiskKeeps
  <2> QED
    BY <2>3, <2>4 DEF HostInv
<1>2. CASE Flush
  <2>1. UNCHANGED <<vars, undone>> /\ durable' = File
    BY <1>2 DEF Flush
  <2>2. LedgerInv' /\ OnlyUnflushedLost'
    BY <2>1, NextKeeps
  <2>3. UNCHANGED <<spool, payload, dropsTotal, saved, pages, dropped, results>>
    BY <2>1 DEF vars, spoolVars, ingestVars
  <2>4. SpoolTypeOK
    BY DEF HostInv, LedgerInv, AnswerInv, TypeInv, DeliveryTypeOK
  <2>5. DurableFields' /\ DurableOK'
    BY <2>1, <2>3, <2>4 DEF File, DurableFields, DurableOK, SpoolTypeOK, produced, spooled
  <2>6. DurableKept'
    BY <2>1, <2>2, <2>3 DEF File, DurableKept, OnlyUnflushedLost, spooled, produced
  <2> QED
    BY <2>2, <2>5, <2>6 DEF HostInv
<1>3. CASE PowerFailure
  BY <1>3, FailureKeeps
<1> QED
  BY <1>1, <1>2, <1>3 DEF HostNext

\* However often the power fails, the only runs that are lost are those whose
\* INSERT the disk did not have.
THEOREM PowerLosesOnlyUnflushed == HostSpec => []OnlyUnflushedLost
<1>1. HostInv => OnlyUnflushedLost
  BY DEF HostInv
<1> QED
  BY HostInit, HostNextKeeps, <1>1, PTL DEF HostSpec

------------------------------------------------------------------------------
(* The types, and the counter of new results.                              *)

\* The rest of PowerTypeOK: the file's history is part of the host's.
HistoryOK ==
  /\ durable.dropped \subseteq dropped
  /\ failures \in 0..MaxFailures
  /\ undone \subseteq produced

\* Retention is not taken back by a step of agent or controller.
LEMMA HistoryNext ==
  ASSUME HostInv, HistoryOK, [HostNext]_hostVars
  PROVE  HistoryOK'
<1> DurableOK /\ LedgerInv
  BY DEF HostInv
<1>1. CASE Online \/ HostTick \/ UNCHANGED hostVars
  <2>1. [Next]_vars
    BY <1>1, ZenonT(40) DEF Online, HostTick, Next, hostVars
  <2>2. UNCHANGED <<undone, failures>> /\ durable'.dropped = durable.dropped
    <3>1. /\ UNCHANGED <<undone, failures>>
          /\ \/ durable' = durable
             \/ durable' = [durable EXCEPT !.spool = [r \in DOMAIN @ |-> Aged(@[r])]]
      BY <1>1, ZenonT(40) DEF Online, HostTick, hostVars, powerVars
    <3>2. [durable EXCEPT !.spool = [r \in DOMAIN @ |-> Aged(@[r])]].dropped = durable.dropped
      BY DEF HostInv, DurableFields
    <3> QED
      BY <3>1, <3>2
  <2>3. produced \subseteq produced'
    BY <2>1, ProducedGrows DEF LedgerInv, AnswerInv
  <2>4. dropped \subseteq dropped'
    <3>1. [Ledger!Next]_Ledger!ledger
      BY <2>1, NextRefines
    <3> QED
      BY <3>1 DEF Ledger!ledger, Ledger!Next, Ledger!Produce, Ledger!Store, Ledger!Settle, Ledger!Drop
  <2> QED
    BY <2>2, <2>3, <2>4 DEF HistoryOK
<1>2. CASE Flush
  <2>1. UNCHANGED <<payload, dropped, undone, failures>> /\ durable'.dropped = dropped
    BY <1>2 DEF Flush, File, vars, spoolVars, history
  <2> QED
    BY <2>1 DEF HistoryOK, produced
<1>3. CASE PowerFailure
  <2>1. /\ UNCHANGED <<payload, durable>> /\ dropped' = durable.dropped
        /\ failures < MaxFailures /\ failures' = failures + 1
        /\ undone' = undone \cup (produced \ durable.made)
    BY <1>3 DEF PowerFailure
  <2>2. failures' \in 0..MaxFailures
    BY <2>1, PowerAssumption DEF HistoryOK
  <2> QED
    BY <2>1, <2>2 DEF HistoryOK, produced
<1> QED
  BY <1>1, <1>2, <1>3 DEF HostNext

\* Type correctness with power failures: whatever the disk falls back to is a
\* state that the spool was in.
THEOREM PowerTypeCorrect == HostSpec => []PowerTypeOK
<1> DEFINE Inv == HostInv /\ HistoryOK
<1>1. PowerInit => Inv
  <2> SUFFICES ASSUME PowerInit PROVE HistoryOK
    BY HostInit
  <2>1. durable.dropped = dropped /\ failures = 0 /\ undone = {}
    BY DEF PowerInit, File
  <2> QED
    BY <2>1, PowerAssumption DEF HistoryOK
<1>2. Inv /\ [HostNext]_hostVars => Inv'
  BY HostNextKeeps, HistoryNext
<1>3. Inv => PowerTypeOK
  BY DEF HostInv, DurableOK, HistoryOK, PowerTypeOK, LedgerInv, AnswerInv, TypeInv
<1> QED
  BY <1>1, <1>2, <1>3, PTL DEF HostSpec

\* No observation is counted twice, although a power failure brings back rows
\* whose runs the controller has stored and counted.
THEOREM CountedOnceDespitePower == HostSpec => []ResultsCountedOnce
<1> DEFINE Inv == HostInv /\ CountInv
<1>1. PowerInit => Inv
  BY HostInit, CountInit DEF PowerInit
<1>2. Inv /\ [HostNext]_hostVars => Inv'
  <2> SUFFICES ASSUME HostInv, CountInv, [HostNext]_hostVars PROVE CountInv'
    BY HostNextKeeps
  <2>1. AnswerInv
    BY DEF HostInv, LedgerInv
  <2>2. CASE Online \/ HostTick \/ UNCHANGED hostVars
    <3>1. [Next]_vars
      BY <2>2, ZenonT(40) DEF Online, HostTick, Next, hostVars
    <3> QED
      BY <2>1, <3>1, CountNext
  <2>3. CASE Flush \/ PowerFailure
    <3>1. UNCHANGED <<results, resultsMetric, conn>>
      BY <2>3 DEF Flush, PowerFailure, vars, ingestVars
    <3> QED
      BY <3>1, CountKept DEF ToCount
  <2> QED
    BY <2>2, <2>3 DEF HostNext
<1>3. Inv => ResultsCountedOnce
  BY CountedWithin DEF HostInv, LedgerInv, AnswerInv, TypeInv, DeliveryTypeOK
<1> QED
  BY <1>1, <1>2, <1>3, PTL DEF HostSpec

------------------------------------------------------------------------------
(* The refinement.                                                         *)

\* The disk, as HostLedger sees it.
Disk == [made |-> durable.made, pending |-> DOMAIN durable.spool, dropped |-> durable.dropped]

\* HostLedger's steps without a failure are RunLedger's.
LEMMA OnlineRefines ==
  ASSUME [Ledger!Next]_Ledger!ledger, Disk' = Disk, undone' = undone
  PROVE  [Host!HostNext]_Host!hostLedger
<1>1. CASE UNCHANGED Ledger!ledger
  BY <1>1 DEF Ledger!ledger, Host!hostLedger, Disk
<1>2. CASE Ledger!Next
  <2>1. Host!Next
    BY <1>2 DEF Ledger!Next, Ledger!Produce, Ledger!Store, Ledger!Settle, Ledger!Drop,
                Host!Next, Host!Produce, Host!Store, Host!Settle, Host!Drop
  <2> QED
    BY <2>1 DEF Host!HostNext, Host!Online, Disk
<1> QED
  BY <1>1, <1>2

\* Every step of the host is one of HostLedger, or leaves it alone.
LEMMA HostRefines == HostInv /\ [HostNext]_hostVars => [Host!HostNext]_Host!hostLedger
<1> SUFFICES ASSUME HostInv, [HostNext]_hostVars PROVE [Host!HostNext]_Host!hostLedger
  OBVIOUS
<1>1. CASE Online \/ HostTick \/ UNCHANGED hostVars
  <2>1. [Next]_vars
    BY <1>1, ZenonT(40) DEF Online, HostTick, Next, hostVars
  <2>2. /\ undone' = undone
        /\ \/ durable' = durable
           \/ durable' = [durable EXCEPT !.spool = [r \in DOMAIN @ |-> Aged(@[r])]]
    BY <1>1, ZenonT(40) DEF Online, HostTick, hostVars, powerVars
  <2>3. Disk' = Disk
    <3>1. CASE durable' = durable
      BY <3>1 DEF Disk
    <3>2. CASE durable' = [durable EXCEPT !.spool = [r \in DOMAIN @ |-> Aged(@[r])]]
      <4>1. durable' = [spool |-> [r \in DOMAIN durable.spool |-> Aged(durable.spool[r])],
                        dropsTotal |-> durable.dropsTotal, saved |-> durable.saved,
                        pages |-> durable.pages, made |-> durable.made, dropped |-> durable.dropped]
        BY <3>2 DEF HostInv, DurableFields
      <4> QED
        BY <4>1 DEF Disk
    <3> QED
      BY <2>2, <3>1, <3>2
  <2>4. [Ledger!Next]_Ledger!ledger
    BY <2>1, NextRefines DEF HostInv
  <2> QED
    BY <2>2, <2>3, <2>4, OnlineRefines
<1>2. CASE Flush
  <2>1. UNCHANGED <<spool, payload, dropped, results, undone>> /\ durable' = File
    BY <1>2 DEF Flush, vars, spoolVars, ingestVars
  <2>2. Disk' = [made |-> produced, pending |-> spooled, dropped |-> dropped]
    BY <2>1 DEF Disk, File, spooled
  <2>3. UNCHANGED <<produced, spooled, StoredRuns, dropped, undone>>
    BY <2>1 DEF produced, spooled, StoredRuns, Stored
  <2> QED
    BY <2>2, <2>3 DEF Host!HostNext, Host!Flush, Host!Current, Disk, StoredRuns
<1>3. CASE PowerFailure
  <2>1. /\ UNCHANGED <<payload, results, durable>>
        /\ spool' = durable.spool /\ dropped' = durable.dropped
        /\ undone' = undone \cup (produced \ durable.made)
    BY <1>3 DEF PowerFailure, ingestVars
  <2>2. /\ UNCHANGED <<produced, StoredRuns, Disk>> /\ spooled' = DOMAIN durable.spool
    BY <2>1 DEF produced, spooled, StoredRuns, Stored, Disk
  <2> QED
    BY <2>1, <2>2 DEF Host!HostNext, Host!PowerFailure, Disk, StoredRuns
<1> QED
  BY <1>1, <1>2, <1>3 DEF HostNext

\* Whenever the power fails, the agent's side goes back to one earlier state as
\* a whole, the controller's side stays, and RunLedger goes on from there: for
\* any number of failures, runs, processes and requests.
THEOREM HostLedgerImplemented == HostSpec => ImplementsHostLedger
<1>1. PowerInit => Host!HostInit
  <2> SUFFICES ASSUME PowerInit PROVE Host!HostInit
    OBVIOUS
  <2>1. Ledger!Init
    BY InitRefines DEF PowerInit
  <2>2. Disk = [made |-> produced, pending |-> spooled, dropped |-> dropped] /\ undone = {}
    BY DEF PowerInit, File, Disk, spooled
  <2> QED
    BY <2>1, <2>2 DEF Host!HostInit, Host!Init, Host!Current, Ledger!Init, Disk
<1> QED
  BY <1>1, HostInit, HostNextKeeps, HostRefines, PTL
  DEF HostSpec, ImplementsHostLedger, Host!HostSpec
==============================================================================
