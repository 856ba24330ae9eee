----------------------------- MODULE SpoolProofs -----------------------------
(***************************************************************************)
(* Spool for every set of runs and faults and every configuration that     *)
(* LoadSpool accepts, with a Sender that may return anything.              *)
(***************************************************************************)
EXTENDS Spool, FiniteSetTheorems, TLAPS

\* Only finitely many runs have been enqueued, so the counts are numbers.
FinitelyMany == IsFiniteSet(produced)

SpoolInv == SpoolTypeOK /\ FinitelyMany

\* COUNT(*) of the spool, with or without a new row, is a natural number.
LEMMA SpoolIsFinite ==
  ASSUME SpoolInv
  PROVE  /\ IsFiniteSet(spooled)
         /\ Cardinality(spooled) \in Nat
         /\ \A r : IsFiniteSet(spooled \cup {r}) /\ Cardinality(spooled \cup {r}) \in Nat
         /\ \A r : IsFiniteSet(produced \cup {r})
<1>1. IsFiniteSet(spooled)
  BY FS_Subset DEF SpoolInv, SpoolTypeOK, FinitelyMany
<1>2. \A r : IsFiniteSet(spooled \cup {r}) /\ IsFiniteSet(produced \cup {r})
  BY <1>1, FS_AddElement DEF SpoolInv, FinitelyMany
<1> QED
  BY <1>1, <1>2, FS_CardinalityType, ZenonT(40)

\* The file starts empty and the processes idle.
LEMMA SpoolInvInit == SpoolInit => SpoolInv
<1> SUFFICES ASSUME SpoolInit PROVE SpoolInv
  OBVIOUS
<1>1. produced = {} /\ spooled = {}
  BY DEF SpoolInit, produced, spooled
<1>2. SpoolTypeOK
  BY <1>1 DEF SpoolInit, SpoolTypeOK, ZeroSnapshot, Snapshot, Label
<1> QED
  BY <1>1, <1>2, FS_EmptySet DEF SpoolInv, FinitelyMany

\* Every step of a cycle that is not an exchange with the controller keeps the
\* types of the spool's variables: the statements of spoke.go and spool.go.
LEMMA TypeLocalStep ==
  ASSUME SpoolInv, NEW p \in Procs, LocalStep(p)
  PROVE  SpoolTypeOK' /\ FinitelyMany'
<1> USE SpoolAssumption, RunsAssumption DEF LoadSpool
<1> SpoolTypeOK /\ FinitelyMany
  BY DEF SpoolInv
<1>1. CASE BeginCycle(p)
  BY <1>1 DEF BeginCycle, LastDrainSnapshot, Goto, tables, history, SpoolTypeOK, FinitelyMany, produced, spooled,
              ZeroSnapshot, Snapshot, Label
<1>2. CASE Enqueue(p)
  <2>1. snap' \in [Procs -> Snapshot] /\ pc' \in [Procs -> Label]
    BY <1>2 DEF Enqueue, Goto, SpoolTypeOK, ZeroSnapshot, Snapshot, Label
  <2>2. CASE Runs \subseteq produced /\ UNCHANGED <<payload, spool, pages>>
    BY <1>2, <2>1, <2>2 DEF Enqueue, history, SpoolTypeOK, FinitelyMany, produced, spooled
  <2>3. ASSUME NEW r \in Runs \ produced,
               payload' = [s \in produced \cup {r} |-> IF s = r THEN snap[p] ELSE payload[s]],
               spool' = [s \in spooled \cup {r} |-> IF s = r THEN NewRow ELSE spool[s]],
               pages' = Footprint(Cardinality(spooled \cup {r}))
        PROVE  SpoolTypeOK' /\ FinitelyMany'
    <3>1. produced' = produced \cup {r} /\ spooled' = spooled \cup {r}
      BY <2>3 DEF produced, spooled
    <3>2. payload' \in [produced' -> Snapshot]
      BY <2>3, <3>1 DEF SpoolTypeOK
    <3>3. spool' \in [spooled' -> Row]
      BY <2>3, <3>1 DEF SpoolTypeOK, NewRow, Row
    <3>4. pages' \in Nat
      BY <2>3, SpoolIsFinite, ZenonT(40) DEF Footprint, SpoolTypeOK
    <3>5. IsFiniteSet(produced')
      BY <3>1, SpoolIsFinite
    <3> QED
      BY <1>2, <2>1, <3>1, <3>2, <3>3, <3>4, <3>5
      DEF Enqueue, history, SpoolTypeOK, FinitelyMany
  <2> QED
    BY <1>2, <2>2, <2>3, ZenonT(40) DEF Enqueue
<1>3. CASE Select(p)
  BY <1>3 DEF Select, Goto, tables, history, Candidates, SpoolTypeOK, FinitelyMany, produced,
              spooled, Label
<1>4. CASE DeleteRow(p)
  <2>1. PICK r \in batch[p] : /\ batch' = [batch EXCEPT ![p] = @ \ {r}]
                              /\ spool' = Without(r)
    BY <1>4, ZenonT(40) DEF DeleteRow
  <2>2. produced' = produced /\ spooled' = spooled \ {r}
    BY <1>4, <2>1 DEF DeleteRow, Without, produced, spooled
  <2>3. spool' \in [spooled' -> Row]
    BY <2>1, <2>2 DEF Without, SpoolTypeOK
  <2> QED
    BY <1>4, <2>1, <2>2, <2>3
    DEF DeleteRow, Goto, history, SpoolTypeOK, FinitelyMany, Label
<1>5. CASE MarkFailure(p)
  <2>1. PICK r \in batch[p] :
          /\ batch' = [batch EXCEPT ![p] = @ \ {r}]
          /\ spool' = [s \in spooled |->
               IF s = r THEN [age |-> spool[s].age,
                              attempts |-> IF spool[s].attempts < AttemptCap
                                           THEN spool[s].attempts + 1 ELSE AttemptCap,
                              idle |-> phase]
                        ELSE spool[s]]
    BY <1>5, ZenonT(40) DEF MarkFailure
  <2>2. produced' = produced /\ spooled' = spooled
    BY <1>5, <2>1 DEF MarkFailure, produced, spooled
  <2>3. spool' \in [spooled' -> Row]
    BY <2>1, <2>2 DEF SpoolTypeOK, Row
  <2> QED
    BY <1>5, <2>1, <2>2, <2>3
    DEF MarkFailure, Goto, history, SpoolTypeOK, FinitelyMany, Label
<1>6. CASE EndBatch(p) \/ RetentionCheck(p) \/ NoRowLeft(p)
  BY <1>6 DEF EndBatch, RetentionCheck, NoRowLeft, Goto, tables, locals, history, SpoolTypeOK, FinitelyMany,
              produced, spooled, Label
<1>7. CASE DropOldest(p)
  <2>2. ASSUME NEW r \in spooled, Goto(p, "drop", "bump"), spool' = Without(r),
               dropped' = dropped \cup {r},
               UNCHANGED <<payload, dropsTotal, saved, pages, phase, locals, uncounted>>
        PROVE  SpoolTypeOK' /\ FinitelyMany'
    <3>1. produced' = produced /\ spooled' = spooled \ {r}
      BY <2>2 DEF Without, produced, spooled
    <3>2. spool' \in [spooled' -> Row]
      BY <2>2, <3>1 DEF Without, SpoolTypeOK
    <3> QED
      BY <2>2, <3>1, <3>2 DEF Goto, locals, SpoolTypeOK, FinitelyMany, Label
  <2> QED
    BY <1>7, <2>2 DEF DropOldest
<1>8. CASE BumpDrops(p)
  BY <1>8 DEF BumpDrops, Goto, locals, history, SpoolTypeOK, FinitelyMany, produced, spooled, Label
<1>9. CASE Measure(p)
  BY <1>9, SpoolIsFinite
  DEF Measure, Depth, DropsTotal, Goto, tables, history, SpoolTypeOK, FinitelyMany, produced, spooled, Label, Snapshot
<1>10. CASE SaveDepth(p)
  <2>1. snap[p].depth \in Nat /\ saved.drops \in Nat
    BY DEF SpoolTypeOK, Snapshot
  <2> QED
    BY <1>10, <2>1 DEF SaveDepth, Goto, locals, history, SpoolTypeOK, FinitelyMany, produced,
                       spooled, Label, Snapshot
<1>11. CASE SaveDrops(p)
  <2>1. snap[p].drops \in Nat /\ saved.depth \in Nat
    BY DEF SpoolTypeOK, Snapshot
  <2> QED
    BY <1>11, <2>1 DEF SaveDrops, Goto, history, SpoolTypeOK, FinitelyMany, produced,
                       spooled, Label, Snapshot, ZeroSnapshot
<1> QED
  BY <1>1, <1>2, <1>3, <1>4, <1>5, <1>6, <1>7, <1>8, <1>9, <1>10, <1>11 DEF LocalStep

\* The other steps of the spool: sending, its outcome, a stop, and time.
LEMMA TypeSpoolStep ==
  ASSUME SpoolInv
  PROVE  /\ \A p \in Procs : StartSend(p) => SpoolTypeOK' /\ FinitelyMany'
         /\ \A p \in Procs : \A accepted \in BOOLEAN :
              SendReturn(p, accepted) => SpoolTypeOK' /\ FinitelyMany'
         /\ \A p \in Procs : Stop(p) => SpoolTypeOK' /\ FinitelyMany'
         /\ Tick => SpoolTypeOK' /\ FinitelyMany'
         /\ UNCHANGED spoolVars => SpoolTypeOK' /\ FinitelyMany'
<1> USE SpoolAssumption DEF LoadSpool
<1> SpoolTypeOK /\ FinitelyMany
  BY DEF SpoolInv
<1>1. ASSUME NEW p \in Procs, StartSend(p) PROVE SpoolTypeOK' /\ FinitelyMany'
  BY <1>1 DEF StartSend, Goto, tables, locals, history, SpoolTypeOK, FinitelyMany, produced,
              spooled, Label
<1>2. ASSUME NEW p \in Procs, NEW accepted \in BOOLEAN, SendReturn(p, accepted)
      PROVE  SpoolTypeOK' /\ FinitelyMany'
  BY <1>2 DEF SendReturn, Goto, tables, locals, history, SpoolTypeOK, FinitelyMany, produced,
              spooled, Label
<1>3. ASSUME NEW p \in Procs, Stop(p) PROVE SpoolTypeOK' /\ FinitelyMany'
  BY <1>3 DEF Stop, tables, SpoolTypeOK, FinitelyMany, produced, spooled, Label, Snapshot,
              ZeroSnapshot
<1>4. ASSUME Tick PROVE SpoolTypeOK' /\ FinitelyMany'
  <2>1. produced' = produced /\ spooled' = spooled
    BY <1>4 DEF Tick, produced, spooled
  <2>2. spool' \in [spooled' -> Row]
    BY <1>4, <2>1 DEF Tick, Aged, Later, SpoolTypeOK, Row
  <2>3. phase' \in Nat
    BY <1>4 DEF Tick, SpoolTypeOK
  <2> QED
    BY <1>4, <2>1, <2>2, <2>3 DEF Tick, locals, history, SpoolTypeOK, FinitelyMany
<1>5. ASSUME UNCHANGED spoolVars PROVE SpoolTypeOK' /\ FinitelyMany'
  BY <1>5 DEF spoolVars, SpoolTypeOK, FinitelyMany, produced, spooled
<1> QED
  BY <1>1, <1>2, <1>3, <1>4, <1>5

\* SpoolInv is inductive.
LEMMA SpoolInvNext == SpoolInv /\ [SpoolNext]_spoolVars => SpoolInv'
BY TypeLocalStep, TypeSpoolStep DEF SpoolInv, SpoolNext, CycleStep

\* Type correctness of the spool, whatever the Sender returns, however many
\* processes share the file, and wherever each of them stops.
THEOREM SpoolTypeCorrect == SpoolSpec => []SpoolTypeOK
<1>1. SpoolInv => SpoolTypeOK
  BY DEF SpoolInv
<1> QED
  BY SpoolInvInit, SpoolInvNext, <1>1, PTL DEF SpoolSpec

------------------------------------------------------------------------------
(* drops_total, for any number of processes on one file.                   *)

\* A dropped run never returns to the spool.
DroppedIsGone == dropped \cap spooled = {}

DropInv == SpoolInv /\ DroppedIsGone /\ DropsAccounted

Bumping == {p \in Procs : pc[p] = "bump"}

\* The processes between the DELETE and the UPDATE, before and after one of
\* them moves.
LEMMA BumpingMoves ==
  ASSUME SpoolInv, NEW p \in Procs, NEW to \in Label, pc' = [pc EXCEPT ![p] = to]
  PROVE  /\ Cardinality(Bumping) \in Nat
         /\ (pc[p] = "bump") = (to = "bump") => Cardinality(Bumping') = Cardinality(Bumping)
         /\ pc[p] # "bump" /\ to = "bump" => Cardinality(Bumping') = Cardinality(Bumping) + 1
         /\ pc[p] = "bump" /\ to # "bump" => Cardinality(Bumping') = Cardinality(Bumping) - 1
<1>1. IsFiniteSet(Bumping) /\ Cardinality(Bumping) \in Nat
  BY SpoolAssumption, FS_Subset, FS_CardinalityType DEF Bumping
<1>2. pc' \in [Procs -> Label] /\ pc \in [Procs -> Label]
  BY DEF SpoolInv, SpoolTypeOK
<1>3. ASSUME (pc[p] = "bump") = (to = "bump") PROVE Bumping' = Bumping
  BY <1>2, <1>3 DEF Bumping
<1>4. ASSUME pc[p] # "bump", to = "bump" PROVE Cardinality(Bumping') = Cardinality(Bumping) + 1
  <2>1. Bumping' = Bumping \cup {p} /\ p \notin Bumping
    BY <1>2, <1>4 DEF Bumping
  <2> QED
    BY <1>1, <2>1, FS_AddElement
<1>5. ASSUME pc[p] = "bump", to # "bump" PROVE Cardinality(Bumping') = Cardinality(Bumping) - 1
  <2>1. Bumping' = Bumping \ {p} /\ p \in Bumping
    BY <1>2, <1>5 DEF Bumping
  <2> QED
    BY <1>1, <2>1, FS_RemoveElement
<1> QED
  BY <1>1, <1>3, <1>4, <1>5

\* A dropped run is a new element of dropped.
LEMMA DropCounts ==
  ASSUME DropInv, NEW r \in spooled, dropped' = dropped \cup {r}
  PROVE  Cardinality(dropped') = Cardinality(dropped) + 1
<1>1. IsFiniteSet(dropped) /\ r \notin dropped
  BY FS_Subset DEF DropInv, DroppedIsGone, SpoolInv, SpoolTypeOK, FinitelyMany
<1> QED
  BY <1>1, FS_AddElement

\* Every statement of a cycle, and its end at any point, keeps the account.
LEMMA DropSteps ==
  ASSUME DropInv, NEW p \in Procs, CycleStep(p) \/ Stop(p)
  PROVE  DroppedIsGone' /\ DropsAccounted'
<1> USE DEF DropInv
<1>0. /\ dropsTotal \in Nat /\ uncounted \in Nat /\ pc \in [Procs -> Label]
      /\ dropped \subseteq produced
  BY DEF SpoolInv, SpoolTypeOK
<1>a. dropsTotal + Cardinality(Bumping) + uncounted = Cardinality(dropped)
  BY DEF DropsAccounted, Bumping
<1> DEFINE Kept == /\ DroppedIsGone'
                   /\ dropsTotal' + Cardinality(Bumping') + uncounted' = Cardinality(dropped')
<1>b. SUFFICES Kept
  BY DEF DropsAccounted, Bumping
<1>1. ASSUME DropOldest(p) PROVE Kept
  <2>1. PICK r \in spooled : spool' = Without(r) /\ dropped' = dropped \cup {r}
    BY <1>1 DEF DropOldest
  <2>2. spooled' = spooled \ {r}
    BY <2>1 DEF Without, spooled
  <2>3. Cardinality(Bumping') = Cardinality(Bumping) + 1 /\ Cardinality(Bumping) \in Nat
    BY <1>1, BumpingMoves DEF DropOldest, Goto, Label
  <2>4. Cardinality(dropped') = Cardinality(dropped) + 1
    BY <2>1, DropCounts
  <2> QED
    BY <1>0, <1>1, <1>a, <2>1, <2>2, <2>3, <2>4 DEF DropOldest, DroppedIsGone
<1>2. ASSUME BumpDrops(p) PROVE Kept
  <2>1. Cardinality(Bumping') = Cardinality(Bumping) - 1 /\ Cardinality(Bumping) \in Nat
    BY <1>2, BumpingMoves DEF BumpDrops, Goto, Label
  <2> QED
    BY <1>0, <1>2, <1>a, <2>1 DEF BumpDrops, DroppedIsGone, history, spooled
<1>3. ASSUME Stop(p) PROVE Kept
  <2>1. /\ pc[p] = "bump" => Cardinality(Bumping') = Cardinality(Bumping) - 1
        /\ pc[p] # "bump" => Cardinality(Bumping') = Cardinality(Bumping)
        /\ Cardinality(Bumping) \in Nat
    BY <1>3, BumpingMoves DEF Stop, Label
  <2> QED
    BY <1>0, <1>3, <1>a, <2>1 DEF Stop, DroppedIsGone, tables, spooled
<1> DEFINE Quiet == /\ UNCHANGED <<dropsTotal, history>>
                    /\ \E to \in Label \ {"bump"} : pc[p] # "bump" /\ pc' = [pc EXCEPT ![p] = to]
<1>4. ASSUME Quiet, dropped \cap spooled' = {} PROVE Kept
  <2>1. Cardinality(Bumping') = Cardinality(Bumping)
    BY <1>4, BumpingMoves
  <2> QED
    BY <1>4, <1>a, <2>1 DEF DroppedIsGone, history
<1>5. ASSUME Enqueue(p) PROVE Kept
  <2>1. Quiet
    BY <1>5 DEF Enqueue, Goto, Label
  <2>2. dropped \cap spooled' = {}
    BY <1>0, <1>5 DEF Enqueue, spooled, DroppedIsGone
  <2> QED
    BY <1>4, <2>1, <2>2
<1>6. ASSUME DeleteRow(p) \/ MarkFailure(p) PROVE Kept
  <2>1. Quiet
    BY <1>6 DEF DeleteRow, MarkFailure, Goto, Label
  <2>2. spooled' \subseteq spooled
    BY <1>6 DEF DeleteRow, MarkFailure, Without, spooled
  <2> QED
    BY <1>4, <2>1, <2>2 DEF DroppedIsGone
<1>7. ASSUME \/ BeginCycle(p) \/ Select(p) \/ EndBatch(p) \/ RetentionCheck(p) \/ NoRowLeft(p)
             \/ Measure(p) \/ SaveDepth(p) \/ SaveDrops(p) \/ StartSend(p)
             \/ \E accepted \in BOOLEAN : SendReturn(p, accepted)
      PROVE  Kept
  <2>1. Quiet
    BY <1>7 DEF BeginCycle, Select, EndBatch, RetentionCheck, NoRowLeft, Measure, SaveDepth,
                SaveDrops, StartSend, SendReturn, Goto, Label, tables
  <2>2. spooled' = spooled
    BY <1>7 DEF BeginCycle, Select, EndBatch, RetentionCheck, NoRowLeft, Measure, SaveDepth,
                SaveDrops, StartSend, SendReturn, tables, spooled
  <2> QED
    BY <1>4, <2>1, <2>2 DEF DroppedIsGone
<1> QED
  BY <1>1, <1>2, <1>3, <1>5, <1>6, <1>7 DEF CycleStep, LocalStep

\* Each row retention deletes reaches drops_total, is on its way there, or is
\* the one of a cycle that ended between the two statements: for any number
\* of agent processes on one spool file, and whatever fails around them
\* (spool.go:382-398).
THEOREM DropsAreAccounted == SpoolSpec => []DropsAccounted
<1>1. SpoolInit => DropInv
  <2> SUFFICES ASSUME SpoolInit PROVE DropInv
    OBVIOUS
  <2>1. Bumping = {}
    BY DEF SpoolInit, Bumping
  <2>2. dropsTotal = 0 /\ uncounted = 0 /\ dropped = {}
    BY DEF SpoolInit
  <2> QED
    BY <2>1, <2>2, SpoolInvInit, FS_EmptySet DEF DropInv, DroppedIsGone, DropsAccounted, Bumping
<1>2. DropInv /\ [SpoolNext]_spoolVars => DropInv'
  <2> SUFFICES ASSUME DropInv, [SpoolNext]_spoolVars PROVE DropInv'
    OBVIOUS
  <2>1. SpoolInv'
    BY SpoolInvNext DEF DropInv
  <2>2. ASSUME Tick PROVE DroppedIsGone' /\ DropsAccounted'
    BY <2>2 DEF Tick, history, spooled, DropInv, DroppedIsGone, DropsAccounted
  <2>3. ASSUME UNCHANGED spoolVars PROVE DroppedIsGone' /\ DropsAccounted'
    BY <2>3 DEF spoolVars, spooled, DropInv, DroppedIsGone, DropsAccounted
  <2> QED
    BY <2>1, <2>2, <2>3, DropSteps DEF DropInv, SpoolNext
<1>3. DropInv => DropsAccounted
  BY DEF DropInv
<1> QED
  BY <1>1, <1>2, <1>3, PTL DEF SpoolSpec

------------------------------------------------------------------------------
(* One process on the file, the single-mode deployment.                    *)

\* Between the check and the DELETE that follows it nothing but time passes,
\* and time makes no excess go away.
ExcessLasts == \A p \in Procs : pc[p] = "drop" => Excess

\* A row that is too old stays so, and no row becomes the oldest by waiting.
LEMMA TickKeepsExcess == SpoolInv /\ Tick /\ Excess => Excess'
<1> SUFFICES ASSUME SpoolInv, Tick, Excess PROVE Excess'
  OBVIOUS
<1>1. spooled' = spooled /\ pages' = pages
  BY DEF Tick, spooled
<1>2. ASSUME NEW r \in spooled, spool[r].age > MaxAge PROVE spool'[r].age > MaxAge
  <2>1. spool[r].age \in Nat /\ MaxAge \in Nat
    BY SpoolAssumption DEF LoadSpool, SpoolInv, SpoolTypeOK, Row
  <2>2. spool'[r].age = Later(spool[r].age, MaxAge + 1)
    BY DEF Tick, Aged, spooled
  <2> QED
    BY <1>2, <2>1, <2>2 DEF Later
<1>3. TooOld => TooOld'
  BY <1>1, <1>2 DEF TooOld, First
<1> QED
  BY <1>1, <1>3 DEF Excess, TooLarge

\* Every step of the only process keeps ExcessLasts.
LEMMA ExcessNext ==
  ASSUME NEW p0, Procs = {p0}, SpoolInv, ExcessLasts, [SpoolNext]_spoolVars
  PROVE  ExcessLasts'
<1>0. pc \in [Procs -> Label]
  BY DEF SpoolInv, SpoolTypeOK
<1>1. ASSUME Tick PROVE ExcessLasts'
  BY <1>1, TickKeepsExcess DEF Tick, ExcessLasts
<1>2. ASSUME UNCHANGED spoolVars PROVE ExcessLasts'
  BY <1>2 DEF spoolVars, ExcessLasts, Excess, TooLarge, TooOld, spooled
<1>3. ASSUME RetentionCheck(p0) PROVE ExcessLasts'
  <2>1. Excess' = Excess
    BY <1>3 DEF RetentionCheck, tables, Excess, TooLarge, TooOld, spooled
  <2> QED
    BY <1>0, <1>3, <2>1 DEF RetentionCheck, Goto, ExcessLasts
<1>4. ASSUME CycleStep(p0) \/ Stop(p0), ~RetentionCheck(p0) PROVE ExcessLasts'
  <2>1. pc'[p0] # "drop"
    BY <1>0, <1>4 DEF CycleStep, LocalStep, Stop, BeginCycle, Enqueue, Select, DeleteRow, MarkFailure,
                      EndBatch, NoRowLeft, DropOldest, BumpDrops, Measure, SaveDepth, SaveDrops,
                      StartSend, SendReturn, Goto
  <2> QED
    BY <2>1 DEF ExcessLasts
<1> QED
  BY <1>1, <1>2, <1>3, <1>4 DEF SpoolNext

\* With one process retention deletes the oldest row, and only while a bound
\* is exceeded at the moment of the DELETE (spool.go:361-384).
THEOREM RetentionIsJustified ==
  ASSUME NEW p0, Procs = {p0}
  PROVE  SpoolSpec => RetentionDropsOnlyExcess
<1>1. SpoolInit => ExcessLasts
  BY DEF SpoolInit, ExcessLasts
<1>2. SpoolInv /\ ExcessLasts /\ [SpoolNext]_spoolVars => ExcessLasts'
  BY ExcessNext
<1>3. SpoolInv /\ ExcessLasts /\ [SpoolNext]_spoolVars
        => [\A r \in dropped' \ dropped : Excess /\ First(spooled, r)]_spoolVars
  <2> SUFFICES ASSUME SpoolInv, ExcessLasts, [SpoolNext]_spoolVars, NEW r \in dropped' \ dropped
               PROVE  Excess /\ First(spooled, r)
    OBVIOUS
  <2>1. DropOldest(p0)
    BY DEF SpoolNext, CycleStep, LocalStep, Stop, Tick, BeginCycle, Enqueue, Select, DeleteRow,
                     MarkFailure, EndBatch, RetentionCheck, NoRowLeft, BumpDrops, Measure, SaveDepth,
                     SaveDrops, StartSend, SendReturn, history, spoolVars
  <2> QED
    BY <2>1 DEF DropOldest, Goto, ExcessLasts
<1> QED
  BY <1>1, <1>2, <1>3, SpoolInvInit, SpoolInvNext, PTL DEF SpoolSpec, RetentionDropsOnlyExcess

------------------------------------------------------------------------------
(* The way of drops_total into the payloads, for one process whose reads   *)
(* do not fail.                                                            *)

\* Rows get growing ids.
IdsGrow == \A r \in produced : \A s \in Runs \ produced : r < s

\* What the process has read lies between the last report and the counter.
SnapFits ==
  /\ saved.drops <= dropsTotal
  /\ \A p \in Procs :
       /\ pc[p] = "enqueue" => snap[p].drops = saved.drops
       /\ pc[p] \in {"saveDepth", "saveDrops"}
            => saved.drops <= snap[p].drops /\ snap[p].drops <= dropsTotal

ReportInv == IdsGrow /\ SnapFits /\ ReportsNeverRegress

\* Enqueue appends a report that equals the saved one.
LEMMA EnqueueReports ==
  ASSUME SpoolInv, ReportInv, NEW p \in Procs, Enqueue(p)
  PROVE  IdsGrow' /\ ReportsNeverRegress'
<1> USE RunsAssumption DEF ReportInv
<1>0. /\ produced \subseteq Runs /\ payload \in [produced -> Snapshot] /\ saved \in Snapshot
      /\ snap \in [Procs -> Snapshot] /\ dropsTotal \in Nat
  BY DEF SpoolInv, SpoolTypeOK
<1>1. CASE UNCHANGED payload
  BY <1>1 DEF Enqueue, IdsGrow, ReportsNeverRegress, produced
<1>2. ASSUME NEW n \in Runs \ produced, First(Runs \ produced, n),
             payload' = [s \in produced \cup {n} |-> IF s = n THEN snap[p] ELSE payload[s]]
      PROVE  IdsGrow' /\ ReportsNeverRegress'
  <2>1. produced' = produced \cup {n}
    BY <1>2 DEF produced
  <2>2. IdsGrow'
    BY <1>0, <1>2, <2>1 DEF IdsGrow, First
  <2>3. payload'[n].drops = saved.drops
    BY <1>2 DEF Enqueue, Goto, SnapFits
  <2>4. \A r \in produced : /\ payload'[r] = payload[r]
                            /\ payload[r].drops \in Nat
                            /\ payload[r].drops <= saved.drops
                            /\ ~(n <= r)
    BY <1>0, <1>2 DEF IdsGrow, ReportsNeverRegress, Snapshot
  <2>5. saved.drops \in Nat /\ saved.drops <= dropsTotal
    BY <1>0 DEF Snapshot, SnapFits
  <2>6. saved' = saved /\ dropsTotal' = dropsTotal
    BY DEF Enqueue
  <2>7. ASSUME NEW r \in produced', NEW s \in produced', r <= s
        PROVE  payload'[r].drops <= payload'[s].drops
    BY <2>1, <2>3, <2>4, <2>5, <2>7 DEF ReportsNeverRegress
  <2>8. ASSUME NEW r \in produced'
        PROVE  payload'[r].drops <= saved'.drops /\ saved'.drops <= dropsTotal'
    BY <2>1, <2>3, <2>4, <2>5, <2>6
  <2> QED
    BY <2>2, <2>7, <2>8 DEF ReportsNeverRegress
<1> QED
  BY <1>1, <1>2 DEF Enqueue

\* Every other step keeps the reports, lets the counter grow and moves the
\* saved value only towards it.
LEMMA OthersReport ==
  ASSUME SpoolInv, ReportInv, payload' = payload,
         saved'.drops \in Nat, dropsTotal' \in Nat,
         saved.drops <= saved'.drops, saved'.drops <= dropsTotal'
  PROVE  IdsGrow' /\ ReportsNeverRegress'
<1>1. payload \in [produced -> Snapshot] /\ saved.drops \in Nat
  BY DEF SpoolInv, SpoolTypeOK, Snapshot
<1>2. \A r \in produced : payload[r].drops \in Nat
  BY <1>1 DEF Snapshot
<1> QED
  BY <1>1, <1>2 DEF ReportInv, IdsGrow, ReportsNeverRegress, produced

\* One process, and no read fails: every step keeps ReportInv.
LEMMA ReportNext ==
  ASSUME NEW p0, Procs = {p0}, "readerr" \notin Faults, SpoolInv, ReportInv, [SpoolNext]_spoolVars
  PROVE  ReportInv'
<1>0. /\ pc \in [Procs -> Label] /\ snap \in [Procs -> Snapshot] /\ saved \in Snapshot
      /\ dropsTotal \in Nat /\ saved.drops \in Nat /\ snap[p0].drops \in Nat
  BY DEF SpoolInv, SpoolTypeOK, Snapshot
<1>a. SnapFits
  BY DEF ReportInv
<1>1. ASSUME Enqueue(p0) PROVE ReportInv'
  <2>1. SnapFits'
    BY <1>0, <1>1, <1>a DEF Enqueue, Goto, SnapFits
  <2> QED
    BY <1>1, <2>1, EnqueueReports DEF ReportInv
<1>2. ASSUME payload' = payload, dropsTotal' \in Nat, dropsTotal <= dropsTotal', saved'.drops \in Nat,
             saved.drops <= saved'.drops, SnapFits'
      PROVE  ReportInv'
  BY <1>2, OthersReport DEF ReportInv, SnapFits
<1>3. ASSUME BeginCycle(p0) PROVE ReportInv'
  <2>1. snap'[p0] = saved /\ saved' = saved
    BY <1>0, <1>3 DEF BeginCycle, LastDrainSnapshot, tables
  <2> QED
    BY <1>0, <1>2, <1>3, <1>a, <2>1 DEF BeginCycle, Goto, tables, SnapFits
<1>4. ASSUME Measure(p0) PROVE ReportInv'
  <2>1. snap'[p0].drops = dropsTotal
    BY <1>0, <1>4 DEF Measure, DropsTotal
  <2> QED
    BY <1>0, <1>2, <1>4, <1>a, <2>1 DEF Measure, Goto, tables, SnapFits
<1>5. ASSUME SaveDepth(p0) \/ SaveDrops(p0) PROVE ReportInv'
  BY <1>0, <1>2, <1>5, <1>a DEF SaveDepth, SaveDrops, Goto, locals, SnapFits
<1>6. ASSUME BumpDrops(p0) PROVE ReportInv'
  BY <1>0, <1>2, <1>6, <1>a DEF BumpDrops, Goto, locals, SnapFits
<1>7. ASSUME Stop(p0) PROVE ReportInv'
  BY <1>0, <1>2, <1>7, <1>a DEF Stop, tables, SnapFits
<1>8. ASSUME UNCHANGED <<payload, dropsTotal, saved, snap>>,
             \/ UNCHANGED pc
             \/ \E to \in Label \ {"enqueue", "saveDepth", "saveDrops"} : pc' = [pc EXCEPT ![p0] = to]
      PROVE  ReportInv'
  <2>1. SnapFits'
    BY <1>0, <1>8, <1>a DEF SnapFits
  <2> QED
    BY <1>0, <1>2, <1>8, <2>1
<1>9. ASSUME \/ Select(p0) \/ DeleteRow(p0) \/ MarkFailure(p0) \/ EndBatch(p0) \/ RetentionCheck(p0)
             \/ NoRowLeft(p0) \/ DropOldest(p0) \/ StartSend(p0) \/ Tick \/ UNCHANGED spoolVars
             \/ \E accepted \in BOOLEAN : SendReturn(p0, accepted)
      PROVE  ReportInv'
  BY <1>8, <1>9 DEF Select, DeleteRow, MarkFailure, EndBatch, RetentionCheck, NoRowLeft, DropOldest,
                    StartSend, SendReturn, Tick, spoolVars, tables, locals, Goto, Label
<1> QED
  BY <1>1, <1>3, <1>4, <1>5, <1>6, <1>7, <1>9 DEF SpoolNext, CycleStep, LocalStep

\* With one process whose reads succeed, the drops_total of successive
\* payloads never decreases and never exceeds the counter: the differences
\* handleResults takes are not negative when reports arrive in their order
\* (spoke.go:99-115 and 142-146, results.go:90-106).
THEOREM ReportsGrow ==
  ASSUME NEW p0, Procs = {p0}, "readerr" \notin Faults
  PROVE  SpoolSpec => []ReportsNeverRegress
<1>1. SpoolInit => ReportInv
  BY DEF SpoolInit, ReportInv, IdsGrow, SnapFits, ReportsNeverRegress, produced, ZeroSnapshot
<1>2. SpoolInv /\ ReportInv /\ [SpoolNext]_spoolVars => ReportInv'
  BY ReportNext
<1>3. ReportInv => ReportsNeverRegress
  BY DEF ReportInv
<1> QED
  BY <1>1, <1>2, <1>3, SpoolInvInit, SpoolInvNext, PTL DEF SpoolSpec

------------------------------------------------------------------------------
(* What any process reports, however many there are and whichever reads    *)
(* fail.                                                                   *)

\* No report, saved or about to be, is ahead of the counter.
ReportsBounded ==
  /\ saved.drops <= dropsTotal
  /\ \A p \in Procs : snap[p].drops <= dropsTotal
  /\ \A r \in produced : payload[r].drops <= dropsTotal

\* The counter grows, a payload is written once, and what a process reads of
\* the counter or of a report does not exceed it.
LEMMA ReportsBoundedNext ==
  ASSUME SpoolInv, ReportsBounded, [SpoolNext]_spoolVars
  PROVE  /\ ReportsBounded'
         /\ dropsTotal <= dropsTotal'
         /\ \A r \in produced : r \in produced' /\ payload'[r] = payload[r]
<1>0. /\ saved \in Snapshot /\ snap \in [Procs -> Snapshot] /\ payload \in [produced -> Snapshot]
      /\ dropsTotal \in Nat
  BY DEF SpoolInv, SpoolTypeOK
<1>a. /\ saved.drops \in Nat /\ \A p \in Procs : snap[p].drops \in Nat
      /\ \A r \in produced : payload[r].drops \in Nat
  BY <1>0 DEF Snapshot
<1>b. ZeroSnapshot.drops = 0
  BY DEF ZeroSnapshot
<1> DEFINE Goal == /\ ReportsBounded' /\ dropsTotal <= dropsTotal'
                   /\ \A r \in produced : r \in produced' /\ payload'[r] = payload[r]
<1>1. ASSUME NEW p \in Procs, Enqueue(p) PROVE Goal
  <2>1. /\ saved' = saved /\ dropsTotal' = dropsTotal
        /\ snap' = [snap EXCEPT ![p] = ZeroSnapshot]
    BY <1>1 DEF Enqueue
  <2>2. \A q \in Procs : snap'[q].drops <= dropsTotal
    BY <1>0, <1>a, <1>b, <2>1 DEF ReportsBounded
  <2>3. \/ payload' = payload
        \/ \E r \in Runs \ produced :
             payload' = [s \in produced \cup {r} |-> IF s = r THEN snap[p] ELSE payload[s]]
    BY <1>1, ZenonT(40) DEF Enqueue
  <2>4. /\ \A r \in produced' : payload'[r].drops <= dropsTotal
        /\ \A r \in produced : r \in produced' /\ payload'[r] = payload[r]
    BY <2>3 DEF ReportsBounded, produced
  <2> QED
    BY <1>0, <2>1, <2>2, <2>4 DEF ReportsBounded
<1>2. ASSUME payload' = payload, dropsTotal' \in Nat, dropsTotal <= dropsTotal',
             saved'.drops <= dropsTotal, \A q \in Procs : snap'[q].drops <= dropsTotal,
             saved'.drops \in Nat, \A q \in Procs : snap'[q].drops \in Nat
      PROVE  Goal
  BY <1>0, <1>a, <1>2 DEF ReportsBounded, produced
<1>3. ASSUME NEW p \in Procs,
             \/ BeginCycle(p) \/ Measure(p) \/ SaveDepth(p) \/ SaveDrops(p) \/ BumpDrops(p) \/ Stop(p)
      PROVE  Goal
  <2>1. payload' = payload
    BY <1>3 DEF BeginCycle, Measure, SaveDepth, SaveDrops, BumpDrops, Stop, tables
  <2>2. dropsTotal' \in Nat /\ dropsTotal <= dropsTotal'
    BY <1>0, <1>3 DEF BeginCycle, Measure, SaveDepth, SaveDrops, BumpDrops, Stop, tables
  <2>3. saved'.drops \in Nat /\ saved'.drops <= dropsTotal
    BY <1>a, <1>3 DEF BeginCycle, Measure, SaveDepth, SaveDrops, BumpDrops, Stop, tables, ReportsBounded
  <2>4. ASSUME NEW q \in Procs PROVE snap'[q].drops \in Nat /\ snap'[q].drops <= dropsTotal
    <3>1. CASE BeginCycle(p)
      BY <1>0, <1>a, <1>b, <3>1 DEF BeginCycle, LastDrainSnapshot, ReportsBounded
    <3>2. CASE Measure(p)
      BY <1>0, <1>a, <3>2 DEF Measure, DropsTotal, ReportsBounded
    <3>3. CASE SaveDepth(p) \/ BumpDrops(p)
      BY <1>a, <3>3 DEF SaveDepth, BumpDrops, locals, ReportsBounded
    <3>4. CASE SaveDrops(p) \/ Stop(p)
      BY <1>0, <1>a, <1>b, <3>4 DEF SaveDrops, Stop, ReportsBounded
    <3> QED
      BY <1>3, <3>1, <3>2, <3>3, <3>4
  <2> QED
    BY <1>2, <2>1, <2>2, <2>3, <2>4
<1>4. ASSUME UNCHANGED <<payload, dropsTotal, saved, snap>> PROVE Goal
  BY <1>0, <1>a, <1>2, <1>4 DEF ReportsBounded
<1>5. ASSUME NEW p \in Procs,
             \/ Select(p) \/ DeleteRow(p) \/ MarkFailure(p) \/ EndBatch(p) \/ RetentionCheck(p)
             \/ NoRowLeft(p) \/ DropOldest(p) \/ StartSend(p)
             \/ \E accepted \in BOOLEAN : SendReturn(p, accepted)
      PROVE  UNCHANGED <<payload, dropsTotal, saved, snap>>
  BY <1>5, ZenonT(40) DEF Select, DeleteRow, MarkFailure, EndBatch, RetentionCheck, NoRowLeft, DropOldest,
              StartSend, SendReturn, tables, locals
<1>6. ASSUME Tick \/ UNCHANGED spoolVars PROVE UNCHANGED <<payload, dropsTotal, saved, snap>>
  BY <1>6 DEF Tick, spoolVars, locals
<1> QED
  BY <1>1, <1>3, <1>4, <1>5, <1>6, ZenonT(40) DEF SpoolNext, CycleStep, LocalStep

------------------------------------------------------------------------------
(* The window of a row.  Induction is used in the form of the least number *)
(* that a set does not hold.                                               *)

\* A set that holds 0 and the successors of its numbers holds them all.
LEMMA NatSetInduction ==
  ASSUME NEW S, 0 \in S, \A n \in Nat : n \in S => n + 1 \in S
  PROVE  \A n \in Nat : n \in S
<1> DEFINE T == Nat \ S
<1> SUFFICES ASSUME T # {} PROVE FALSE
  OBVIOUS
<1>1. PICK x \in T : \A y \in T : ~(<<y, x>> \in OpToRel(<, Nat))
  BY NatLessThanWellFounded, WFMin
<1>2. x \in Nat /\ x # 0 /\ x - 1 \in Nat /\ x - 1 \notin S /\ x - 1 < x
  OBVIOUS
<1>3. <<x - 1, x>> \in OpToRel(<, Nat)
  BY <1>2 DEF OpToRel
<1> QED
  BY <1>1, <1>2, <1>3

\* f holds the loop variable of Backoff after each of its first n rounds.
Windows(f, n, base, max) ==
  f = [i \in 0..n |-> IF i = 0 THEN base ELSE Doubled(f[i - 1], max)]

\* The loop has such values, whatever its arguments.
LEMMA WindowsExist ==
  ASSUME NEW base, NEW max
  PROVE  \A n \in Nat : \E f : Windows(f, n, base, max)
<1> DEFINE S == {n \in Nat : \E f : Windows(f, n, base, max)}
<1>1. 0 \in S
  <2>1. Windows([i \in 0..0 |-> base], 0, base, max)
    BY DEF Windows
  <2> QED
    BY <2>1
<1>2. ASSUME NEW n \in Nat, n \in S PROVE n + 1 \in S
  <2>1. PICK f : Windows(f, n, base, max)
    BY <1>2
  <2> DEFINE g == [i \in 0..(n + 1) |-> IF i <= n THEN f[i] ELSE Doubled(f[n], max)]
  <2>2. Windows(g, n + 1, base, max)
    BY <2>1 DEF Windows
  <2> QED
    BY <2>2
<1> HIDE DEF S
<1>3. \A n \in Nat : n \in S
  BY <1>1, <1>2, NatSetInduction
<1> QED
  BY <1>3 DEF S

\* They do not depend on how many more rounds there are.
LEMMA WindowsUnique ==
  ASSUME NEW base, NEW max, NEW f, NEW g, NEW n \in Nat, NEW m \in Nat,
         Windows(f, n, base, max), Windows(g, m, base, max)
  PROVE  \A i \in Nat : i <= n /\ i <= m => f[i] = g[i]
<1> DEFINE S == {i \in Nat : i <= n /\ i <= m => f[i] = g[i]}
<1>1. 0 \in S
  BY DEF Windows
<1>2. ASSUME NEW i \in Nat, i \in S PROVE i + 1 \in S
  BY <1>2 DEF Windows
<1> HIDE DEF S
<1>3. \A i \in Nat : i \in S
  BY <1>1, <1>2, NatSetInduction
<1> QED
  BY <1>3 DEF S

\* The loop of Backoff is such an f.
LEMMA BackoffIs ==
  ASSUME NEW n \in Int, NEW base, NEW max, NEW m, m = IF n < 0 THEN 0 ELSE n
  PROVE  \E f : /\ Windows(f, m, base, max)
                /\ Backoff(n, base, max) = IF f[m] > max THEN max ELSE f[m]
<1> DEFINE k == IF n < 0 THEN 0 ELSE n
           w[i \in 0..k] == IF i = 0 THEN base ELSE Doubled(w[i - 1], max)
<1>1. Windows(w, k, base, max)
  BY WindowsExist DEF Windows
<1>2. Backoff(n, base, max) = IF w[k] > max THEN max ELSE w[k]
  BY DEF Backoff
<1> HIDE DEF w, k
<1>3. m = k
  BY DEF k
<1> QED
  BY <1>1, <1>2, <1>3

\* No round leaves base..max, although the product may wrap.
LEMMA WindowsBounded ==
  ASSUME NEW base \in Nat \ {0}, NEW max \in Nat, base <= max, max <= MaxInt,
         NEW n \in Nat, NEW f, Windows(f, n, base, max)
  PROVE  \A i \in Nat : i <= n => f[i] \in base..max
<1> DEFINE S == {i \in Nat : i <= n => f[i] \in base..max}
<1>1. 0 \in S
  BY DEF Windows
<1>2. ASSUME NEW i \in Nat, i \in S PROVE i + 1 \in S
  <2> SUFFICES ASSUME i + 1 <= n PROVE f[i + 1] \in base..max
    OBVIOUS
  <2>1. f[i] \in base..max /\ f[i + 1] = Doubled(f[i], max)
    BY <1>2 DEF Windows
  <2> QED
    BY <2>1, MaxIntAssumption DEF Doubled, Wrap
<1> HIDE DEF S
<1>3. \A i \in Nat : i \in S
  BY <1>1, <1>2, NatSetInduction
<1> QED
  BY <1>3 DEF S

\* Backoff starts at base and doubles until it reaches max, where it stays: for
\* every word size, and every base and max that LoadSpool accepts, however
\* often the doubling overflows (backoff.go:9-26).
THEOREM WindowDoubles ==
  ASSUME NEW base \in Nat \ {0}, NEW max \in Nat, base <= max, max <= MaxInt
  PROVE  /\ \A n \in Int : n <= 0 => Backoff(n, base, max) = base
         /\ \A n \in Nat :
              /\ Backoff(n, base, max) \in base..max
              /\ Backoff(n + 1, base, max) = IF 2 * Backoff(n, base, max) < max
                                             THEN 2 * Backoff(n, base, max) ELSE max
<1>1. ASSUME NEW n \in Int, n <= 0 PROVE Backoff(n, base, max) = base
  <2>1. PICK f : /\ Windows(f, 0, base, max)
                 /\ Backoff(n, base, max) = IF f[0] > max THEN max ELSE f[0]
    BY <1>1, BackoffIs
  <2>2. f[0] = base
    BY <2>1 DEF Windows
  <2> QED
    BY <2>1, <2>2
<1>2. ASSUME NEW n \in Nat
      PROVE  \E f : Windows(f, n, base, max) /\ Backoff(n, base, max) = f[n] /\ f[n] \in base..max
  <2>1. PICK f : /\ Windows(f, n, base, max)
                 /\ Backoff(n, base, max) = IF f[n] > max THEN max ELSE f[n]
    BY BackoffIs
  <2>2. f[n] \in base..max
    BY <2>1, WindowsBounded
  <2> QED
    BY <2>1, <2>2
<1>3. ASSUME NEW n \in Nat
      PROVE  Backoff(n + 1, base, max) = IF 2 * Backoff(n, base, max) < max
                                         THEN 2 * Backoff(n, base, max) ELSE max
  <2>1. PICK f : Windows(f, n, base, max) /\ Backoff(n, base, max) = f[n] /\ f[n] \in base..max
    BY <1>2
  <2>2. PICK g : Windows(g, n + 1, base, max) /\ Backoff(n + 1, base, max) = g[n + 1]
    BY <1>2
  <2>3. g[n] = f[n]
    BY <2>1, <2>2, WindowsUnique
  <2>4. g[n + 1] = Doubled(g[n], max)
    BY <2>2 DEF Windows
  <2>5. Doubled(f[n], max) = IF 2 * f[n] < max THEN 2 * f[n] ELSE max
    BY <2>1, MaxIntAssumption DEF Doubled, Wrap
  <2> QED
    BY <2>1, <2>2, <2>3, <2>4, <2>5
<1> QED
  BY <1>1, <1>2, <1>3

\* backoff.go:6 "min(2^attempts * base, max)": so it is for every number of
\* attempts and every word size.  pow is the sequence of the powers of two.
THEOREM WindowIsPower ==
  ASSUME NEW base \in Nat \ {0}, NEW max \in Nat, base <= max, max <= MaxInt,
         NEW pow \in [Nat -> Nat], pow[0] = 1, \A n \in Nat : pow[n + 1] = 2 * pow[n]
  PROVE  \A n \in Nat : Backoff(n, base, max) = IF pow[n] * base < max THEN pow[n] * base ELSE max
<1> DEFINE Exact(n) == IF pow[n] * base < max THEN pow[n] * base ELSE max
           S == {n \in Nat : Backoff(n, base, max) = Exact(n)}
<1>1. 0 \in S
  <2>1. Backoff(0, base, max) = base /\ pow[0] * base = base
    BY WindowDoubles
  <2> QED
    BY <2>1
<1>2. ASSUME NEW n \in Nat, n \in S PROVE n + 1 \in S
  <2>1. Backoff(n + 1, base, max) = IF 2 * Backoff(n, base, max) < max
                                    THEN 2 * Backoff(n, base, max) ELSE max
    BY WindowDoubles
  <2>2. pow[n] \in Nat /\ pow[n] * base \in Nat /\ pow[n + 1] * base = 2 * (pow[n] * base)
    <3>1. pow[n] \in Nat /\ pow[n + 1] = 2 * pow[n]
      OBVIOUS
    <3>2. \A x \in Nat : x * base \in Nat /\ (2 * x) * base = 2 * (x * base)
      OBVIOUS
    <3> QED
      BY <3>1, <3>2
  <2>3. Backoff(n, base, max) = Exact(n)
    BY <1>2
  <2>4. ASSUME NEW x \in Nat, NEW y \in Nat, y = 2 * x
        PROVE  LET b == IF x < max THEN x ELSE max
               IN  (IF 2 * b < max THEN 2 * b ELSE max) = (IF y < max THEN y ELSE max)
    BY <2>4
  <2>5. Backoff(n + 1, base, max) = Exact(n + 1)
    BY <2>1, <2>2, <2>3, <2>4
  <2> QED
    BY <2>5
<1> HIDE DEF S
<1>3. \A n \in Nat : n \in S
  BY <1>1, <1>2, NatSetInduction
<1> QED
  BY <1>3 DEF S

\* f holds the first powers of two, up to the n-th.
Powers(f, n) == f = [i \in 0..n |-> IF i = 0 THEN 1 ELSE 2 * f[i - 1]]

\* There are such sequences.
LEMMA PowersExist == \A n \in Nat : \E f : Powers(f, n)
<1> DEFINE S == {n \in Nat : \E f \in [0..n -> Nat] : Powers(f, n)}
<1>1. 0 \in S
  <2>1. Powers([i \in 0..0 |-> 1], 0) /\ [i \in 0..0 |-> 1] \in [0..0 -> Nat]
    BY DEF Powers
  <2> QED
    BY <2>1
<1>2. ASSUME NEW n \in Nat, n \in S PROVE n + 1 \in S
  <2>1. PICK f \in [0..n -> Nat] : Powers(f, n)
    BY <1>2
  <2> DEFINE g == [i \in 0..(n + 1) |-> IF i <= n THEN f[i] ELSE 2 * f[n]]
  <2>2. g \in [0..(n + 1) -> Nat]
    OBVIOUS
  <2>3. ASSUME NEW i \in 0..(n + 1) PROVE g[i] = IF i = 0 THEN 1 ELSE 2 * g[i - 1]
    <3>1. CASE i = 0
      BY <2>1, <3>1 DEF Powers
    <3>2. CASE i # 0 /\ i <= n
      <4>1. i - 1 \in 0..n /\ i \in 0..n /\ f[i] = 2 * f[i - 1]
        BY <2>1, <3>2 DEF Powers
      <4> QED
        BY <3>2, <4>1
    <3>3. CASE i = n + 1
      BY <3>3
    <3> QED
      BY <3>1, <3>2, <3>3
  <2>4. Powers(g, n + 1)
    BY <2>3 DEF Powers
  <2> HIDE DEF g
  <2> QED
    BY <2>2, <2>4
<1> HIDE DEF S
<1>3. \A n \in Nat : n \in S
  BY <1>1, <1>2, NatSetInduction
<1> QED
  BY <1>3 DEF S

\* They are sequences of numbers, and agree where both are defined.
LEMMA PowersUnique ==
  ASSUME NEW n \in Nat, NEW m \in Nat, NEW f, NEW g, Powers(f, n), Powers(g, m)
  PROVE  \A i \in Nat : i <= n /\ i <= m => f[i] = g[i] /\ f[i] \in Nat
<1> DEFINE S == {i \in Nat : i <= n /\ i <= m => f[i] = g[i] /\ f[i] \in Nat}
<1>1. 0 \in S
  BY DEF Powers
<1>2. ASSUME NEW i \in Nat, i \in S PROVE i + 1 \in S
  BY <1>2 DEF Powers
<1> HIDE DEF S
<1>3. \A i \in Nat : i \in S
  BY <1>1, <1>2, NatSetInduction
<1> QED
  BY <1>3 DEF S

\* PowerOf2 gives the elements of one infinite sequence.
LEMMA PowerOf2Facts ==
  /\ PowerOf2(0) = 1
  /\ \A n \in Nat : PowerOf2(n) \in Nat /\ PowerOf2(n + 1) = 2 * PowerOf2(n)
<1>1. ASSUME NEW n \in Nat PROVE \E f : Powers(f, n) /\ PowerOf2(n) = f[n]
  <2> DEFINE p[i \in 0..n] == IF i = 0 THEN 1 ELSE 2 * p[i - 1]
  <2>1. Powers(p, n)
    BY PowersExist DEF Powers
  <2>2. PowerOf2(n) = p[n]
    BY DEF PowerOf2
  <2> HIDE DEF p
  <2> QED
    BY <2>1, <2>2
<1>2. PowerOf2(0) = 1
  <2>1. PICK f : Powers(f, 0) /\ PowerOf2(0) = f[0]
    BY <1>1
  <2> QED
    BY <2>1 DEF Powers
<1>3. ASSUME NEW n \in Nat PROVE PowerOf2(n) \in Nat /\ PowerOf2(n + 1) = 2 * PowerOf2(n)
  <2>1. PICK f : Powers(f, n) /\ PowerOf2(n) = f[n]
    BY <1>1
  <2>2. PICK g : Powers(g, n + 1) /\ PowerOf2(n + 1) = g[n + 1]
    BY <1>1
  <2>3. f[n] = g[n] /\ f[n] \in Nat
    BY <2>1, <2>2, PowersUnique
  <2>4. g[n + 1] = 2 * g[n]
    BY <2>2 DEF Powers
  <2> QED
    BY <2>1, <2>2, <2>3, <2>4
<1> QED
  BY <1>2, <1>3

\* backoff.go:6 "min(2^attempts * base, max)": so it is for every word size,
\* every base and max that LoadSpool accepts and every number of attempts, not
\* only for the counts the run evaluates.
THEOREM WindowsAreCappedPowers ==
  (\A n \in Int : IsCappedPower(n)) /\ (SpoolSpec => []WindowIsCappedPower)
<1> DEFINE pow == [n \in Nat |-> PowerOf2(n)]
<1>1. /\ pow \in [Nat -> Nat] /\ pow[0] = 1 /\ \A n \in Nat : pow[n + 1] = 2 * pow[n]
      /\ \A n \in Nat : pow[n] = PowerOf2(n)
  BY PowerOf2Facts
<1> HIDE DEF pow
<1>2. ASSUME NEW n \in Int PROVE IsCappedPower(n)
  <2> SUFFICES ASSUME NEW base \in 1..MaxInt, NEW max \in base..MaxInt, NEW m, NEW exact,
                      m = IF n < 0 THEN 0 ELSE n, exact = PowerOf2(m) * base
               PROVE  Backoff(n, base, max) = IF exact < max THEN exact ELSE max
    BY DEF IsCappedPower
  <2>1. base \in Nat \ {0} /\ max \in Nat /\ base <= max /\ max <= MaxInt
    BY MaxIntAssumption
  <2>2. m \in Nat /\ exact = pow[m] * base
    BY <1>1
  <2>3. \A k \in Nat :
          Backoff(k, base, max) = IF pow[k] * base < max THEN pow[k] * base ELSE max
    BY <1>1, <2>1, WindowIsPower
  <2>4. Backoff(n, base, max) = Backoff(m, base, max)
    <3>1. CASE n < 0
      <4>1. Backoff(n, base, max) = base /\ Backoff(0, base, max) = base
        BY <2>1, <3>1, WindowDoubles
      <4> QED
        BY <3>1, <4>1
    <3>2. CASE ~(n < 0)
      BY <3>2
    <3> QED
      BY <3>1, <3>2
  <2> QED
    BY <2>2, <2>3, <2>4
<1>3. WindowIsCappedPower
  BY <1>2 DEF WindowIsCappedPower
<1>4. SpoolSpec => []WindowIsCappedPower
  BY <1>3, PTL
<1> QED
  BY <1>2, <1>4

------------------------------------------------------------------------------
(* Backoff, for one process on the file.                                   *)

\* The rows of a batch are still there, and past their window.
BatchIsDue == \A p \in Procs : \A r \in batch[p] : r \in spooled /\ Due(r)

\* A batch does not outlive its drain.
BatchInDrain == \A p \in Procs : batch[p] # {} => pc[p] \in {"drain", "wait", "delete", "mark"}

\* The window of a row is a number of ticks that its idle time can reach.
LEMMA WindowInRange ==
  ASSUME SpoolInv, NEW r \in spooled
  PROVE  /\ Backoff(spool[r].attempts, BackoffBase, BackoffMax) \in Nat
         /\ Backoff(spool[r].attempts, BackoffBase, BackoffMax) <= BackoffMax
<1>1. spool[r].attempts \in Nat
  BY DEF SpoolInv, SpoolTypeOK, Row
<1>2. /\ BackoffBase \in Nat \ {0} /\ BackoffMax \in Nat
      /\ BackoffBase <= BackoffMax /\ BackoffMax <= MaxInt
  BY SpoolAssumption DEF LoadSpool
<1>3. Backoff(spool[r].attempts, BackoffBase, BackoffMax) \in BackoffBase..BackoffMax
  BY <1>1, <1>2, WindowDoubles
<1> QED
  BY <1>2, <1>3

\* A row that is due stays so while time passes.
LEMMA TickKeepsDue ==
  ASSUME SpoolInv, Tick, NEW r \in spooled, Due(r)
  PROVE  r \in spooled' /\ Due(r)'
<1> DEFINE w == Backoff(spool[r].attempts, BackoffBase, BackoffMax)
<1>1. w \in Nat /\ w <= BackoffMax /\ BackoffMax \in Nat
  BY WindowInRange, SpoolAssumption DEF LoadSpool
<1>2. spooled' = spooled /\ spool'[r] = Aged(spool[r])
  BY DEF Tick, spooled
<1>3. /\ spool'[r].attempts = spool[r].attempts
      /\ spool'[r].idle = IF spool[r].idle = NULL THEN NULL ELSE Later(spool[r].idle, BackoffMax)
  BY <1>2 DEF Aged
<1>4. spool[r].idle \in Nat \cup {NULL}
  BY DEF SpoolInv, SpoolTypeOK, Row
<1> HIDE DEF w
<1>5. spool[r].idle = NULL \/ spool[r].idle >= w
  BY DEF Due, w
<1>6. spool'[r].idle = NULL \/ spool'[r].idle >= w
  BY <1>1, <1>3, <1>4, <1>5, SpoolAssumption DEF Later
<1> QED
  BY <1>2, <1>3, <1>6 DEF Due, w

\* The drain goes on until its batch is empty, or the cycle ends.
LEMMA BatchInDrainNext ==
  ASSUME SpoolInv, BatchInDrain, [SpoolNext]_spoolVars
  PROVE  BatchInDrain'
<1>0. batch \in [Procs -> SUBSET produced] /\ pc \in [Procs -> Label]
  BY DEF SpoolInv, SpoolTypeOK
<1>1. CASE UNCHANGED <<pc, batch>>
  BY <1>1 DEF BatchInDrain
<1>2. ASSUME NEW p \in Procs, CycleStep(p) \/ Stop(p) PROVE BatchInDrain'
  <2>1. \A q \in Procs : q # p => pc'[q] = pc[q] /\ batch'[q] = batch[q]
    BY <1>0, <1>2, ZenonT(40)
    DEF CycleStep, LocalStep, Stop, BeginCycle, Enqueue, Select, DeleteRow, MarkFailure, EndBatch,
        RetentionCheck, NoRowLeft, DropOldest, BumpDrops, Measure, SaveDepth, SaveDrops, StartSend,
        SendReturn, Goto, locals
  <2>2. batch'[p] # {} => pc'[p] \in {"drain", "wait", "delete", "mark"}
    BY <1>0, <1>2
    DEF BatchInDrain, CycleStep, LocalStep, Stop, BeginCycle, Enqueue, Select, DeleteRow, MarkFailure,
        EndBatch, RetentionCheck, NoRowLeft, DropOldest, BumpDrops, Measure, SaveDepth, SaveDrops,
        StartSend, SendReturn, Goto, locals
  <2> QED
    BY <2>1, <2>2 DEF BatchInDrain
<1> QED
  BY <1>1, <1>2 DEF SpoolNext, Tick, locals, spoolVars

\* The statements of the only process touch no row of its batch but the one
\* they take out of it.
LEMMA BatchNext ==
  ASSUME NEW p0, Procs = {p0}, SpoolInv, BatchInDrain, BatchIsDue, [SpoolNext]_spoolVars
  PROVE  BatchIsDue'
<1> SpoolTypeOK
  BY DEF SpoolInv
<1>0. batch \in [Procs -> SUBSET produced]
  BY DEF SpoolTypeOK
<1>1. ASSUME Tick PROVE BatchIsDue'
  BY <1>1, TickKeepsDue DEF Tick, locals, BatchIsDue
<1>2. ASSUME Select(p0) PROVE BatchIsDue'
  <2>1. spool' = spool /\ batch'[p0] = Candidates
    BY <1>0, <1>2 DEF Select, tables
  <2> QED
    BY <2>1 DEF Candidates, BatchIsDue, Due, spooled
<1>3. ASSUME NEW r, batch' = [batch EXCEPT ![p0] = @ \ {r}],
             \A s \in spooled \ {r} : s \in spooled' /\ spool'[s] = spool[s]
      PROVE  BatchIsDue'
  BY <1>0, <1>3 DEF BatchIsDue, Due
<1>4. ASSUME DeleteRow(p0) PROVE BatchIsDue'
  <2>1. PICK r \in batch[p0] : batch' = [batch EXCEPT ![p0] = @ \ {r}] /\ spool' = Without(r)
    BY <1>4 DEF DeleteRow
  <2> QED
    BY <1>3, <2>1 DEF Without, spooled
<1>5. ASSUME MarkFailure(p0) PROVE BatchIsDue'
  <2>1. PICK r \in batch[p0] :
          /\ batch' = [batch EXCEPT ![p0] = @ \ {r}]
          /\ spool' = [s \in spooled |->
               IF s = r THEN [age |-> spool[s].age,
                              attempts |-> IF spool[s].attempts < AttemptCap
                                           THEN spool[s].attempts + 1 ELSE AttemptCap,
                              idle |-> phase]
                        ELSE spool[s]]
    BY <1>5 DEF MarkFailure
  <2> QED
    BY <1>3, <2>1 DEF spooled
<1>6. ASSUME Stop(p0) PROVE BatchIsDue'
  BY <1>0, <1>6 DEF Stop, BatchIsDue
<1>7. ASSUME Enqueue(p0) \/ DropOldest(p0) PROVE BatchIsDue'
  <2>1. batch' = batch /\ batch[p0] = {}
    BY <1>7 DEF Enqueue, DropOldest, Goto, locals, BatchInDrain
  <2> QED
    BY <2>1 DEF BatchIsDue
<1>8. ASSUME UNCHANGED <<batch, spool>> PROVE BatchIsDue'
  BY <1>8 DEF BatchIsDue, Due, spooled
<1> QED
  BY <1>1, <1>2, <1>4, <1>5, <1>6, <1>7, <1>8
  DEF SpoolNext, CycleStep, LocalStep, BeginCycle, EndBatch, RetentionCheck, NoRowLeft, BumpDrops,
      Measure, SaveDepth, SaveDrops, StartSend, SendReturn, tables, locals, spoolVars

\* With one process, every row that is sent is in the spool and past its
\* window, counted from the failure last recorded, although Drain looks at the
\* windows only once and the sends before it in the batch take time
\* (spool.go:289-328).
THEOREM BackoffIsHonoured ==
  ASSUME NEW p0, Procs = {p0}
  PROVE  SpoolSpec => BackoffHonoured
<1>1. SpoolInit => BatchInDrain /\ BatchIsDue
  BY DEF SpoolInit, BatchInDrain, BatchIsDue
<1>2. SpoolInv /\ BatchInDrain /\ BatchIsDue /\ [SpoolNext]_spoolVars => (BatchInDrain /\ BatchIsDue)'
  BY BatchInDrainNext, BatchNext
<1>3. BatchIsDue => [\A p \in Procs, r \in Runs :
                       pc[p] = "drain" /\ pc'[p] = "wait" /\ First(batch[p], r)
                         => r \in spooled /\ Due(r)]_spoolVars
  BY DEF BatchIsDue, First
<1> QED
  BY <1>1, <1>2, <1>3, SpoolInvInit, SpoolInvNext, PTL DEF SpoolSpec, BackoffHonoured

------------------------------------------------------------------------------
(* What retention achieves.  It looks at the file and at the oldest row;   *)
(* that this says enough about all rows needs an invariant of its own.     *)

\* Ages that no comparison tells apart are one.
Cap(age) == IF age > MaxAge THEN MaxAge + 1 ELSE age

\* The rows fit into the file, rows get growing ids, and the older of two
\* rows has the smaller id; a row inserted now would be the youngest.
OrderInv ==
  /\ Cardinality(spooled) <= pages
  /\ IdsGrow
  /\ \A r, s \in spooled : r <= s => Cap(spool[s].age) <= Cap(spool[r].age)
  /\ \A r \in spooled : Cap(phase) <= Cap(spool[r].age)

\* A tick keeps the order of two ages.
LEMMA TickKeepsOrder ==
  ASSUME NEW a \in Nat, NEW b \in Nat, Cap(a) <= Cap(b)
  PROVE  /\ Cap(Later(a, MaxAge + 1)) <= Cap(Later(b, MaxAge + 1))
         /\ \A n \in 0..(a + 1) : Cap(n) <= Cap(Later(b, MaxAge + 1))
BY SpoolAssumption DEF Cap, Later, LoadSpool

\* Rows that go or stay as old as they are keep the order.
LEMMA OrderKept ==
  ASSUME SpoolInv, OrderInv, UNCHANGED <<payload, pages, phase>>, spooled' \subseteq spooled,
         \A r \in spooled' : spool'[r].age = spool[r].age
  PROVE  OrderInv'
<1>1. IsFiniteSet(spooled) /\ Cardinality(spooled) \in Nat /\ pages \in Nat
  BY SpoolIsFinite DEF SpoolInv, SpoolTypeOK
<1>2. Cardinality(spooled') <= Cardinality(spooled) /\ Cardinality(spooled') \in Nat
  BY <1>1, FS_Subset, FS_CardinalityType
<1>3. Cardinality(spooled') <= pages'
  BY <1>1, <1>2 DEF OrderInv
<1>4. IdsGrow'
  BY DEF OrderInv, IdsGrow, produced
<1> QED
  BY <1>3, <1>4 DEF OrderInv, Cap

\* The INSERT adds the largest id and the smallest age, and the file grows to
\* hold the row.
LEMMA OrderEnqueue ==
  ASSUME SpoolInv, OrderInv, NEW p \in Procs, Enqueue(p)
  PROVE  OrderInv'
<1> USE RunsAssumption
<1> SpoolTypeOK
  BY DEF SpoolInv
<1>1. CASE UNCHANGED <<payload, spool, pages>>
  BY <1>1, OrderKept DEF Enqueue, spooled
<1>2. ASSUME NEW n \in Runs \ produced, First(Runs \ produced, n),
             payload' = [s \in produced \cup {n} |-> IF s = n THEN snap[p] ELSE payload[s]],
             spool' = [s \in spooled \cup {n} |-> IF s = n THEN NewRow ELSE spool[s]],
             pages' = Footprint(Cardinality(spooled \cup {n}))
      PROVE  OrderInv'
  <2>1. produced' = produced \cup {n} /\ spooled' = spooled \cup {n} /\ phase' = phase
    BY <1>2 DEF Enqueue, produced, spooled
  <2>2. Cardinality(spooled \cup {n}) \in Nat /\ pages \in Nat
    BY SpoolIsFinite DEF SpoolTypeOK
  <2>3. Cardinality(spooled') <= pages'
    <3>1. ASSUME NEW c \in Nat PROVE c <= Footprint(c)
      BY <2>2 DEF Footprint
    <3> QED
      BY <1>2, <2>1, <2>2, <3>1
  <2>4. produced \subseteq Runs /\ spooled \subseteq produced
    BY DEF SpoolTypeOK
  <2>5. IdsGrow'
    BY <1>2, <2>1, <2>4 DEF OrderInv, IdsGrow, First
  <2>6. \A r \in spooled : r < n /\ r \in Nat /\ spool'[r] = spool[r] /\ r # n
    BY <1>2, <2>4 DEF OrderInv, IdsGrow
  <2>7. n \in Nat /\ spool'[n].age = phase /\ phase \in Nat /\ Cap(phase) <= Cap(phase)
    BY <1>2, SpoolAssumption DEF NewRow, SpoolTypeOK, Cap, LoadSpool
  <2>8. ASSUME NEW r \in spooled', NEW s \in spooled', r <= s
        PROVE  Cap(spool'[s].age) <= Cap(spool'[r].age)
    <3>1. CASE s = n /\ r = n
      BY <2>7, <3>1
    <3>2. CASE s = n /\ r \in spooled
      BY <2>6, <2>7, <3>2 DEF OrderInv
    <3>3. CASE s \in spooled /\ r = n
      BY <2>6, <2>7, <2>8, <3>3
    <3>4. CASE s \in spooled /\ r \in spooled
      BY <2>6, <2>8, <3>4 DEF OrderInv
    <3> QED
      BY <2>1, <3>1, <3>2, <3>3, <3>4
  <2>9. ASSUME NEW r \in spooled' PROVE Cap(phase') <= Cap(spool'[r].age)
    BY <2>1, <2>6, <2>7 DEF OrderInv
  <2>10. \A r, s \in spooled' : r <= s => Cap(spool'[s].age) <= Cap(spool'[r].age)
    BY <2>8
  <2>11. \A r \in spooled' : Cap(phase') <= Cap(spool'[r].age)
    BY <2>9
  <2> QED
    BY <2>3, <2>5, <2>10, <2>11 DEF OrderInv, Cap
<1> QED
  BY <1>1, <1>2, ZenonT(40) DEF Enqueue

\* Time passes for all rows alike, and a new second starts at age zero.
LEMMA OrderTick ==
  ASSUME SpoolInv, OrderInv, Tick
  PROVE  OrderInv'
<1>1. /\ spooled' = spooled /\ produced' = produced /\ pages' = pages
      /\ \A r \in spooled : spool'[r].age = Later(spool[r].age, MaxAge + 1)
  BY DEF Tick, Aged, spooled, produced
<1>2. phase \in Nat /\ Second \in Nat \ {0} /\ \A r \in spooled : spool[r].age \in Nat
  BY SpoolAssumption DEF SpoolInv, SpoolTypeOK, Row
<1>3. phase' \in 0..(phase + 1)
  BY <1>2 DEF Tick
<1>4. IdsGrow'
  BY <1>1 DEF OrderInv, IdsGrow
<1>5. \A r, s \in spooled : r <= s => Cap(spool'[s].age) <= Cap(spool'[r].age)
  BY <1>1, <1>2, TickKeepsOrder DEF OrderInv
<1>6. \A r \in spooled : Cap(phase') <= Cap(spool'[r].age)
  BY <1>1, <1>2, <1>3, TickKeepsOrder DEF OrderInv
<1> QED
  BY <1>1, <1>4, <1>5, <1>6 DEF OrderInv, Cap

\* OrderInv is inductive: for any number of processes, and wherever they stop.
LEMMA OrderNext == SpoolInv /\ OrderInv /\ [SpoolNext]_spoolVars => OrderInv'
<1> SUFFICES ASSUME SpoolInv, OrderInv, [SpoolNext]_spoolVars PROVE OrderInv'
  OBVIOUS
<1>1. ASSUME NEW p \in Procs, DeleteRow(p) \/ DropOldest(p) PROVE OrderInv'
  <2>1. UNCHANGED <<payload, pages, phase>> /\ \E r : spool' = Without(r)
    BY <1>1, ZenonT(40) DEF DeleteRow, DropOldest
  <2>2. spooled' \subseteq spooled /\ \A r \in spooled' : spool'[r].age = spool[r].age
    BY <2>1 DEF Without, spooled
  <2> QED
    BY <2>1, <2>2, OrderKept
<1>2. ASSUME NEW p \in Procs, MarkFailure(p) PROVE OrderInv'
  <2>1. UNCHANGED <<payload, pages, phase>> /\ spooled' = spooled
    BY <1>2 DEF MarkFailure, spooled
  <2>2. \A r \in spooled : spool'[r].age = spool[r].age
    BY <1>2 DEF MarkFailure
  <2> QED
    BY <2>1, <2>2, OrderKept
<1>3. ASSUME UNCHANGED <<payload, spool, pages, phase>> PROVE OrderInv'
  BY <1>3, OrderKept DEF spooled
<1>4. ASSUME NEW p \in Procs,
             \/ BeginCycle(p) \/ Select(p) \/ EndBatch(p) \/ RetentionCheck(p) \/ NoRowLeft(p)
             \/ BumpDrops(p) \/ Measure(p) \/ SaveDepth(p) \/ SaveDrops(p) \/ StartSend(p) \/ Stop(p)
             \/ \E accepted \in BOOLEAN : SendReturn(p, accepted)
      PROVE  UNCHANGED <<payload, spool, pages, phase>>
  BY <1>4, ZenonT(40) DEF BeginCycle, Select, EndBatch, RetentionCheck, NoRowLeft, BumpDrops, Measure,
     SaveDepth, SaveDrops, StartSend, Stop, SendReturn, tables
<1>5. ASSUME UNCHANGED spoolVars PROVE UNCHANGED <<payload, spool, pages, phase>>
  BY <1>5 DEF spoolVars
<1> QED
  BY <1>1, <1>2, <1>3, <1>4, <1>5, OrderEnqueue, OrderTick, ZenonT(60) DEF SpoolNext, CycleStep, LocalStep

\* There is an oldest row as long as there is a row.
LEMMA OldestExists ==
  ASSUME SpoolInv, spooled # {}
  PROVE  \E r \in spooled : First(spooled, r)
<1>1. spooled \subseteq Nat
  BY RunsAssumption DEF SpoolInv, SpoolTypeOK
<1>2. PICK x \in spooled : \A y \in spooled : ~(<<y, x>> \in OpToRel(<, Nat))
  BY <1>1, NatLessThanWellFounded, WFMin
<1>3. \A y \in spooled : ~(y < x)
  BY <1>1, <1>2 DEF OpToRel
<1> QED
  BY <1>1, <1>3 DEF First

\* When nothing is in excess, no row is too old and the rows fit.
LEMMA NoExcess ==
  ASSUME SpoolInv, OrderInv, ~Excess
  PROVE  /\ Cardinality(spooled) <= MaxSize
         /\ \A r \in spooled : spool[r].age <= MaxAge
<1>1. /\ MaxSize \in Nat /\ MaxAge \in Nat /\ pages \in Nat /\ Cardinality(spooled) \in Nat
      /\ \A r \in spooled : spool[r].age \in Nat
  BY SpoolIsFinite, SpoolAssumption DEF LoadSpool, SpoolInv, SpoolTypeOK, Row
<1>2. CASE spooled = {}
  BY <1>1, <1>2, FS_EmptySet
<1>3. CASE spooled # {}
  <2>1. ~TooLarge /\ ~TooOld
    BY <1>3 DEF Excess
  <2>2. Cardinality(spooled) <= MaxSize
    BY <1>1, <2>1 DEF TooLarge, OrderInv
  <2>3. PICK r \in spooled : First(spooled, r)
    BY <1>3, OldestExists
  <2>4. spool[r].age <= MaxAge
    BY <1>1, <2>1, <2>3 DEF TooOld
  <2>5. ASSUME NEW s \in spooled PROVE spool[s].age <= MaxAge
    <3>1. Cap(spool[s].age) <= Cap(spool[r].age)
      BY <2>3 DEF First, OrderInv
    <3> QED
      BY <1>1, <2>4, <3>1 DEF Cap
  <2> QED
    BY <2>2, <2>5
<1> QED
  BY <1>2, <1>3

\* OrderInv holds of an empty file.
LEMMA OrderInit == SpoolInit => OrderInv
<1> SUFFICES ASSUME SpoolInit PROVE OrderInv
  OBVIOUS
<1>1. spooled = {} /\ produced = {} /\ pages = 0
  BY DEF SpoolInit, spooled, produced
<1> QED
  BY <1>1, FS_EmptySet DEF OrderInv, IdsGrow

\* The steps that end a retention.
LEMMA RetentionEnds ==
  ASSUME SpoolInv, [SpoolNext]_spoolVars, NEW p \in Procs,
         pc[p] \in {"retain", "drop"}, pc'[p] = "measure"
  PROVE  ~Excess
<1>0. pc \in [Procs -> Label]
  BY DEF SpoolInv, SpoolTypeOK
<1>1. RetentionCheck(p) \/ NoRowLeft(p)
  <2>1. ASSUME NEW q \in Procs, CycleStep(q) \/ Stop(q), q # p PROVE FALSE
    <3>1. pc'[p] = pc[p]
      BY <1>0, <2>1
      DEF CycleStep, LocalStep, Stop, BeginCycle, Enqueue, Select, DeleteRow, MarkFailure, EndBatch,
          RetentionCheck, NoRowLeft, DropOldest, BumpDrops, Measure, SaveDepth, SaveDrops, StartSend,
          SendReturn, Goto
    <3> QED
      BY <3>1
  <2>2. ASSUME CycleStep(p) \/ Stop(p) PROVE RetentionCheck(p) \/ NoRowLeft(p)
    BY <1>0, <2>2
    DEF CycleStep, LocalStep, Stop, BeginCycle, Enqueue, Select, DeleteRow, MarkFailure, EndBatch,
        DropOldest, BumpDrops, Measure, SaveDepth, SaveDrops, StartSend, SendReturn, Goto
  <2> QED
    BY <2>1, <2>2 DEF SpoolNext, Tick, spoolVars
<1> QED
  BY <1>0, <1>1 DEF RetentionCheck, NoRowLeft, Excess, Goto

\* With one process, enforceRetention returns only when no row is too old and
\* the rows left fit into MaxSize (spool.go:353-400), for every configuration
\* LoadSpool accepts, every number of rows and wherever earlier cycles stopped.
THEOREM RetentionIsSufficient ==
  ASSUME NEW p0, Procs = {p0}
  PROVE  SpoolSpec => RetentionSuffices
<1>1. SpoolInv /\ OrderInv /\ [SpoolNext]_spoolVars
        => [\A p \in Procs :
              pc[p] \in {"retain", "drop"} /\ pc'[p] = "measure"
                => /\ Cardinality(spooled) <= MaxSize
                   /\ \A r \in spooled : spool[r].age <= MaxAge]_spoolVars
  BY NoExcess, RetentionEnds
<1> QED
  BY <1>1, OrderInit, OrderNext, SpoolInvInit, SpoolInvNext, PTL DEF SpoolSpec, RetentionSuffices

------------------------------------------------------------------------------
(* How far the file can grow when every cycle comes to its retention.      *)

\* Between the INSERT of a cycle and the end of its retention.
Indebted == {p \in Procs : pc[p] \in {"select", "drain", "wait", "delete", "mark", "retain",
                                      "drop", "bump"}}

\* The rows beyond MaxSize are those of cycles that have yet to enforce it.
DebtInv == Cardinality(spooled) <= MaxSize + Cardinality(Indebted)

FileInv == pages <= MaxSize + Cardinality(Procs)

\* Indebted, before and after a process moves.
LEMMA IndebtedMoves ==
  ASSUME SpoolInv, NEW p \in Procs, NEW to \in Label, pc' = [pc EXCEPT ![p] = to]
  PROVE  /\ Cardinality(Indebted) \in Nat /\ Cardinality(Indebted') \in Nat
         /\ Cardinality(Indebted') <= Cardinality(Procs) /\ Cardinality(Procs) \in Nat
         /\ (p \in Indebted <=> p \in Indebted') => Cardinality(Indebted') = Cardinality(Indebted)
         /\ p \notin Indebted /\ p \in Indebted'
              => Cardinality(Indebted') = Cardinality(Indebted) + 1
<1>1. /\ IsFiniteSet(Indebted) /\ IsFiniteSet(Indebted')
      /\ Cardinality(Indebted') <= Cardinality(Procs)
  <2>1. Indebted \in SUBSET Procs /\ Indebted' \in SUBSET Procs
    BY DEF Indebted
  <2> QED
    BY <2>1, SpoolAssumption, FS_Subset
<1>2. pc \in [Procs -> Label]
  BY DEF SpoolInv, SpoolTypeOK
<1>3. \A q \in Procs \ {p} : q \in Indebted' <=> q \in Indebted
  BY <1>2 DEF Indebted
<1>4. Indebted \subseteq Procs /\ Indebted' \subseteq Procs
  BY DEF Indebted
<1>5. ASSUME p \in Indebted <=> p \in Indebted' PROVE Indebted' = Indebted
  BY <1>3, <1>4, <1>5
<1>6. ASSUME p \notin Indebted, p \in Indebted'
      PROVE  Cardinality(Indebted') = Cardinality(Indebted) + 1
  <2>1. Indebted' = Indebted \cup {p}
    BY <1>3, <1>4, <1>6
  <2> QED
    BY <1>1, <1>6, <2>1, FS_AddElement
<1>7. Cardinality(Indebted) \in Nat /\ Cardinality(Indebted') \in Nat /\ Cardinality(Procs) \in Nat
  BY <1>1, SpoolAssumption, FS_CardinalityType
<1> QED
  BY <1>1, <1>5, <1>6, <1>7

\* A step that adds no row and neither starts nor ends a debt.
LEMMA DebtKept ==
  ASSUME SpoolInv, DebtInv, FileInv, spooled' \subseteq spooled, pages' = pages,
         \/ pc' = pc
         \/ \E p \in Procs, to \in Label :
              pc' = [pc EXCEPT ![p] = to] /\ (p \in Indebted <=> p \in Indebted')
  PROVE  DebtInv' /\ FileInv'
<1>1. IsFiniteSet(spooled) /\ Cardinality(spooled) \in Nat
  BY SpoolIsFinite
<1>2. Cardinality(spooled') <= Cardinality(spooled) /\ Cardinality(spooled') \in Nat
  BY <1>1, FS_Subset, FS_CardinalityType
<1>3. Cardinality(Indebted') = Cardinality(Indebted) /\ Cardinality(Indebted) \in Nat
  <2>1. CASE pc' = pc
    <3>1. Indebted' = Indebted /\ Indebted \in SUBSET Procs
      BY <2>1 DEF Indebted
    <3> QED
      BY <3>1, SpoolAssumption, FS_Subset, FS_CardinalityType
  <2> QED
    BY <2>1, IndebtedMoves
<1>4. MaxSize \in Nat
  BY SpoolAssumption DEF LoadSpool
<1> QED
  BY <1>1, <1>2, <1>3, <1>4 DEF DebtInv, FileInv

\* The INSERT makes a row and a debt.
LEMMA DebtEnqueue ==
  ASSUME SpoolInv, DebtInv, FileInv, NEW p \in Procs, Enqueue(p)
  PROVE  DebtInv' /\ FileInv'
<1>0. pc \in [Procs -> Label] /\ pages \in Nat /\ MaxSize \in Nat
  BY SpoolAssumption DEF SpoolInv, SpoolTypeOK, LoadSpool
<1>1. /\ Cardinality(Indebted') = Cardinality(Indebted) + 1 /\ Cardinality(Indebted) \in Nat
      /\ Cardinality(Indebted') <= Cardinality(Procs) /\ Cardinality(Procs) \in Nat
  <2>1. p \notin Indebted /\ p \in Indebted' /\ pc' = [pc EXCEPT ![p] = "select"] /\ "select" \in Label
    BY <1>0 DEF Enqueue, Goto, Indebted, Label
  <2> QED
    BY <2>1, IndebtedMoves
<1>2. CASE UNCHANGED <<payload, spool, pages>>
  <2>1. spooled' = spooled /\ pages' = pages /\ Cardinality(spooled) \in Nat
    BY <1>2, SpoolIsFinite DEF spooled
  <2> QED
    BY <1>0, <1>1, <2>1 DEF DebtInv, FileInv
<1>3. ASSUME NEW n \in Runs \ produced,
             spool' = [s \in spooled \cup {n} |-> IF s = n THEN NewRow ELSE spool[s]],
             pages' = Footprint(Cardinality(spooled \cup {n}))
      PROVE  DebtInv' /\ FileInv'
  <2>1. spooled' = spooled \cup {n}
    BY <1>3 DEF spooled
  <2>2. IsFiniteSet(spooled) /\ Cardinality(spooled) \in Nat
    BY SpoolIsFinite
  <2>3. n \notin spooled
    BY DEF SpoolInv, SpoolTypeOK
  <2>4. Cardinality(spooled') = Cardinality(spooled) + 1
    BY <2>1, <2>2, <2>3, FS_AddElement
  <2>5. DebtInv'
    BY <1>0, <1>1, <2>2, <2>4 DEF DebtInv
  <2>6. Cardinality(spooled') <= MaxSize + Cardinality(Procs)
    BY <1>0, <1>1, <2>2, <2>4 DEF DebtInv
  <2>7. pages' = Cardinality(spooled') \/ pages' = pages
    BY <1>3, <2>1 DEF Footprint
  <2> QED
    BY <2>5, <2>6, <2>7 DEF FileInv
<1> QED
  BY <1>2, <1>3, ZenonT(40) DEF Enqueue

\* Without stops every debt is paid: the end of a retention leaves no more
\* rows than fit.
LEMMA DebtNext ==
  ASSUME "stop" \notin Faults, SpoolInv, OrderInv, DebtInv, FileInv, [SpoolNext]_spoolVars
  PROVE  DebtInv' /\ FileInv'
<1>0. pc \in [Procs -> Label] /\ MaxSize \in Nat
  BY SpoolAssumption DEF SpoolInv, SpoolTypeOK, LoadSpool
<1>1. ASSUME NEW p \in Procs, RetentionCheck(p) \/ NoRowLeft(p) PROVE DebtInv' /\ FileInv'
  <2>1. spooled' = spooled /\ pages' = pages
    BY <1>1 DEF RetentionCheck, NoRowLeft, tables, spooled
  <2>2. CASE Excess
    <3>1. /\ pc' = [pc EXCEPT ![p] = "drop"] /\ pc[p] = "retain"
      BY <1>1, <2>2 DEF RetentionCheck, NoRowLeft, Goto, Excess
    <3>2. "drop" \in Label /\ p \in Indebted /\ p \in Indebted'
      BY <1>0, <3>1 DEF Indebted, Label
    <3> QED
      BY <2>1, <3>1, <3>2, DebtKept
  <2>3. CASE ~Excess
    <3>1. Cardinality(spooled) <= MaxSize /\ Cardinality(spooled) \in Nat
      BY <2>3, NoExcess, SpoolIsFinite
    <3>2. Cardinality(Indebted') \in Nat
      <4>1. Indebted' \in SUBSET Procs
        BY DEF Indebted
      <4> QED
        BY <4>1, SpoolAssumption, FS_Subset, FS_CardinalityType
    <3> QED
      BY <1>0, <2>1, <3>1, <3>2 DEF DebtInv, FileInv
  <2> QED
    BY <2>2, <2>3
<1>2. ASSUME NEW p \in Procs,
             \/ BeginCycle(p) \/ Select(p) \/ DeleteRow(p) \/ MarkFailure(p) \/ EndBatch(p)
             \/ DropOldest(p) \/ BumpDrops(p) \/ Measure(p) \/ SaveDepth(p) \/ SaveDrops(p)
             \/ StartSend(p) \/ \E accepted \in BOOLEAN : SendReturn(p, accepted)
      PROVE  DebtInv' /\ FileInv'
  <2>1. spooled' \subseteq spooled
    BY <1>2 DEF BeginCycle, Select, DeleteRow, MarkFailure, EndBatch, DropOldest, BumpDrops, Measure,
                SaveDepth, SaveDrops, StartSend, SendReturn, tables, Without, spooled
  <2>2. pages' = pages
    BY <1>2, ZenonT(40) DEF BeginCycle, Select, DeleteRow, MarkFailure, EndBatch, DropOldest, BumpDrops,
                Measure, SaveDepth, SaveDrops, StartSend, SendReturn, tables
  <2>3. \E to \in Label : pc' = [pc EXCEPT ![p] = to] /\ (p \in Indebted <=> p \in Indebted')
    BY <1>0, <1>2 DEF BeginCycle, Select, DeleteRow, MarkFailure, EndBatch, DropOldest, BumpDrops,
                Measure, SaveDepth, SaveDrops, StartSend, SendReturn, Goto, Label, Indebted
  <2> QED
    BY <2>1, <2>2, <2>3, DebtKept
<1>3. ASSUME Tick \/ UNCHANGED spoolVars PROVE DebtInv' /\ FileInv'
  <2>1. spooled' = spooled /\ pages' = pages /\ pc' = pc
    BY <1>3 DEF Tick, spoolVars, spooled
  <2> QED
    BY <2>1, DebtKept
<1>4. \A p \in Procs : ~Stop(p)
  BY DEF Stop
<1> QED
  BY <1>1, <1>2, <1>3, <1>4, DebtEnqueue, ZenonT(60) DEF SpoolNext, CycleStep, LocalStep

\* The file never outgrows MaxSize by more than a row per process, as long as
\* no cycle ends between its INSERT and its retention: every cycle inserts
\* before it looks at the size (spoke.go:99-131, spool.go:353-400).
THEOREM FileIsBounded ==
  ASSUME "stop" \notin Faults
  PROVE  SpoolSpec => [](pages <= MaxSize + Cardinality(Procs))
<1>1. SpoolInit => DebtInv /\ FileInv
  <2> SUFFICES ASSUME SpoolInit PROVE DebtInv /\ FileInv
    OBVIOUS
  <2>1. spooled = {} /\ Indebted = {} /\ pages = 0
    BY DEF SpoolInit, spooled, Indebted
  <2>2. MaxSize \in Nat /\ Cardinality(Procs) \in Nat
    BY SpoolAssumption, FS_CardinalityType DEF LoadSpool
  <2> QED
    BY <2>1, <2>2, FS_EmptySet DEF DebtInv, FileInv
<1>2. SpoolInv /\ OrderInv /\ DebtInv /\ FileInv /\ [SpoolNext]_spoolVars => DebtInv' /\ FileInv'
  BY DebtNext
<1>3. FileInv => pages <= MaxSize + Cardinality(Procs)
  BY DEF FileInv
<1> QED
  BY <1>1, <1>2, <1>3, OrderInit, OrderNext, SpoolInvInit, SpoolInvNext, PTL DEF SpoolSpec
==============================================================================
