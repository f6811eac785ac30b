-------------------------- MODULE HeartbeatRunsProofs --------------------------
(***************************************************************************)
(* HeartbeatRuns for every set of agents and issues and every bound: it is *)
(* type correct and executes no row twice.  As long as the start lock is   *)
(* exclusive and cancelActiveForAgentInternal, which writes before it      *)
(* kills, is not used, it stays within both caps and implements            *)
(* RunAdmission, execution locks have owners, and a run has one successor. *)
(***************************************************************************)
EXTENDS HeartbeatRuns, FiniteSetTheorems, SequenceTheorems, WellFoundedInduction, TLAPS

------------------------------------------------------------------------------
(* Lemmas about data.                                                      *)

\* A set of naturals that is not empty has a least element.
LEMMA LeastNatural ==
    ASSUME NEW S \in SUBSET Nat, S # {}
    PROVE  \E m \in S : \A x \in S : m <= x
<1>1. PICK m \in S : \A x \in S : ~ (<<x, m>> \in OpToRel(<, Nat))
  BY NatLessThanWellFounded, WFMin
<1>2. \A x \in S : ~ (x < m)
  BY <1>1 DEF OpToRel
<1> QED
  BY <1>2

\* Sets of runs are finite, whatever the bound.
LEMMA RunsAreFinite ==
    ASSUME NEW S \in SUBSET RunId
    PROVE  IsFiniteSet(S) /\ Cardinality(S) \in Nat
<1>1. IsFiniteSet(RunId)
  BY FS_Interval, BoundAssumption DEF RunId
<1> QED
  BY <1>1, FS_Subset, FS_CardinalityType

\* How many slots an activation may use: an integer, within both caps.
LEMMA SlotsType ==
    ASSUME NEW a \in Agent
    PROVE  /\ AvailableSlots(a) \in Int
           /\ AvailableSlots(a) <= AgentMax - Cardinality(RunningOf(a))
           /\ AvailableSlots(a) <= GlobalMax - Cardinality(Running)
<1>1. Cardinality(RunningOf(a)) \in Nat /\ Cardinality(Running) \in Nat
  BY RunsAreFinite DEF RunningOf, Running
<1> QED
  BY <1>1, CapAssumption DEF AvailableSlots, Min2

\* The rows the handlers build are rows of heartbeat_runs.
LEMMA RowTypes ==
    /\ AbsentRow \in RunRow
    /\ \A a \in Agent, i \in Issue \cup {NoIssue}, w \in Wake :
          /\ QueuedRow(a, i, w) \in RunRow
          /\ QueuedRow(a, i, w).status = "queued"
          /\ QueuedRow(a, i, w).agent = a
<1>1. AbsentRow \in RunRow
  BY BoundAssumption DEF AbsentRow, RunRow, Wake, RetryReason
<1>2. \A a \in Agent, i \in Issue \cup {NoIssue}, w \in Wake :
         /\ QueuedRow(a, i, w) \in RunRow
         /\ QueuedRow(a, i, w).status = "queued"
         /\ QueuedRow(a, i, w).agent = a
  BY <1>1 DEF RunRow, QueuedRow, Path
<1> QED
  BY <1>1, <1>2

\* Merging two wakes gives a wake.
LEMMA MergeWakeType == \A w, v \in Wake : MergeWake(w, v) \in Wake
  BY DEF MergeWake, Wake

\* Inserting a row within the bound keeps the table a table.
LEMMA InsertType ==
    ASSUME TypeOK, Room, NEW row \in RunRow, Insert(row)
    PROVE  /\ run' \in [RunId -> RunRow]
           /\ nRuns' \in 0..MaxRuns
           /\ nRuns + 1 \in RunId
  BY BoundAssumption DEF TypeOK, Room, Insert, RunId

\* Cutting a list of parked wake-ups leaves a list of parked wake-ups.
LEMMA SubSeqType ==
    ASSUME NEW S, NEW s \in Seq(S), NEW m \in 1..(Len(s) + 1), NEW n \in 0..Len(s)
    PROVE  SubSeq(s, m, n) \in Seq(S)
<1>1. Len(s) \in Nat /\ \A i \in 1..Len(s) : s[i] \in S
  BY LenProperties, ElementOfSeq
<1>2. \A i \in m..n : s[i] \in S
  BY <1>1
<1> QED
  BY <1>1, <1>2, SubSeqProperties

\* ActiveExecutionRun names no run, or one that is on the path for the issue.
LEMMA ActiveOnPath ==
    ASSUME TypeOK, NEW i \in Issue, NEW rows \in [RunId -> RunRow],
           ActiveExecutionRun(i, rows) # 0
    PROVE  /\ ActiveExecutionRun(i, rows) \in RunId
           /\ rows[ActiveExecutionRun(i, rows)].status \in Path
           /\ rows[ActiveExecutionRun(i, rows)].issue = i
<1> DEFINE path == {r \in RunId : rows[r].status \in Path /\ rows[r].issue = i}
           older(r, q) == \/ (rows[r].status = "running" /\ rows[q].status = "queued")
                          \/ (rows[r].status = rows[q].status /\ r <= q)
           busy == {r \in path : rows[r].status = "running"}
<1>1. path \subseteq Nat /\ busy \subseteq Nat
  BY DEF RunId
<1>2. ASSUME path # {} PROVE \E r \in path : \A q \in path : older(r, q)
  <2>1. CASE busy # {}
    <3>1. PICK m \in busy : \A x \in busy : m <= x
      BY <1>1, <2>1, LeastNatural
    <3> QED
      BY <3>1 DEF Path
  <2>2. CASE busy = {}
    <3>1. PICK m \in path : \A x \in path : m <= x
      BY <1>1, <1>2, LeastNatural
    <3> QED
      BY <2>2, <3>1 DEF Path
  <2> QED
    BY <2>1, <2>2
<1>3. ActiveExecutionRun(i, rows) = IF lock[i] \in path THEN lock[i]
                                    ELSE IF path = {} THEN 0
                                    ELSE CHOOSE r \in path : \A q \in path : older(r, q)
  BY DEF ActiveExecutionRun
<1> HIDE DEF path, older
<1>4. ActiveExecutionRun(i, rows) \in path
  BY <1>2, <1>3
<1> QED
  BY <1>4 DEF path

------------------------------------------------------------------------------
(* Type correctness, handler by handler.                                   *)

\* The data a release transaction writes.
DataType ==
    /\ run \in [RunId -> RunRow]
    /\ nRuns \in 0..MaxRuns
    /\ lock \in [Issue -> 0..MaxRuns]
    /\ issue \in [Issue -> IssueRow]
    /\ deferred \in [Issue -> Seq(ParkedWake)]
    /\ startReq \subseteq Agent

\* Releasing a run leaves a lock column.
LEMMA UnlockedType ==
    ASSUME TypeOK, NEW r \in RunId
    PROVE  Unlocked(r) \in [Issue -> 0..MaxRuns]
  BY BoundAssumption DEF TypeOK, Unlocked

\* TypeOK is not inductive: a start call is requested for the agent of a row,
\* and TypeOK lets that be NoAgent.  The rows inserted so far are 1..nRuns, each
\* has an agent, and whatever is under way is about one of them.
RowsInv ==
    \A r \in RunId :
        /\ r <= nRuns <=> run[r].status # "absent"
        /\ r <= nRuns => run[r].agent \in Agent

Known(act, n) ==
    /\ \A k \in DOMAIN act.todo : act.todo[k] <= n
    /\ act.pc # "next" => act.at \in 1..n
    /\ act.claimed \subseteq 1..n

References ==
    /\ \A r \in RunId : exec[r] # "none" \/ cancel[r] # "none" => r <= nRuns
    /\ reaper.seen \subseteq 1..nRuns
    /\ reaper.pc # "idle" => reaper.at \in 1..nRuns
    /\ Known(starter, nRuns)
    /\ \A k \in DOMAIN outer : Known(outer[k], nRuns)

TypeInv == TypeOK /\ RowsInv /\ References

\* A transaction that adds a row, and what it adds.
Inserts ==
    \E row \in RunRow :
        /\ row.status = "queued" /\ row.agent \in Agent
        /\ Room /\ Insert(row)

\* Promoting a parked wake writes well-typed data and adds one row.
LEMMA PromoteType ==
    ASSUME TypeOK, NEW r \in RunId, NEW i \in Issue, NEW k \in DOMAIN deferred[i],
           PromoteDeferred(r, i, k)
    PROVE  DataType' /\ (UNCHANGED <<run, nRuns>> \/ Inserts)
<1> DEFINE d == deferred[i][k]
<1>1. /\ deferred[i] \in Seq(ParkedWake)
      /\ k \in 1..Len(deferred[i]) /\ Len(deferred[i]) \in Nat
  BY LenProperties DEF TypeOK
<1>2. d \in ParkedWake /\ d.agent \in Agent /\ d.wake \in Wake
  <2>1. d \in ParkedWake
    BY <1>1, ElementOfSeq
  <2> QED
    BY <2>1 DEF ParkedWake
<1>3. /\ QueuedRow(d.agent, i, d.wake) \in RunRow
      /\ QueuedRow(d.agent, i, d.wake).status = "queued"
      /\ QueuedRow(d.agent, i, d.wake).agent = d.agent
  BY <1>2, RowTypes
<1>4. /\ run' \in [RunId -> RunRow] /\ nRuns' \in 0..MaxRuns
      /\ nRuns + 1 \in RunId
  BY <1>3, InsertType DEF PromoteDeferred
<1>5. lock' \in [Issue -> 0..MaxRuns]
  <2>1. lock' = [Unlocked(r) EXCEPT
                   ![i] = IF issue[i].assignee = d.agent THEN nRuns + 1 ELSE 0]
    BY DEF PromoteDeferred
  <2>2. nRuns + 1 \in 0..MaxRuns /\ 0 \in 0..MaxRuns
    BY <1>4, BoundAssumption DEF RunId
  <2> QED
    BY <2>1, <2>2, UnlockedType
<1>6. SubSeq(deferred[i], k + 1, Len(deferred[i])) \in Seq(ParkedWake)
  <2>1. k + 1 \in 1..(Len(deferred[i]) + 1) /\ Len(deferred[i]) \in 0..Len(deferred[i])
    BY <1>1
  <2> QED
    BY <1>1, <2>1, SubSeqType
<1>7. deferred' \in [Issue -> Seq(ParkedWake)]
  BY <1>6 DEF TypeOK, PromoteDeferred
<1>8. issue' \in [Issue -> IssueRow]
  <2>1. PICK reopen \in BOOLEAN :
           issue' = IF reopen THEN [issue EXCEPT ![i].status = "todo"] ELSE issue
    BY DEF PromoteDeferred
  <2> QED
    BY <2>1 DEF TypeOK, IssueRow
<1>9. startReq' \subseteq Agent
  BY <1>2 DEF TypeOK, PromoteDeferred, Request
<1>10. Inserts
  BY <1>2, <1>3 DEF Inserts, PromoteDeferred
<1> QED
  BY <1>4, <1>5, <1>7, <1>8, <1>9, <1>10 DEF DataType

\* A recovery writes well-typed data and adds at most one row.
LEMMA RecoverType ==
    ASSUME TypeOK, RowsInv, NEW r \in RunId, r <= nRuns, NEW i \in Issue,
           RecoverIssue(r, i), deferred' = [deferred EXCEPT ![i] = <<>>]
    PROVE  DataType' /\ (UNCHANGED <<run, nRuns>> \/ Inserts)
<1> DEFINE row == [QueuedRow(run[r].agent, i, "assigned") EXCEPT
                        !.retryReason = RecoveryReason(i), !.retryOf = r]
<1>1. run[r].agent \in Agent
  BY DEF RowsInv
<1>2. /\ QueuedRow(run[r].agent, i, "assigned") \in RunRow
      /\ QueuedRow(run[r].agent, i, "assigned").status = "queued"
      /\ QueuedRow(run[r].agent, i, "assigned").agent = run[r].agent
  BY <1>1, RowTypes DEF Wake
<1>3. row \in RunRow /\ row.status = "queued" /\ row.agent = run[r].agent
  <2>1. RecoveryReason(i) \in RetryReason /\ r \in 0..MaxRuns
    BY DEF RecoveryReason, RetryReason, RunId
  <2> QED
    BY <1>2, <2>1 DEF RunRow
<1>4. deferred' \in [Issue -> Seq(ParkedWake)]
  BY EmptySeq DEF TypeOK
<1>5. Unlocked(r) \in [Issue -> 0..MaxRuns]
  BY UnlockedType
<1>6. CASE UNCHANGED <<run, nRuns, startReq>> /\ lock' = Unlocked(r)
           /\ issue' = [issue EXCEPT ![i].status = "blocked"]
  BY <1>4, <1>5, <1>6 DEF TypeOK, DataType, IssueRow
<1>7. CASE /\ Room /\ Insert(row) /\ lock' = [Unlocked(r) EXCEPT ![i] = nRuns + 1]
           /\ Request({run[r].agent}) /\ UNCHANGED issue
  <2>1. /\ run' \in [RunId -> RunRow] /\ nRuns' \in 0..MaxRuns /\ nRuns + 1 \in RunId
    BY <1>3, <1>7, InsertType
  <2>2. lock' \in [Issue -> 0..MaxRuns]
    BY <1>5, <1>7, <2>1 DEF RunId
  <2>3. Inserts
    BY <1>1, <1>3, <1>7 DEF Inserts
  <2> QED
    BY <1>1, <1>4, <1>7, <2>1, <2>2, <2>3 DEF TypeOK, DataType, Request
<1> QED
  BY <1>6, <1>7 DEF RecoverIssue

\* So does every release, whichever way it goes.
LEMMA ReleaseType ==
    ASSUME TypeOK, RowsInv, NEW r \in RunId, r <= nRuns, NEW st,
           ReleaseIssueExecutionAndPromote(r, st)
    PROVE  DataType' /\ (UNCHANGED <<run, nRuns>> \/ Inserts)
<1> DEFINE i == run[r].issue
<1>1. i = NoIssue \/ i \in Issue
  BY DEF TypeOK, RunRow
<1>2. Unlocked(r) \in [Issue -> 0..MaxRuns]
  BY UnlockedType
<1>3. CASE UNCHANGED <<run, nRuns, lock, issue, deferred, startReq>>
  BY <1>3 DEF TypeOK, DataType
<1>4. CASE lock' = Unlocked(r) /\ UNCHANGED <<run, nRuns, issue, deferred, startReq>>
  BY <1>2, <1>4 DEF TypeOK, DataType
<1>5. CASE i \in Issue /\ \E k \in Promotable(i) : PromoteDeferred(r, i, k)
  BY <1>5, PromoteType DEF Promotable
<1>6. CASE i \in Issue /\ deferred' = [deferred EXCEPT ![i] = <<>>] /\ RecoverIssue(r, i)
  BY <1>6, RecoverType
<1>7. CASE /\ i \in Issue /\ deferred' = [deferred EXCEPT ![i] = <<>>]
           /\ lock' = Unlocked(r) /\ UNCHANGED <<run, nRuns, issue, startReq>>
  <2>1. deferred' \in [Issue -> Seq(ParkedWake)]
    BY <1>7, EmptySeq DEF TypeOK
  <2> QED
    BY <1>2, <1>7, <2>1 DEF TypeOK, DataType
<1> QED
  BY <1>1, <1>3, <1>4, <1>5, <1>6, <1>7 DEF ReleaseIssueExecutionAndPromote

\* Every release leaves the rows alone or adds one, and the type invariant of
\* what else it writes follows.
LEMMA ReleaseInv ==
    ASSUME TypeInv, NEW r \in RunId, r <= nRuns, NEW st,
           ReleaseIssueExecutionAndPromote(r, st)
    PROVE  /\ DataType' /\ RowsInv'
           /\ nRuns' \in {nRuns, nRuns + 1}
<1>1. DataType' /\ (UNCHANGED <<run, nRuns>> \/ Inserts)
  BY ReleaseType DEF TypeInv
<1>2. CASE UNCHANGED <<run, nRuns>>
  BY <1>1, <1>2 DEF TypeInv, RowsInv
<1>3. CASE Inserts
  BY <1>1, <1>3, BoundAssumption DEF TypeInv, TypeOK, RowsInv, RunId, Inserts, Insert, Room
<1> QED
  BY <1>1, <1>2, <1>3


\* Writing the status or the pid of a row leaves a row.
LEMMA RowUpdates ==
    ASSUME TypeOK, NEW r \in RunId
    PROVE  /\ \A s \in Path \cup Terminal : [run EXCEPT ![r].status = s] \in [RunId -> RunRow]
           /\ [run EXCEPT ![r].pid = TRUE] \in [RunId -> RunRow]
<1>1. run[r] \in RunRow
  BY DEF TypeOK
<1>2. \A s \in Path \cup Terminal : [run[r] EXCEPT !.status = s] \in RunRow
  BY <1>1 DEF RunRow
<1>3. [run[r] EXCEPT !.pid = TRUE] \in RunRow
  BY <1>1 DEF RunRow
<1> QED
  BY <1>2, <1>3 DEF TypeOK

\* What an activation refers to stays known when rows are added.
LEMMA KnownGrows ==
    ASSUME NEW act \in Activation, NEW n \in Nat, NEW m \in Nat, n <= m, Known(act, n)
    PROVE  Known(act, m)
<1>1. \A k \in DOMAIN act.todo : act.todo[k] \in Nat
  <2>1. act.todo \in Seq(RunId)
    BY DEF Activation
  <2>2. DOMAIN act.todo = 1..Len(act.todo) /\ \A k \in 1..Len(act.todo) : act.todo[k] \in RunId
    BY <2>1, LenProperties, ElementOfSeq
  <2> QED
    BY <2>2 DEF RunId
<1>2. act.at \in Nat
  BY DEF Activation
<1> QED
  BY <1>1, <1>2 DEF Known

\* References' holds if what is referred to afterwards already existed, or was
\* referred to before: a further row does not matter.
LEMMA ReferencesStep ==
    ASSUME TypeInv, nRuns' \in {nRuns, nRuns + 1},
           \A q \in RunId : exec'[q] # "none" \/ cancel'[q] # "none" =>
                q <= nRuns \/ exec[q] # "none" \/ cancel[q] # "none",
           reaper'.seen \subseteq 1..nRuns,
           reaper'.pc # "idle" => reaper'.at \in 1..nRuns,
           starter' \in Activation, Known(starter', nRuns),
           outer' \in Seq(Activation), \A k \in DOMAIN outer' : Known(outer'[k], nRuns)
    PROVE  References'
<1>1. nRuns \in Nat /\ nRuns' \in Nat /\ nRuns <= nRuns'
  BY DEF TypeInv, TypeOK
<1>2. \A r \in RunId : exec'[r] # "none" \/ cancel'[r] # "none" => r <= nRuns'
  BY <1>1 DEF TypeInv, References, RunId
<1>3. reaper'.seen \subseteq 1..nRuns' /\ (reaper'.pc # "idle" => reaper'.at \in 1..nRuns')
  BY <1>1
<1>4. Known(starter', nRuns') /\ \A k \in DOMAIN outer' : Known(outer'[k], nRuns')
  BY <1>1, KnownGrows, LenProperties, ElementOfSeq
<1> QED
  BY <1>2, <1>3, <1>4 DEF References

\* The start activations are not concerned.
LEMMA ReferencesKept ==
    ASSUME TypeInv, nRuns' \in {nRuns, nRuns + 1},
           \A q \in RunId : exec'[q] # "none" \/ cancel'[q] # "none" =>
                q <= nRuns \/ exec[q] # "none" \/ cancel[q] # "none",
           reaper'.seen \subseteq 1..nRuns,
           reaper'.pc # "idle" => reaper'.at \in 1..nRuns,
           UNCHANGED <<starter, outer>>
    PROVE  References'
  BY ReferencesStep DEF TypeInv, TypeOK, References

\* Writing the status of an issue leaves an issue.
LEMMA IssueUpdates ==
    ASSUME TypeOK, NEW i
    PROVE  \A s \in {"todo", "in_progress", "blocked", "done"} :
              [issue EXCEPT ![i].status = s] \in [Issue -> IssueRow]
<1>1. issue \in [Issue -> IssueRow]
  BY DEF TypeOK
<1>2. CASE i \in Issue
  BY <1>1, <1>2 DEF IssueRow
<1>3. CASE i \notin Issue
  BY <1>1, <1>3
<1> QED
  BY <1>2, <1>3

\* Writing the status of an existing row keeps RowsInv.
LEMMA StatusOnly ==
    ASSUME TypeInv, NEW r \in RunId, r <= nRuns, NEW s \in Path \cup Terminal,
           run' = [run EXCEPT ![r].status = s], nRuns' = nRuns
    PROVE  RowsInv'
<1>1. run[r] \in RunRow /\ s # "absent"
  BY DEF TypeInv, TypeOK, Path, Terminal
<1> QED
  BY <1>1 DEF TypeInv, TypeOK, RowsInv, RunRow

\* finalizeAgentStatus writes one of the four agent statuses.
LEMMA FinalizeWriteType ==
    ASSUME TypeOK, NEW a, NEW pc \in Finalizing, FinalizeWrite(a, pc)
    PROVE  agentStatus' \in [Agent -> {"idle", "running", "paused", "error"}]
  BY DEF TypeOK, Finalizing, FinalizeWrite

\* A step that writes at most the status of a row that exists, or its pid.
LEMMA RowFrame ==
    ASSUME TypeInv, NEW r \in RunId, r <= nRuns,
           \/ run' = run
           \/ \E s \in Path \cup Terminal : run' = [run EXCEPT ![r].status = s]
           \/ run' = [run EXCEPT ![r].pid = TRUE],
           nRuns' = nRuns
    PROVE  run' \in [RunId -> RunRow] /\ RowsInv'
<1>1. /\ run \in [RunId -> RunRow]
      /\ \A s \in Path \cup Terminal : [run EXCEPT ![r].status = s] \in [RunId -> RunRow]
      /\ [run EXCEPT ![r].pid = TRUE] \in [RunId -> RunRow]
  BY RowUpdates DEF TypeInv, TypeOK
<1>2. CASE run' = run
  BY <1>1, <1>2 DEF TypeInv, RowsInv
<1>3. CASE \E s \in Path \cup Terminal : run' = [run EXCEPT ![r].status = s]
  <2>1. PICK s \in Path \cup Terminal : run' = [run EXCEPT ![r].status = s]
    BY <1>3
  <2>2. run' \in [RunId -> RunRow]
    BY <1>1, <2>1, Zenon
  <2> QED
    BY <2>1, <2>2, StatusOnly
<1>4. CASE run' = [run EXCEPT ![r].pid = TRUE]
  BY <1>1, <1>4 DEF TypeInv, TypeOK, RowsInv, RunRow
<1> QED
  BY <1>2, <1>3, <1>4

\* An executor step that moves one run on keeps TypeInv.
LEMMA ExecutorFrame ==
    ASSUME TypeInv, NEW r \in RunId, exec[r] # "none",
           NEW e \in ExecState, exec' = [exec EXCEPT ![r] = e],
           \/ run' = run
           \/ \E s \in Path \cup Terminal : run' = [run EXCEPT ![r].status = s]
           \/ run' = [run EXCEPT ![r].pid = TRUE],
           UNCHANGED <<nRuns, cancel, reaper, starter, outer>>
    PROVE  /\ run' \in [RunId -> RunRow]
           /\ exec' \in [RunId -> ExecState]
           /\ RowsInv' /\ References'
<1>1. r <= nRuns
  BY DEF TypeInv, References
<1>2. exec' \in [RunId -> ExecState]
  BY DEF TypeInv, TypeOK
<1>3. References'
  BY <1>1, ReferencesKept DEF TypeInv, TypeOK, References
<1> QED
  BY <1>1, <1>2, <1>3, RowFrame

\* Every step of executeRun keeps TypeInv.
LEMMA ExecutorType ==
    ASSUME TypeInv, NEW r \in RunId, Executes(r)
    PROVE  TypeInv'
<1>1. CASE ExecEnter(r)
  <2>1. \E e \in ExecState : exec' = [exec EXCEPT ![r] = e]
    BY <1>1 DEF ExecEnter, ExecState
  <2>2. issue' \in [Issue -> IssueRow]
    <3>1. issue' = issue \/ issue' = [issue EXCEPT ![run[r].issue].status = "in_progress"]
      BY <1>1 DEF ExecEnter
    <3>2. /\ issue \in [Issue -> IssueRow]
          /\ [issue EXCEPT ![run[r].issue].status = "in_progress"] \in [Issue -> IssueRow]
      BY IssueUpdates DEF TypeInv, TypeOK
    <3> QED
      BY <3>1, <3>2, Zenon
  <2>3. /\ run' \in [RunId -> RunRow] /\ exec' \in [RunId -> ExecState]
        /\ RowsInv' /\ References'
    BY <1>1, <2>1, ExecutorFrame DEF ExecEnter
  <2> QED
    BY <1>1, <2>2, <2>3 DEF ExecEnter, TypeInv, TypeOK
<1>2. CASE ExecSpawn(r)
  <2>1. /\ run' \in [RunId -> RunRow] /\ exec' \in [RunId -> ExecState]
        /\ RowsInv' /\ References'
    BY <1>2, ExecutorFrame DEF ExecSpawn, ExecState
  <2> QED
    BY <1>2, <2>1 DEF ExecSpawn, TypeInv, TypeOK
<1>3. CASE ExecAbort(r)
  <2>1. /\ run' \in [RunId -> RunRow] /\ exec' \in [RunId -> ExecState]
        /\ RowsInv' /\ References'
    BY <1>3, ExecutorFrame DEF ExecAbort, ExecState, Terminal
  <2> QED
    BY <1>3, <2>1 DEF ExecAbort, TypeInv, TypeOK
<1>4. CASE ExecReturn(r)
  <2>1. exec[r] # "none" /\ \E e \in ExecState : exec' = [exec EXCEPT ![r] = e]
    BY <1>4 DEF ExecReturn, ExecState
  <2>2. /\ run' \in [RunId -> RunRow] /\ exec' \in [RunId -> ExecState]
        /\ RowsInv' /\ References'
    BY <1>4, <2>1, ExecutorFrame DEF ExecReturn
  <2> QED
    BY <1>4, <2>2 DEF ExecReturn, TypeInv, TypeOK
<1>5. CASE ExecPersist(r)
  <2>1. exec[r] # "none" /\ \E e \in ExecState : exec' = [exec EXCEPT ![r] = e]
    BY <1>5 DEF ExecPersist, ExecState
  <2>2. \/ run' = run
        \/ \E s \in Path \cup Terminal : run' = [run EXCEPT ![r].status = s]
    BY <1>5 DEF ExecPersist, Terminal
  <2>3. /\ run' \in [RunId -> RunRow] /\ exec' \in [RunId -> ExecState]
        /\ RowsInv' /\ References'
    BY <1>5, <2>1, <2>2, ExecutorFrame DEF ExecPersist
  <2> QED
    BY <1>5, <2>3 DEF ExecPersist, TypeInv, TypeOK
<1>6. CASE ExecRelease(r)
  <2>1. r <= nRuns /\ exec[r] # "none"
    BY <1>6 DEF ExecRelease, TypeInv, References
  <2>2. DataType' /\ RowsInv' /\ nRuns' \in {nRuns, nRuns + 1}
    BY <1>6, <2>1, ReleaseInv DEF ExecRelease
  <2>3. \E e \in ExecState : exec' = [exec EXCEPT ![r] = e]
    BY <1>6 DEF ExecRelease, ExecState
  <2>4. References'
    BY <1>6, <2>1, <2>2, <2>3, ReferencesKept DEF ExecRelease, TypeInv, TypeOK, References
  <2> QED
    BY <1>6, <2>2, <2>3, <2>4 DEF ExecRelease, DataType, TypeInv, TypeOK
<1>7. CASE ExecReleaseThrows(r)
  <2>1. /\ run' \in [RunId -> RunRow] /\ exec' \in [RunId -> ExecState]
        /\ RowsInv' /\ References'
    BY <1>7, ExecutorFrame DEF ExecReleaseThrows, ExecState
  <2> QED
    BY <1>7, <2>1 DEF ExecReleaseThrows, TypeInv, TypeOK
<1>8. CASE ExecFinalize(r)
  <2>1. exec[r] # "none" /\ \E e \in ExecState : exec' = [exec EXCEPT ![r] = e]
    BY <1>8 DEF ExecFinalize, FinalizeRead, ExecState, Finalizing
  <2>2. /\ run' \in [RunId -> RunRow] /\ exec' \in [RunId -> ExecState]
        /\ RowsInv' /\ References'
    BY <1>8, <2>1, ExecutorFrame DEF ExecFinalize
  <2> QED
    BY <1>8, <2>2 DEF ExecFinalize, TypeInv, TypeOK
<1>9. CASE ExecFinalized(r)
  <2>1. agentStatus' \in [Agent -> {"idle", "running", "paused", "error"}]
    BY <1>9, FinalizeWriteType DEF ExecFinalized, TypeInv
  <2>2. /\ run' \in [RunId -> RunRow] /\ exec' \in [RunId -> ExecState]
        /\ RowsInv' /\ References'
    BY <1>9, ExecutorFrame DEF ExecFinalized, ExecState, Finalizing
  <2> QED
    BY <1>9, <2>1, <2>2 DEF ExecFinalized, TypeInv, TypeOK
<1>10. CASE ExecLeave(r)
  <2>1. /\ run' \in [RunId -> RunRow] /\ exec' \in [RunId -> ExecState]
        /\ RowsInv' /\ References'
    BY <1>10, ExecutorFrame DEF ExecLeave, ExecState
  <2>2. startReq' \subseteq Agent
    BY <1>10 DEF ExecLeave, Request, TypeInv, TypeOK, RowsInv, References
  <2> QED
    BY <1>10, <2>1, <2>2 DEF ExecLeave, TypeInv, TypeOK
<1> QED
  BY <1>1, <1>2, <1>3, <1>4, <1>5, <1>6, <1>7, <1>8, <1>9, <1>10 DEF Executes

\* A cancellation step that moves one run on keeps TypeInv.
LEMMA CancelFrame ==
    ASSUME TypeInv, NEW r \in RunId, cancel[r] # "none",
           NEW c \in CancelState, cancel' = [cancel EXCEPT ![r] = c],
           \/ run' = run
           \/ \E s \in Path \cup Terminal : run' = [run EXCEPT ![r].status = s],
           UNCHANGED <<nRuns, exec, reaper, starter, outer>>
    PROVE  /\ run' \in [RunId -> RunRow]
           /\ cancel' \in [RunId -> CancelState]
           /\ RowsInv' /\ References'
<1>1. r <= nRuns
  BY DEF TypeInv, References
<1>2. cancel' \in [RunId -> CancelState]
  BY DEF TypeInv, TypeOK
<1>3. References'
  BY <1>1, ReferencesKept DEF TypeInv, TypeOK, References
<1> QED
  BY <1>1, <1>2, <1>3, RowFrame

\* Every step of a cancellation keeps TypeInv.
LEMMA CancelType ==
    ASSUME TypeInv, NEW r \in RunId, Cancels(r)
    PROVE  TypeInv'
<1>1. CASE CancelKill(r)
  <2>1. cancel[r] # "none" /\ \E c \in CancelState : cancel' = [cancel EXCEPT ![r] = c]
    BY <1>1 DEF CancelKill, CancelState
  <2>2. /\ run' \in [RunId -> RunRow] /\ cancel' \in [RunId -> CancelState]
        /\ RowsInv' /\ References'
    BY <1>1, <2>1, CancelFrame DEF CancelKill
  <2> QED
    BY <1>1, <2>2 DEF CancelKill, TypeInv, TypeOK
<1>2. CASE CancelWrite(r)
  <2>1. cancel[r] # "none" /\ \E c \in CancelState : cancel' = [cancel EXCEPT ![r] = c]
    BY <1>2 DEF CancelWrite, CancelState
  <2>2. \E s \in Path \cup Terminal : run' = [run EXCEPT ![r].status = s]
    BY <1>2 DEF CancelWrite, Terminal
  <2>3. /\ run' \in [RunId -> RunRow] /\ cancel' \in [RunId -> CancelState]
        /\ RowsInv' /\ References'
    BY <1>2, <2>1, <2>2, CancelFrame DEF CancelWrite
  <2> QED
    BY <1>2, <2>3 DEF CancelWrite, TypeInv, TypeOK
<1>3. CASE CancelRelease(r)
  <2>1. r <= nRuns /\ cancel[r] # "none"
    BY <1>3 DEF CancelRelease, TypeInv, References
  <2>2. DataType' /\ RowsInv' /\ nRuns' \in {nRuns, nRuns + 1}
    BY <1>3, <2>1, ReleaseInv DEF CancelRelease
  <2>3. \E c \in CancelState : cancel' = [cancel EXCEPT ![r] = c]
    BY <1>3 DEF CancelRelease, CancelState
  <2>4. References'
    BY <1>3, <2>1, <2>2, <2>3, ReferencesKept DEF CancelRelease, TypeInv, TypeOK, References
  <2> QED
    BY <1>3, <2>2, <2>3, <2>4 DEF CancelRelease, DataType, TypeInv, TypeOK
<1>4. CASE CancelFinalize(r)
  <2>1. cancel[r] # "none" /\ \E c \in CancelState : cancel' = [cancel EXCEPT ![r] = c]
    BY <1>4 DEF CancelFinalize, FinalizeRead, CancelState, Finalizing
  <2>2. /\ run' \in [RunId -> RunRow] /\ cancel' \in [RunId -> CancelState]
        /\ RowsInv' /\ References'
    BY <1>4, <2>1, CancelFrame DEF CancelFinalize
  <2> QED
    BY <1>4, <2>2 DEF CancelFinalize, TypeInv, TypeOK
<1>5. CASE CancelFinalized(r)
  <2>1. agentStatus' \in [Agent -> {"idle", "running", "paused", "error"}]
    BY <1>5, FinalizeWriteType DEF CancelFinalized, TypeInv
  <2>2. /\ run' \in [RunId -> RunRow] /\ cancel' \in [RunId -> CancelState]
        /\ RowsInv' /\ References'
    BY <1>5, CancelFrame DEF CancelFinalized, CancelState, Finalizing
  <2> QED
    BY <1>5, <2>1, <2>2 DEF CancelFinalized, TypeInv, TypeOK
<1>6. CASE CancelStart(r)
  <2>1. /\ run' \in [RunId -> RunRow] /\ cancel' \in [RunId -> CancelState]
        /\ RowsInv' /\ References'
    BY <1>6, CancelFrame DEF CancelStart, CancelState
  <2>2. startReq' \subseteq Agent
    BY <1>6 DEF CancelStart, Request, TypeInv, TypeOK, RowsInv, References
  <2> QED
    BY <1>6, <2>1, <2>2 DEF CancelStart, TypeInv, TypeOK
<1> QED
  BY <1>1, <1>2, <1>3, <1>4, <1>5, <1>6 DEF Cancels

\* A reaper step that leaves the rows alone keeps TypeInv.
LEMMA ReaperFrame ==
    ASSUME TypeInv, nRuns' \in {nRuns, nRuns + 1},
           reaper'.seen \subseteq 1..nRuns,
           reaper'.pc # "idle" => reaper'.at \in 1..nRuns,
           UNCHANGED <<exec, cancel, starter, outer>>
    PROVE  References'
  BY ReferencesKept DEF TypeInv, TypeOK, References

\* Taking a row off the sweep leaves a sweep.
LEMMA ReaperPastType ==
    ASSUME TypeInv, NEW r, reaper.pc = "idle"
    PROVE  /\ ReaperPast(r) \in Sweep
           /\ ReaperPast(r).seen \subseteq 1..nRuns
           /\ ReaperPast(r).pc = "idle"
<1>1. reaper \in Sweep /\ reaper.seen \subseteq 1..nRuns
  BY DEF TypeInv, TypeOK, References
<1>2. CASE reaper.seen = {r}
  BY <1>2, BoundAssumption DEF ReaperPast, ResetReaper, Sweep
<1>3. CASE reaper.seen # {r}
  BY <1>1, <1>3 DEF ReaperPast, Sweep
<1> QED
  BY <1>2, <1>3

\* Listing the running rows begins a sweep.
LEMMA ReapListType ==
    ASSUME TypeInv, ReapBegin
    PROVE  TypeInv'
<1> DEFINE stale == {r \in Running : exec[r] \notin {"claimed", "launched"}}
<1>1. /\ stale \subseteq RunId /\ stale \subseteq 1..nRuns
      /\ {r \in stale : run[r].pid} \subseteq RunId
  BY DEF TypeInv, TypeOK, RowsInv, Running, RunId
<1>2. reaper' = [reaper EXCEPT !.seen = stale, !.withPid = {r \in stale : run[r].pid}]
  BY DEF ReapBegin
<1>3. reaper \in Sweep /\ reaper.pc = "idle"
  BY DEF TypeInv, TypeOK, ReapBegin, ResetReaper
<1>4. reaper' \in Sweep /\ reaper'.seen \subseteq 1..nRuns /\ reaper'.pc = "idle"
  BY <1>1, <1>2, <1>3 DEF Sweep
<1>5. References'
  BY <1>4, ReaperFrame DEF ReapBegin
<1>6. RowsInv'
  BY DEF ReapBegin, TypeInv, RowsInv
<1> QED
  BY <1>4, <1>5, <1>6 DEF ReapBegin, TypeInv, TypeOK

\* The reaper's own step: it stays a sweep over rows that exist.
LEMMA ReaperStep ==
    ASSUME TypeInv, NEW r \in 1..nRuns, NEW pc \in {"idle", "retry", "again", "finalize", "start"}
                                                    \cup Finalizing,
           \/ reaper' = [reaper EXCEPT !.pc = pc] /\ reaper.at = r
           \/ reaper' = [reaper EXCEPT !.seen = @ \ {r}, !.at = r, !.pc = pc]
           \/ reaper' = [reaper EXCEPT !.at = 0, !.pc = "idle"]
           \/ reaper' = ResetReaper
    PROVE  /\ reaper' \in Sweep
           /\ reaper'.seen \subseteq 1..nRuns
           /\ reaper'.pc # "idle" => reaper'.at \in 1..nRuns
<1>1. reaper \in Sweep /\ reaper.seen \subseteq 1..nRuns /\ nRuns \in 0..MaxRuns
  BY DEF TypeInv, TypeOK, References
<1>2. CASE reaper' = [reaper EXCEPT !.pc = pc] /\ reaper.at = r
  <2>1. reaper' \in Sweep
    BY <1>1, <1>2 DEF Sweep
  <2>2. reaper'.seen = reaper.seen /\ reaper'.at = reaper.at
    BY <1>1, <1>2 DEF Sweep
  <2> QED
    BY <1>1, <1>2, <2>1, <2>2
<1>3. CASE reaper' = [reaper EXCEPT !.seen = @ \ {r}, !.at = r, !.pc = pc]
  <2>1. r \in 0..MaxRuns /\ reaper.seen \ {r} \subseteq RunId
    <3>1. r \in 0..MaxRuns
      BY <1>1, BoundAssumption
    <3>2. reaper.seen \subseteq RunId
      BY <1>1 DEF Sweep
    <3> QED
      BY <3>1, <3>2
  <2>2. reaper' \in Sweep
    BY <1>1, <1>3, <2>1 DEF Sweep
  <2>3. reaper'.seen = reaper.seen \ {r} /\ reaper'.at = r
    BY <1>1, <1>3 DEF Sweep
  <2> QED
    BY <1>1, <2>2, <2>3
<1>4. CASE reaper' = [reaper EXCEPT !.at = 0, !.pc = "idle"]
  <2>1. 0 \in 0..MaxRuns
    BY BoundAssumption
  <2>2. reaper' \in Sweep
    BY <1>1, <1>4, <2>1 DEF Sweep
  <2>3. reaper'.seen = reaper.seen /\ reaper'.pc = "idle"
    BY <1>1, <1>4 DEF Sweep
  <2> QED
    BY <1>1, <2>2, <2>3
<1>5. CASE reaper' = ResetReaper
  BY <1>1, <1>5, BoundAssumption DEF Sweep, ResetReaper
<1> QED
  BY <1>2, <1>3, <1>4, <1>5

\* Marking a row as detached keeps TypeInv.
LEMMA DetachedType ==
    ASSUME TypeInv, NEW r \in RunId, ReapDetached(r)
    PROVE  TypeInv'
<1>1. r <= nRuns /\ reaper.pc = "idle"
  BY DEF ReapDetached, ReapTurn, TypeInv, References
<1>2. run' \in [RunId -> RunRow] /\ RowsInv'
  <2>1. CASE run' = run
    BY <1>1, <2>1, RowFrame DEF ReapDetached
  <2>2. CASE run' = [run EXCEPT ![r].status = "running", ![r].detached = TRUE]
    <3>1. run[r] \in RunRow /\ run \in [RunId -> RunRow]
      BY DEF TypeInv, TypeOK
    <3>2. run' \in [RunId -> RunRow]
      BY <2>2, <3>1 DEF RunRow, Path
    <3>3. RowsInv'
      BY <1>1, <2>2, <3>1 DEF ReapDetached, TypeInv, RowsInv, RunRow
    <3> QED
      BY <3>2, <3>3
  <2> QED
    BY <2>1, <2>2 DEF ReapDetached
<1>3. reaper' \in Sweep /\ References'
  BY <1>1, ReaperPastType, ReaperFrame DEF ReapDetached
<1> QED
  BY <1>2, <1>3 DEF ReapDetached, TypeInv, TypeOK

\* The process-loss retry is a row like any other.
LEMMA RetryInserts ==
    ASSUME TypeInv, NEW r \in RunId, ReapRetry(r)
    PROVE  Inserts
<1> DEFINE base == QueuedRow(run[r].agent, run[r].issue, MergeWake(run[r].wake, "assigned"))
           row == [base EXCEPT !.retryReason = "process_lost", !.loss = 1, !.retryOf = r]
<1>1. run[r].agent \in Agent /\ run[r] \in RunRow
  BY DEF ReapRetry, TypeInv, TypeOK, RowsInv, References
<1>2. base \in RunRow /\ base.status = "queued" /\ base.agent = run[r].agent
  <2>1. run[r].issue \in Issue \cup {NoIssue} /\ run[r].wake \in Wake /\ "assigned" \in Wake
    BY <1>1 DEF RunRow, Wake
  <2> QED
    BY <1>1, <2>1, RowTypes, MergeWakeType
<1>3. row \in RunRow /\ row.status = "queued" /\ row.agent = run[r].agent
  <2>1. r \in 0..MaxRuns /\ "process_lost" \in RetryReason /\ 1 \in 0..1
    BY DEF RunId, RetryReason
  <2> HIDE DEF base
  <2> QED
    BY <1>2, <2>1 DEF RunRow
<1>4. Room /\ Insert(row)
  BY DEF ReapRetry
<1> HIDE DEF row
<1> QED
  BY <1>1, <1>3, <1>4 DEF Inserts

\* The process-loss retry keeps TypeInv.
LEMMA RetryType ==
    ASSUME TypeInv, NEW r \in RunId, ReapRetry(r)
    PROVE  TypeInv'
<1>1. r \in 1..nRuns /\ reaper.at = r
  BY DEF ReapRetry, TypeInv, References
<1>2. PICK row \in RunRow : /\ row.status = "queued" /\ row.agent \in Agent
                            /\ Room /\ Insert(row)
  BY RetryInserts DEF Inserts
<1>3. run' \in [RunId -> RunRow] /\ nRuns' = nRuns + 1 /\ nRuns' \in 0..MaxRuns /\ nRuns + 1 \in RunId
  BY <1>2, InsertType DEF TypeInv, Insert
<1>4. RowsInv'
  BY <1>2, <1>3 DEF TypeInv, TypeOK, RowsInv, RunId, Insert
<1>5. lock' \in [Issue -> 0..MaxRuns]
  BY <1>3 DEF ReapRetry, TypeInv, TypeOK, RunId
<1>6. reaper' \in Sweep /\ References'
  BY <1>1, <1>3, ReaperStep, ReaperFrame DEF ReapRetry
<1>7. startReq' \subseteq Agent
  BY DEF ReapRetry, TypeInv, TypeOK
<1> QED
  BY <1>3, <1>4, <1>5, <1>6, <1>7 DEF ReapRetry, TypeInv, TypeOK

\* A reaper step on a listed row keeps TypeInv.
LEMMA ReapStepType ==
    ASSUME TypeInv, NEW r \in RunId, NEW pc \in {"idle", "retry", "again", "finalize", "start"}
                                                  \cup Finalizing,
           (reaper.pc # "idle" /\ reaper.at = r) \/ r \in reaper.seen,
           \/ reaper' = [reaper EXCEPT !.pc = pc] /\ reaper.at = r
           \/ reaper' = [reaper EXCEPT !.seen = @ \ {r}, !.at = r, !.pc = pc]
           \/ reaper' = [reaper EXCEPT !.at = 0, !.pc = "idle"] /\ reaper.at = r
           \/ reaper' = ResetReaper /\ reaper.at = r,
           run' = run \/ \E s \in Path \cup Terminal : run' = [run EXCEPT ![r].status = s],
           agentStatus' \in [Agent -> {"idle", "running", "paused", "error"}],
           startReq' \subseteq Agent,
           UNCHANGED <<nRuns, lock, issue, deferred, exec, alive, cancel, starter, outer,
                       crashes>>
    PROVE  TypeInv'
<1>1. r \in 1..nRuns
  BY DEF TypeInv, References, TypeOK, RunId
<1>2. reaper' \in Sweep /\ References'
  BY <1>1, ReaperStep, ReaperFrame
<1>3. run' \in [RunId -> RunRow] /\ RowsInv'
  BY <1>1, RowFrame
<1> QED
  BY <1>2, <1>3 DEF TypeInv, TypeOK

\* Every step of reapOrphanedRuns keeps TypeInv.
LEMMA ReaperType ==
    ASSUME TypeInv, Reaps
    PROVE  TypeInv'
<1>1. CASE ReapBegin
  BY <1>1, ReapListType
<1>2. ASSUME NEW r \in RunId, ReapSkip(r) PROVE TypeInv'
  <2>1. reaper' \in Sweep /\ References'
    BY <1>2, ReaperPastType, ReaperFrame DEF ReapSkip, ReapTurn
  <2>2. RowsInv'
    BY <1>2 DEF ReapSkip, TypeInv, RowsInv
  <2> QED
    BY <1>2, <2>1, <2>2 DEF ReapSkip, TypeInv, TypeOK
<1>3. ASSUME NEW r \in RunId, ReapDetached(r) PROVE TypeInv'
  BY <1>3, DetachedType
<1>4. ASSUME NEW r \in RunId, ReapLost(r) PROVE TypeInv'
  <2>1. /\ reaper' = [reaper EXCEPT !.seen = @ \ {r}, !.at = r, !.pc = "retry"]
        /\ \E s \in Path \cup Terminal : run' = [run EXCEPT ![r].status = s]
        /\ r \in reaper.seen
    BY <1>4 DEF ReapLost, ReapTurn, Terminal
  <2> QED
    BY <1>4, <2>1, ReapStepType DEF ReapLost, TypeInv, TypeOK
<1>5. ASSUME NEW r \in RunId, ReapRetry(r) PROVE TypeInv'
  BY <1>5, RetryType
<1>6. ASSUME NEW r \in RunId, ReapRetryExists(r) PROVE TypeInv'
  BY <1>6, ReapStepType DEF ReapRetryExists, TypeInv, TypeOK
<1>7. ASSUME NEW r \in RunId, ReapRelease(r) PROVE TypeInv'
  <2>1. r \in 1..nRuns
    BY <1>7 DEF ReapRelease, TypeInv, References
  <2>2. DataType' /\ RowsInv' /\ nRuns' \in {nRuns, nRuns + 1}
    BY <1>7, <2>1, ReleaseInv DEF ReapRelease
  <2>3. \E pc \in {"again", "finalize"} : reaper' = [reaper EXCEPT !.pc = pc]
    BY <1>7 DEF ReapRelease
  <2>4. reaper' \in Sweep /\ References'
    BY <1>7, <2>1, <2>2, <2>3, ReaperStep, ReaperFrame DEF ReapRelease
  <2> QED
    BY <1>7, <2>2, <2>4 DEF ReapRelease, DataType, TypeInv, TypeOK
<1>8. ASSUME NEW r \in RunId, ReapFinalize(r) PROVE TypeInv'
  <2>1. \E pc \in {"start"} \cup Finalizing : reaper' = [reaper EXCEPT !.pc = pc]
    BY <1>8 DEF ReapFinalize, FinalizeRead, Finalizing
  <2> QED
    BY <1>8, <2>1, ReapStepType DEF ReapFinalize, TypeInv, TypeOK
<1>9. ASSUME NEW r \in RunId, ReapFinalized(r) PROVE TypeInv'
  <2>1. agentStatus' \in [Agent -> {"idle", "running", "paused", "error"}]
    BY <1>9, FinalizeWriteType DEF ReapFinalized, TypeInv
  <2>2. reaper.pc # "idle" /\ reaper' = [reaper EXCEPT !.pc = "start"]
    BY <1>9 DEF ReapFinalized, Finalizing
  <2> QED
    BY <1>9, <2>1, <2>2, ReapStepType DEF ReapFinalized, TypeInv, TypeOK
<1>10. ASSUME NEW r \in RunId, ReapStart(r) PROVE TypeInv'
  <2>1. startReq' \subseteq Agent
    BY <1>10 DEF ReapStart, Request, TypeInv, TypeOK, RowsInv, References
  <2>2. reaper' = ResetReaper \/ reaper' = [reaper EXCEPT !.at = 0, !.pc = "idle"]
    BY <1>10 DEF ReapStart
  <2> QED
    BY <1>10, <2>1, <2>2, ReapStepType DEF ReapStart, TypeInv, TypeOK
<1> QED
  BY <1>1, <1>2, <1>3, <1>4, <1>5, <1>6, <1>7, <1>8, <1>9, <1>10 DEF Reaps

\* Operators, agents and crashes keep TypeInv.
LEMMA OutsideType ==
    ASSUME TypeInv, Outside
    PROVE  TypeInv'
<1>1. ASSUME NEW r \in RunId, CancelRun(r) PROVE TypeInv'
  <2>1. cancel' \in [RunId -> CancelState] /\ r <= nRuns
    BY <1>1 DEF CancelRun, TypeInv, TypeOK, RowsInv, CancelState, Path
  <2>2. RowsInv' /\ References'
    BY <1>1, <2>1, ReferencesKept DEF CancelRun, TypeInv, TypeOK, RowsInv, References
  <2> QED
    BY <1>1, <2>1, <2>2 DEF CancelRun, TypeInv, TypeOK
<1>2. ASSUME NEW a \in Agent, CancelActiveForAgent(a) PROVE TypeInv'
  <2>1. /\ cancel' \in [RunId -> CancelState]
        /\ \A r \in RunId : cancel'[r] # "none" => r <= nRuns \/ cancel[r] # "none"
    BY <1>2 DEF CancelActiveForAgent, TypeInv, TypeOK, RowsInv, CancelState, Path
  <2>2. RowsInv' /\ References'
    BY <1>2, <2>1, ReferencesKept
    DEF CancelActiveForAgent, TypeInv, TypeOK, RowsInv, References
  <2> QED
    BY <1>2, <2>1, <2>2 DEF CancelActiveForAgent, TypeInv, TypeOK
<1>3. ASSUME NEW r \in RunId, CompleteIssue(r) PROVE TypeInv'
  <2>1. issue' \in [Issue -> IssueRow]
    BY <1>3, IssueUpdates DEF CompleteIssue, TypeInv
  <2> QED
    BY <1>3, <2>1, ReferencesKept DEF CompleteIssue, TypeInv, TypeOK, RowsInv, References
<1>4. ASSUME NEW r \in RunId, OrphanExits(r) PROVE TypeInv'
  BY <1>4, ReferencesKept DEF OrphanExits, TypeInv, TypeOK, RowsInv, References
<1>5. ASSUME NEW a \in Agent, PauseAgent(a) PROVE TypeInv'
  BY <1>5, ReferencesKept DEF PauseAgent, TypeInv, TypeOK, RowsInv, References
<1>6. ASSUME NEW i \in Issue, NEW a \in Agent, ReassignIssue(i, a) PROVE TypeInv'
  <2>1. issue' \in [Issue -> IssueRow]
    BY <1>6 DEF ReassignIssue, TypeInv, TypeOK, IssueRow
  <2> QED
    BY <1>6, <2>1, ReferencesKept DEF ReassignIssue, TypeInv, TypeOK, RowsInv, References
<1>7. ASSUME NEW i \in Issue, NEW g \in {"open", "held", "waiting"}, GateIssue(i, g)
      PROVE  TypeInv'
  <2>1. issue' \in [Issue -> IssueRow]
    BY <1>7 DEF GateIssue, TypeInv, TypeOK, IssueRow
  <2> QED
    BY <1>7, <2>1, ReferencesKept DEF GateIssue, TypeInv, TypeOK, RowsInv, References
<1>8. CASE Crash
  <2>1. ResetReaper \in Sweep /\ Idle \in Activation /\ Known(Idle, nRuns)
    <3>1. ResetReaper \in Sweep
      BY BoundAssumption DEF ResetReaper, Sweep
    <3>2. Idle \in Activation
      BY BoundAssumption, EmptySeq DEF Idle, Activation
    <3>3. Known(Idle, nRuns)
      BY DEF Known, Idle
    <3> QED
      BY <3>1, <3>2, <3>3
  <2>2. /\ exec' \in [RunId -> ExecState] /\ cancel' \in [RunId -> CancelState]
        /\ \A r \in RunId : exec'[r] = "none" /\ cancel'[r] = "none"
        /\ alive' \in [RunId -> BOOLEAN] /\ crashes' \in 0..MaxCrashes
    BY <1>8, BoundAssumption DEF Crash, TypeInv, TypeOK, ExecState, CancelState
  <2>3. References'
    BY <1>8, <2>1, <2>2, ReferencesStep, EmptySeq DEF Crash, ResetReaper, TypeInv, TypeOK
  <2> QED
    BY <1>8, <2>1, <2>2, <2>3, EmptySeq DEF Crash, TypeInv, TypeOK, RowsInv
<1> QED
  BY <1>1, <1>2, <1>3, <1>4, <1>5, <1>6, <1>7, <1>8 DEF Outside

\* The next candidate of an activation exists, and so does what is left.
LEMMA CandidateType ==
    ASSUME NEW act \in Activation, NEW n \in Nat, Known(act, n), act.todo # <<>>
    PROVE  /\ Head(act.todo) \in RunId /\ Head(act.todo) \in 1..n
           /\ Tail(act.todo) \in Seq(RunId)
           /\ \A k \in DOMAIN Tail(act.todo) : Tail(act.todo)[k] <= n
<1>1. act.todo \in Seq(RunId)
  BY DEF Activation
<1>2. /\ Len(act.todo) \in Nat /\ DOMAIN act.todo = 1..Len(act.todo)
      /\ \A k \in 1..Len(act.todo) : act.todo[k] \in RunId /\ act.todo[k] <= n
  BY <1>1, LenProperties, ElementOfSeq DEF Known
<1>3. Len(act.todo) > 0
  BY <1>1, <1>2, EmptySeq
<1>4. Head(act.todo) = act.todo[1]
  BY <1>1, <1>3
<1>5. /\ Tail(act.todo) \in Seq(RunId) /\ Len(Tail(act.todo)) = Len(act.todo) - 1
      /\ \A k \in 1..Len(Tail(act.todo)) : Tail(act.todo)[k] = act.todo[k + 1]
  BY <1>1, <1>3, HeadTailProperties
<1>6. DOMAIN Tail(act.todo) = 1..Len(Tail(act.todo))
  BY <1>5, LenProperties
<1> QED
  BY <1>2, <1>3, <1>4, <1>5, <1>6 DEF RunId

\* An activation begins with a plan over existing rows.
LEMMA StartBeginType ==
    ASSUME TypeInv, NEW a \in Agent, StartBegin(a)
    PROVE  TypeInv'
<1>1. PICK order \in [1..Cardinality(QueuedOf(a)) -> QueuedOf(a)] :
         starter' = [Idle EXCEPT !.agent = a, !.slots = AvailableSlots(a), !.todo = order]
  BY DEF StartBegin
<1>2. QueuedOf(a) \subseteq RunId /\ \A r \in QueuedOf(a) : r <= nRuns
  BY DEF QueuedOf, TypeInv, RowsInv
<1>3. order \in Seq(RunId) /\ DOMAIN order = 1..Cardinality(QueuedOf(a))
  BY <1>2, RunsAreFinite, SeqDef
<1>4. AvailableSlots(a) \in Nat
  BY SlotsType DEF StartBegin, Startable
<1>5. Idle \in Activation /\ Idle.pc = "next" /\ Idle.claimed = {}
  BY BoundAssumption, EmptySeq DEF Idle, Activation
<1>6. starter' \in Activation
  BY <1>1, <1>3, <1>4, <1>5 DEF Activation
<1>7. starter'.todo = order /\ starter'.pc = "next" /\ starter'.claimed = {}
  BY <1>1, <1>5 DEF Activation
<1>8. Known(starter', nRuns)
  BY <1>2, <1>3, <1>7 DEF Known
<1>9. outer' \in Seq(Activation) /\ \A k \in DOMAIN outer' : Known(outer'[k], nRuns)
  <2>1. /\ outer \in Seq(Activation) /\ \A k \in DOMAIN outer : Known(outer[k], nRuns)
        /\ starter \in Activation /\ Known(starter, nRuns)
    BY DEF TypeInv, TypeOK, References
  <2>2. CASE outer' = outer
    BY <2>1, <2>2
  <2>3. CASE outer' = Append(outer, starter)
    <3>1. /\ Len(outer) \in Nat /\ DOMAIN outer = 1..Len(outer)
          /\ Append(outer, starter) \in Seq(Activation)
          /\ Len(Append(outer, starter)) = Len(outer) + 1
          /\ \A k \in 1..Len(outer) : Append(outer, starter)[k] = outer[k]
          /\ Append(outer, starter)[Len(outer) + 1] = starter
      BY <2>1, LenProperties, AppendProperties
    <3>2. DOMAIN Append(outer, starter) = 1..(Len(outer) + 1)
      BY <3>1, LenProperties
    <3>3. ASSUME NEW k \in 1..(Len(outer) + 1) PROVE Known(Append(outer, starter)[k], nRuns)
      <4>1. CASE k \in 1..Len(outer)
        BY <2>1, <3>1, <4>1
      <4>2. CASE k = Len(outer) + 1
        BY <2>1, <3>1, <4>2
      <4> QED
        BY <3>1, <4>1, <4>2
    <3> QED
      BY <2>3, <3>1, <3>2, <3>3
  <2> QED
    BY <2>2, <2>3 DEF StartBegin
<1>10. References'
  BY <1>6, <1>8, <1>9, ReferencesStep DEF StartBegin, TypeInv, TypeOK, References
<1> QED
  BY <1>6, <1>9, <1>10 DEF StartBegin, TypeInv, TypeOK, RowsInv

\* The activation in the lock moves on, and nothing but exec, the status of the
\* run at hand, a cancellation, a lock or a start request changes with it.
LEMMA StarterStep ==
    ASSUME TypeInv, starter' \in Activation, Known(starter', nRuns),
           run' = run \/ \E r \in RunId, s \in Path \cup Terminal :
                            r <= nRuns /\ run' = [run EXCEPT ![r].status = s],
           exec' = exec \/ \E r \in RunId, e \in ExecState :
                            r <= nRuns /\ exec' = [exec EXCEPT ![r] = e],
           cancel' = cancel \/ \E r \in RunId, c \in CancelState :
                            r <= nRuns /\ cancel' = [cancel EXCEPT ![r] = c],
           lock' \in [Issue -> 0..MaxRuns], startReq' \subseteq Agent,
           UNCHANGED <<nRuns, issue, deferred, agentStatus, alive, reaper, outer, crashes>>
    PROVE  TypeInv'
<1>1. run' \in [RunId -> RunRow] /\ RowsInv'
  <2>1. CASE run' = run
    BY <2>1 DEF TypeInv, TypeOK, RowsInv
  <2>2. ASSUME NEW r \in RunId, NEW s \in Path \cup Terminal, r <= nRuns,
               run' = [run EXCEPT ![r].status = s]
        PROVE  run' \in [RunId -> RunRow] /\ RowsInv'
    BY <2>2, RowFrame
  <2> QED
    BY <2>1, <2>2
<1>2. /\ exec' \in [RunId -> ExecState]
      /\ \A q \in RunId : exec'[q] # "none" => q <= nRuns \/ exec[q] # "none"
  BY DEF TypeInv, TypeOK
<1>3. /\ cancel' \in [RunId -> CancelState]
      /\ \A q \in RunId : cancel'[q] # "none" => q <= nRuns \/ cancel[q] # "none"
  BY DEF TypeInv, TypeOK
<1>4. References'
  BY <1>2, <1>3, ReferencesStep DEF TypeInv, TypeOK, References
<1> QED
  BY <1>1, <1>2, <1>3, <1>4 DEF TypeInv, TypeOK

\* A resumed holder is an activation.
LEMMA ResumedType ==
    ASSUME NEW act \in Activation, NEW n \in Nat, Known(act, n)
    PROVE  Resumed(act) \in Activation /\ Known(Resumed(act), n)
  BY DEF Resumed, Activation, Known

\* Leaving the start lock keeps TypeInv.
LEMMA StartEndType ==
    ASSUME TypeInv, StartEnd
    PROVE  TypeInv'
<1>1. /\ outer \in Seq(Activation) /\ \A k \in DOMAIN outer : Known(outer[k], nRuns)
      /\ starter \in Activation /\ Known(starter, nRuns) /\ nRuns \in Nat
      /\ exec \in [RunId -> ExecState]
  BY DEF TypeInv, TypeOK, References
<1>2. /\ exec' \in [RunId -> ExecState]
      /\ \A q \in RunId : exec'[q] # "none" => q <= nRuns \/ exec[q] # "none"
  BY <1>1 DEF StartEnd, ExecState, Known
<1>3. /\ starter' \in Activation /\ Known(starter', nRuns)
      /\ outer' \in Seq(Activation) /\ \A k \in DOMAIN outer' : Known(outer'[k], nRuns)
  <2>1. CASE outer = <<>>
    <3>1. Idle \in Activation /\ Known(Idle, nRuns)
      BY BoundAssumption, EmptySeq DEF Idle, Activation, Known
    <3> QED
      BY <1>1, <2>1, <3>1 DEF StartEnd
  <2>2. CASE outer # <<>>
    <3> DEFINE back == outer[Len(outer)]
    <3>1. /\ Len(outer) \in Nat /\ Len(outer) > 0 /\ DOMAIN outer = 1..Len(outer)
          /\ \A k \in 1..Len(outer) : outer[k] \in Activation
      BY <1>1, <2>2, EmptySeq, LenProperties, ElementOfSeq
    <3>2. back \in Activation /\ Known(back, nRuns)
      BY <1>1, <3>1
    <3>3. Resumed(back) \in Activation /\ Known(Resumed(back), nRuns)
      BY <1>1, <3>2, ResumedType
    <3>4. starter' \in {back, Resumed(back)} /\ outer' = SubSeq(outer, 1, Len(outer) - 1)
      BY <2>2 DEF StartEnd
    <3>5. starter' \in Activation /\ Known(starter', nRuns)
      BY <3>2, <3>3, <3>4
    <3>6. /\ outer' \in Seq(Activation) /\ Len(outer') = Len(outer) - 1
          /\ \A k \in 1..(Len(outer) - 1) : outer'[k] = outer[k]
      <4>1. \A k \in 1..(Len(outer) - 1) : outer[k] \in Activation
        BY <3>1
      <4> QED
        BY <3>1, <3>4, <4>1, SubSeqProperties
    <3>7. DOMAIN outer' = 1..(Len(outer) - 1)
      BY <3>6, LenProperties
    <3> QED
      BY <1>1, <3>1, <3>5, <3>6, <3>7
  <2> QED
    BY <2>1, <2>2
<1>4. References'
  BY <1>2, <1>3, ReferencesStep DEF StartEnd, TypeInv, TypeOK, References
<1> QED
  BY <1>2, <1>3, <1>4 DEF StartEnd, TypeInv, TypeOK, RowsInv

\* Every step of startNextQueuedRunForAgent keeps TypeInv.
LEMMA StarterType ==
    ASSUME TypeInv, Starts
    PROVE  TypeInv'
<1>0. /\ starter \in Activation /\ Known(starter, nRuns) /\ nRuns \in Nat
      /\ lock \in [Issue -> 0..MaxRuns] /\ startReq \subseteq Agent
  BY DEF TypeInv, TypeOK, References
<1>1. CASE ResumeQueuedRuns
  <2>1. startReq' \subseteq Agent
    BY <1>0, <1>1 DEF ResumeQueuedRuns, Request
  <2> QED
    BY <1>0, <1>1, <2>1, StarterStep DEF ResumeQueuedRuns
<1>2. ASSUME NEW a \in Agent, StartBegin(a) PROVE TypeInv'
  BY <1>2, StartBeginType
<1>3. ASSUME NEW a \in Agent, StartNothing(a) PROVE TypeInv'
  <2>1. starter' \in Activation /\ Known(starter', nRuns)
    BY <1>0, <1>3, ResumedType DEF StartNothing
  <2>2. startReq' \subseteq Agent
    BY <1>0, <1>3 DEF StartNothing
  <2> QED
    BY <1>0, <1>3, <2>1, <2>2, StarterStep DEF StartNothing
<1>4. ASSUME NEW r \in RunId, NextCandidate(r)
      PROVE  /\ r \in 1..nRuns
             /\ \A pc \in {"drop", "claim", "nested"} :
                   /\ [starter EXCEPT !.todo = Tail(@), !.at = r, !.pc = pc] \in Activation
                   /\ Known([starter EXCEPT !.todo = Tail(@), !.at = r, !.pc = pc], nRuns)
             /\ [starter EXCEPT !.todo = Tail(@)] \in Activation
             /\ Known([starter EXCEPT !.todo = Tail(@)], nRuns)
  <2>1. /\ r \in RunId /\ r \in 1..nRuns /\ Tail(starter.todo) \in Seq(RunId)
        /\ \A k \in DOMAIN Tail(starter.todo) : Tail(starter.todo)[k] <= nRuns
    BY <1>0, <1>4, CandidateType DEF NextCandidate
  <2>2. r \in 0..MaxRuns /\ starter.claimed \subseteq 1..nRuns /\ starter.pc = "next"
    BY <1>0, <1>4, <2>1 DEF RunId, Known, NextCandidate
  <2> QED
    BY <1>0, <2>1, <2>2 DEF Activation, Known
<1>5. ASSUME NEW r \in RunId, ClaimGates(r) PROVE TypeInv'
  <2>1. \E pc \in {"drop", "claim"} :
           starter' = [starter EXCEPT !.todo = Tail(@), !.at = r, !.pc = pc]
    BY <1>5 DEF ClaimGates
  <2>2. starter' \in Activation /\ Known(starter', nRuns)
    BY <1>4, <1>5, <2>1 DEF ClaimGates
  <2> QED
    BY <1>0, <1>5, <2>2, StarterStep DEF ClaimGates
<1>6. ASSUME NEW r \in RunId, ClaimRefused(r) PROVE TypeInv'
  <2>1. starter' \in Activation /\ Known(starter', nRuns) /\ r \in 1..nRuns
    BY <1>4, <1>6 DEF ClaimRefused
  <2>2. cancel' = cancel \/ \E c \in CancelState : cancel' = [cancel EXCEPT ![r] = c]
    BY <1>6 DEF ClaimRefused, CancelState
  <2> QED
    BY <1>0, <1>6, <2>1, <2>2, StarterStep DEF ClaimRefused
<1>7. ASSUME starter.pc # "next" PROVE starter.at \in 1..nRuns /\ starter.at \in RunId
  <2>1. starter.at \in 1..nRuns /\ nRuns \in 0..MaxRuns
    BY <1>0, <1>7 DEF Known, TypeInv, TypeOK
  <2> QED
    BY <2>1, BoundAssumption DEF RunId
<1>8. CASE ClaimDropped
  <2>1. starter.at \in 1..nRuns /\ starter.at \in RunId
    BY <1>7, <1>8 DEF ClaimDropped
  <2>2. starter' \in Activation /\ Known(starter', nRuns)
    BY <1>0, <1>8 DEF ClaimDropped, Known, Activation
  <2>3. \E r \in RunId, s \in Path \cup Terminal :
           r <= nRuns /\ run' = [run EXCEPT ![r].status = s]
    <3>1. starter.at \in RunId /\ starter.at <= nRuns /\ "cancelled" \in Path \cup Terminal
      BY <1>0, <2>1 DEF Terminal
    <3>2. run' = [run EXCEPT ![starter.at].status = "cancelled"]
      BY <1>8 DEF ClaimDropped
    <3> QED
      BY <3>1, <3>2, Zenon
  <2>4. exec' = exec /\ cancel' = cancel /\ startReq' \subseteq Agent
        /\ lock' \in [Issue -> 0..MaxRuns]
    BY <1>0, <1>8 DEF ClaimDropped
  <2> QED
    BY <1>8, <2>2, <2>3, <2>4, StarterStep DEF ClaimDropped
<1>9. CASE DropUnlocks
  <2>1. starter' \in Activation /\ Known(starter', nRuns)
    BY <1>0, <1>9 DEF DropUnlocks, Known, Activation
  <2>2. lock' \in [Issue -> 0..MaxRuns]
    <3>1. 0 \in 0..MaxRuns
      BY BoundAssumption
    <3>2. \E v \in Issue \cup {run[starter.at].issue} :
             lock' = [lock EXCEPT ![v] = IF @ = starter.at THEN 0 ELSE @]
      BY <1>9 DEF DropUnlocks
    <3> QED
      BY <1>0, <3>1, <3>2
  <2> QED
    BY <1>0, <1>9, <2>1, <2>2, StarterStep DEF DropUnlocks
<1>10. CASE ClaimQueuedRun
  <2>1. /\ starter.at \in 1..nRuns /\ starter.at \in RunId /\ starter.at <= nRuns
        /\ "running" \in Path \cup Terminal /\ "claimed" \in ExecState
    BY <1>0, <1>7, <1>10 DEF ClaimQueuedRun, Path, ExecState
  <2>2. starter' \in Activation /\ Known(starter', nRuns)
    <3>1. starter' = [starter EXCEPT !.pc = "next"] \/
          starter' = [starter EXCEPT !.claimed = @ \cup {starter.at}, !.pc = "stamp"]
      BY <1>10 DEF ClaimQueuedRun
    <3>2. CASE starter' = [starter EXCEPT !.pc = "next"]
      BY <1>0, <3>2 DEF Known, Activation
    <3>3. CASE starter' = [starter EXCEPT !.claimed = @ \cup {starter.at}, !.pc = "stamp"]
      BY <1>0, <2>1, <3>3 DEF Known, Activation
    <3> QED
      BY <3>1, <3>2, <3>3
  <2>3. \/ run' = run /\ exec' = exec
        \/ /\ run' = [run EXCEPT ![starter.at].status = "running"]
           /\ exec' = [exec EXCEPT ![starter.at] = "claimed"]
    BY <1>10 DEF ClaimQueuedRun
  <2>4. run' = run \/ \E r \in RunId, s \in Path \cup Terminal :
           r <= nRuns /\ run' = [run EXCEPT ![r].status = s]
    BY <2>1, <2>3, Zenon
  <2>5. exec' = exec \/ \E r \in RunId, e \in ExecState :
           r <= nRuns /\ exec' = [exec EXCEPT ![r] = e]
    BY <2>1, <2>3, Zenon
  <2>6. cancel' = cancel /\ lock' \in [Issue -> 0..MaxRuns] /\ startReq' \subseteq Agent
    BY <1>0, <1>10 DEF ClaimQueuedRun
  <2> QED
    BY <1>10, <2>2, <2>4, <2>5, <2>6, StarterStep DEF ClaimQueuedRun
<1>11. CASE StampLock
  <2>1. starter' \in Activation /\ Known(starter', nRuns)
    BY <1>0, <1>11 DEF StampLock, Known, Activation
  <2>2. lock' \in [Issue -> 0..MaxRuns]
    BY <1>0, <1>11 DEF StampLock, Activation
  <2> QED
    BY <1>0, <1>11, <2>1, <2>2, StarterStep DEF StampLock
<1>12. CASE StartEnd
  BY <1>12, StartEndType
<1> QED
  BY <1>1, <1>2, <1>3, <1>5, <1>6, <1>8, <1>9, <1>10, <1>11, <1>12 DEF Starts

\* A parked wake is added at the end or merged where it is.
LEMMA DeferType ==
    ASSUME TypeOK, NEW a \in Agent, NEW i \in Issue, NEW w \in Wake, DeferWake(a, i, w)
    PROVE  deferred' \in [Issue -> Seq(ParkedWake)]
<1>1. deferred[i] \in Seq(ParkedWake)
  BY DEF TypeOK
<1>2. /\ Len(deferred[i]) \in Nat /\ DOMAIN deferred[i] = 1..Len(deferred[i])
      /\ \A k \in 1..Len(deferred[i]) : deferred[i][k] \in ParkedWake
  BY <1>1, LenProperties, ElementOfSeq
<1>3. Append(deferred[i], [agent |-> a, wake |-> w]) \in Seq(ParkedWake)
  BY <1>1, AppendProperties DEF ParkedWake
<1>4. Joined(a, i, w) \in Seq(ParkedWake)
  <2>1. ASSUME NEW k \in 1..Len(deferred[i])
        PROVE  [deferred[i][k] EXCEPT !.wake = MergeWake(@, w)] \in ParkedWake
    <3>1. deferred[i][k] \in ParkedWake /\ MergeWake(deferred[i][k].wake, w) \in Wake
      BY <1>2, MergeWakeType DEF ParkedWake
    <3> QED
      BY <3>1 DEF ParkedWake
  <2>2. Joined(a, i, w) \in [1..Len(deferred[i]) -> ParkedWake]
    BY <1>2, <2>1 DEF Joined
  <2> QED
    BY <1>2, <2>2, SeqDef
<1> QED
  BY <1>3, <1>4 DEF DeferWake, TypeOK

\* Rerouting cancels at most one queued row.
LEMMA RerouteType ==
    ASSUME TypeInv, NEW i \in Issue
    PROVE  /\ RowsAfterReroute(i) \in [RunId -> RunRow]
           /\ \A r \in RunId :
                 /\ RowsAfterReroute(i)[r].agent = run[r].agent
                 /\ \/ RowsAfterReroute(i)[r].status = run[r].status
                    \/ /\ run[r].status = "queued"
                       /\ RowsAfterReroute(i)[r].status = "cancelled"
<1>1. run \in [RunId -> RunRow] /\ \A r \in RunId : run[r] \in RunRow
  BY DEF TypeInv, TypeOK
<1>2. CASE ReroutedHolder(i)
  <2>1. lock[i] \in RunId /\ run[lock[i]].status = "queued"
    BY <1>2 DEF ReroutedHolder, TypeInv, TypeOK, RunId
  <2>2. [run EXCEPT ![lock[i]].status = "cancelled"] \in [RunId -> RunRow]
    BY <2>1, RowUpdates DEF TypeInv, Terminal
  <2>3. RowsAfterReroute(i) = [run EXCEPT ![lock[i]].status = "cancelled"]
    BY <1>2 DEF RowsAfterReroute
  <2> QED
    BY <1>1, <2>1, <2>2, <2>3 DEF RunRow
<1>3. CASE ~ReroutedHolder(i)
  BY <1>1, <1>3 DEF RowsAfterReroute
<1> QED
  BY <1>2, <1>3

\* What a wake for an issue does to the rows: it may cancel a queued one, change
\* the wake of another, and add one.
WakeRows ==
    /\ run' \in [RunId -> RunRow]
    /\ \/ nRuns' = nRuns
       \/ /\ Room /\ nRuns' = nRuns + 1 /\ nRuns + 1 \in RunId
          /\ run'[nRuns + 1].status = "queued" /\ run'[nRuns + 1].agent \in Agent
    /\ \A r \in RunId : r # nRuns + 1 \/ nRuns' = nRuns =>
          /\ run'[r].agent = run[r].agent
          /\ \/ run'[r].status = run[r].status
             \/ run[r].status = "queued" /\ run'[r].status = "cancelled"

\* What enqueueWakeup does to the rows is WakeRows.
LEMMA EnqueueRows ==
    ASSUME TypeInv, NEW a \in Agent, NEW i \in Issue, NEW w \in Wake, EnqueueWakeup(a, i, w)
    PROVE  WakeRows
<1> DEFINE rows == RowsAfterReroute(i)
           active == ActiveExecutionRun(i, rows)
<1>1. /\ rows \in [RunId -> RunRow]
      /\ \A r \in RunId :
            /\ rows[r].agent = run[r].agent
            /\ \/ rows[r].status = run[r].status
               \/ run[r].status = "queued" /\ rows[r].status = "cancelled"
  BY RerouteType
<1>2. active # 0 => active \in RunId /\ rows[active].status \in Path
  BY <1>1, ActiveOnPath DEF TypeInv
<1>3. \/ run' = rows /\ nRuns' = nRuns
      \/ /\ active # 0 /\ nRuns' = nRuns
         /\ run' = [rows EXCEPT ![active].wake = MergeWake(@, w)]
      \/ /\ Room /\ nRuns' = nRuns + 1
         /\ run' = [rows EXCEPT ![nRuns + 1] = QueuedRow(a, i, w)]
  BY DEF EnqueueWakeup, Coalesces
<1> HIDE DEF rows, active
<1>4. CASE run' = rows /\ nRuns' = nRuns
  BY <1>1, <1>4 DEF WakeRows
<1>5. CASE /\ active # 0 /\ nRuns' = nRuns
           /\ run' = [rows EXCEPT ![active].wake = MergeWake(@, w)]
  <2>1. rows[active] \in RunRow /\ active \in RunId
    BY <1>1, <1>2, <1>5
  <2>2. MergeWake(rows[active].wake, w) \in Wake
    BY <2>1, MergeWakeType DEF RunRow
  <2>3. [rows[active] EXCEPT !.wake = MergeWake(@, w)] \in RunRow
    BY <2>1, <2>2 DEF RunRow
  <2>4. /\ [rows[active] EXCEPT !.wake = MergeWake(@, w)].agent = rows[active].agent
        /\ [rows[active] EXCEPT !.wake = MergeWake(@, w)].status = rows[active].status
    BY <2>1 DEF RunRow
  <2>5. run' \in [RunId -> RunRow]
    BY <1>1, <1>5, <2>3
  <2>6. \A r \in RunId : run'[r].agent = rows[r].agent /\ run'[r].status = rows[r].status
    BY <1>1, <1>5, <2>4
  <2> QED
    BY <1>1, <1>5, <2>5, <2>6 DEF WakeRows
<1>6. CASE /\ Room /\ nRuns' = nRuns + 1
           /\ run' = [rows EXCEPT ![nRuns + 1] = QueuedRow(a, i, w)]
  <2>1. nRuns + 1 \in RunId /\ nRuns # nRuns + 1
    BY <1>6, BoundAssumption DEF Room, TypeInv, TypeOK, RunId
  <2>2. /\ QueuedRow(a, i, w) \in RunRow /\ QueuedRow(a, i, w).status = "queued"
        /\ QueuedRow(a, i, w).agent \in Agent
    BY RowTypes
  <2>3. run' \in [RunId -> RunRow]
    BY <1>1, <1>6, <2>2
  <2>4. run'[nRuns + 1] = QueuedRow(a, i, w) /\ \A r \in RunId : r # nRuns + 1 => run'[r] = rows[r]
    BY <1>1, <1>6, <2>1
  <2> QED
    BY <1>1, <1>6, <2>1, <2>2, <2>3, <2>4 DEF WakeRows
<1> QED
  BY <1>3, <1>4, <1>5, <1>6

\* A step that does only that to the rows keeps RowsInv and References.
LEMMA WakeRowsInv ==
    ASSUME TypeInv, WakeRows, UNCHANGED <<exec, cancel, reaper, starter, outer>>
    PROVE  nRuns' \in 0..MaxRuns /\ RowsInv' /\ References'
<1>1. nRuns \in 0..MaxRuns /\ nRuns' \in {nRuns, nRuns + 1} /\ nRuns' \in 0..MaxRuns
  BY BoundAssumption DEF TypeInv, TypeOK, WakeRows, Room
<1>2. RowsInv'
  BY <1>1 DEF TypeInv, RowsInv, WakeRows, RunId
<1>3. References'
  BY <1>1, ReferencesKept DEF TypeInv, References
<1> QED
  BY <1>1, <1>2, <1>3

\* Every wake keeps TypeInv.
LEMMA WakeType ==
    ASSUME TypeInv, Wakes
    PROVE  TypeInv'
<1>1. ASSUME NEW a \in Agent, NEW i \in Issue, NEW w \in {"assigned", "comment"},
             EnqueueWakeup(a, i, w)
      PROVE  TypeInv'
  <2>1. w \in Wake
    BY DEF Wake
  <2>2. WakeRows
    BY <1>1, <2>1, EnqueueRows
  <2>3. nRuns' \in 0..MaxRuns /\ RowsInv' /\ References'
    BY <1>1, <2>2, WakeRowsInv DEF EnqueueWakeup
  <2>4. lock' \in [Issue -> 0..MaxRuns]
    <3>1. ActiveExecutionRun(i, RowsAfterReroute(i)) \in 0..MaxRuns
      BY RerouteType, ActiveOnPath, BoundAssumption DEF TypeInv, RunId
    <3>2. lock' = [lock EXCEPT ![i] = ActiveExecutionRun(i, RowsAfterReroute(i))]
      BY <1>1 DEF EnqueueWakeup
    <3> QED
      BY <3>1, <3>2 DEF TypeInv, TypeOK
  <2>5. deferred' \in [Issue -> Seq(ParkedWake)]
    <3>1. deferred' = deferred \/ DeferWake(a, i, w)
      BY <1>1 DEF EnqueueWakeup
    <3> QED
      BY <2>1, <3>1, DeferType DEF TypeInv, TypeOK
  <2>6. startReq' \subseteq Agent
    BY <1>1 DEF EnqueueWakeup, Request, TypeInv, TypeOK
  <2>7. UNCHANGED <<issue, agentStatus, exec, alive, cancel, reaper, starter, outer, crashes>>
    BY <1>1 DEF EnqueueWakeup
  <2> QED
    BY <2>2, <2>3, <2>4, <2>5, <2>6, <2>7 DEF WakeRows, TypeInv, TypeOK
<1>2. ASSUME NEW a \in Agent, EnqueueTimerWakeup(a) PROVE TypeInv'
  <2>1. /\ QueuedRow(a, NoIssue, "assigned") \in RunRow
        /\ QueuedRow(a, NoIssue, "assigned").status = "queued"
        /\ QueuedRow(a, NoIssue, "assigned").agent = a
    BY RowTypes DEF Wake
  <2>2. /\ run' \in [RunId -> RunRow] /\ nRuns' \in 0..MaxRuns /\ nRuns + 1 \in RunId
        /\ nRuns' = nRuns + 1 /\ run' = [run EXCEPT ![nRuns + 1] = QueuedRow(a, NoIssue, "assigned")]
    BY <1>2, <2>1, InsertType DEF EnqueueTimerWakeup, TypeInv, Insert
  <2>3. RowsInv'
    BY <2>1, <2>2 DEF TypeInv, TypeOK, RowsInv, RunId
  <2>4. References'
    BY <1>2, <2>2, ReferencesKept DEF EnqueueTimerWakeup, TypeInv, References
  <2>5. startReq' \subseteq Agent
    BY <1>2 DEF EnqueueTimerWakeup, Request, TypeInv, TypeOK
  <2> QED
    BY <1>2, <2>2, <2>3, <2>4, <2>5 DEF EnqueueTimerWakeup, TypeInv, TypeOK
<1> QED
  BY <1>1, <1>2 DEF Wakes

\* TypeInv holds at first.
LEMMA InitType == Init => TypeInv
<1> SUFFICES ASSUME Init PROVE TypeInv
  OBVIOUS
<1>1. /\ ResetReaper \in Sweep /\ ResetReaper.seen = {} /\ ResetReaper.pc = "idle"
      /\ Idle \in Activation /\ Known(Idle, 0)
  BY BoundAssumption, EmptySeq DEF ResetReaper, Sweep, Idle, Activation, Known
<1>2. issue \in [Issue -> IssueRow]
  BY DEF Init, IssueRow
<1>3. run \in [RunId -> RunRow] /\ \A r \in RunId : run[r].status = "absent"
  BY RowTypes DEF Init, AbsentRow
<1>4. /\ nRuns = 0 /\ lock \in [Issue -> 0..MaxRuns] /\ crashes \in 0..MaxCrashes
      /\ deferred \in [Issue -> Seq(ParkedWake)] /\ outer \in Seq(Activation)
  BY BoundAssumption, EmptySeq DEF Init
<1>5. /\ exec \in [RunId -> ExecState] /\ cancel \in [RunId -> CancelState]
      /\ \A r \in RunId : exec[r] = "none" /\ cancel[r] = "none"
      /\ alive \in [RunId -> BOOLEAN]
      /\ agentStatus \in [Agent -> {"idle", "running", "paused", "error"}]
      /\ startReq \subseteq Agent
  BY DEF Init, ExecState, CancelState
<1>6. TypeOK
  BY <1>1, <1>2, <1>3, <1>4, <1>5, BoundAssumption DEF TypeOK, Init
<1>7. RowsInv
  BY <1>3, <1>4 DEF RowsInv, RunId
<1>8. References
  BY <1>1, <1>4, <1>5 DEF References, Init
<1> QED
  BY <1>6, <1>7, <1>8 DEF TypeInv

\* Every step keeps TypeInv.
LEMMA NextType == TypeInv /\ [Next]_vars => TypeInv'
<1> SUFFICES ASSUME TypeInv, [Next]_vars PROVE TypeInv'
  OBVIOUS
<1>1. CASE Wakes
  BY <1>1, WakeType
<1>2. CASE Starts
  BY <1>2, StarterType
<1>3. CASE Reaps
  BY <1>3, ReaperType
<1>4. CASE Outside
  BY <1>4, OutsideType
<1>5. ASSUME NEW r \in RunId, Executes(r) PROVE TypeInv'
  BY <1>5, ExecutorType
<1>6. ASSUME NEW r \in RunId, Cancels(r) PROVE TypeInv'
  BY <1>6, CancelType
<1>7. CASE UNCHANGED vars
  BY <1>7 DEF vars, TypeInv, TypeOK, RowsInv, References
<1> QED
  BY <1>1, <1>2, <1>3, <1>4, <1>5, <1>6, <1>7 DEF Next

\* Type correctness, for every set of agents and issues, every bound, both
\* behaviours of the start lock and every set of outside interventions.
THEOREM TypeCorrect == Spec => []TypeOK
<1>1. TypeInv => TypeOK
  BY DEF TypeInv
<1> QED
  BY <1>1, InitType, NextType, PTL DEF Spec

\* The same for the rest of the invariant: rows are dense and have an agent, and
\* nothing under way refers to a row that was never inserted.
THEOREM TypeInvariant == Spec => []TypeInv
  BY InitType, NextType, PTL DEF Spec

------------------------------------------------------------------------------
(* What a step does to the rows: they keep their issue and what they follow, *)
(* a row that left the queue does not come back to it, and at most one is    *)
(* added: queued, without a child, following o or nothing.                   *)

Keeps(q) ==
    /\ run'[q].issue = run[q].issue /\ run'[q].retryOf = run[q].retryOf
    /\ run'[q].status = run[q].status \/ run'[q].status \notin {"absent", "queued"}
    /\ run'[q].pid = run[q].pid \/ exec'[q] = "adapter"

RowsMove(o) ==
    \/ nRuns' = nRuns /\ \A q \in RunId : Keeps(q)
    \/ /\ nRuns' = nRuns + 1 /\ nRuns + 1 \in RunId
       /\ \A q \in RunId : q # nRuns + 1 => Keeps(q)
       /\ run'[nRuns + 1].status = "queued" /\ ~run'[nRuns + 1].pid
       /\ run'[nRuns + 1].retryOf \in {0, o}

\* A queued row, as it is inserted.
LEMMA QueuedFields ==
    ASSUME NEW a \in Agent, NEW i \in Issue \cup {NoIssue}, NEW w \in Wake
    PROVE  LET row == QueuedRow(a, i, w)
           IN  row.issue = i /\ row.retryOf = 0 /\ ~row.pid
  BY DEF QueuedRow, AbsentRow

\* Inserting a queued row moves the rows as allowed.
LEMMA InsertMoves ==
    ASSUME TypeInv, Room, NEW row \in RunRow, Insert(row), NEW o,
           row.status = "queued", ~row.pid, row.retryOf \in {0, o}
    PROVE  /\ RowsMove(o)
           /\ nRuns' = nRuns + 1 /\ nRuns + 1 \in RunId /\ run'[nRuns + 1] = row
           /\ \A q \in RunId : q <= nRuns => run'[q] = run[q]
<1>1. /\ nRuns + 1 \in RunId /\ run \in [RunId -> RunRow]
      /\ nRuns' = nRuns + 1 /\ run' = [run EXCEPT ![nRuns + 1] = row]
  BY InsertType DEF TypeInv, TypeOK, Insert
<1>2. run'[nRuns + 1] = row /\ \A q \in RunId : q # nRuns + 1 => run'[q] = run[q]
  BY <1>1
<1>3. \A q \in RunId : q <= nRuns => q # nRuns + 1
  BY DEF TypeInv, TypeOK, RunId
<1> QED
  BY <1>1, <1>2, <1>3 DEF RowsMove, Keeps

\* So does leaving them alone.
LEMMA SameMoves ==
    ASSUME UNCHANGED <<run, nRuns>>, NEW o
    PROVE  RowsMove(o)
  BY DEF RowsMove, Keeps

\* So does writing a status other than "queued".
LEMMA EndMoves ==
    ASSUME TypeInv, nRuns' = nRuns, NEW r \in RunId,
           NEW s \in Terminal \cup {"running"}, run' = [run EXCEPT ![r].status = s], NEW o
    PROVE  RowsMove(o)
<1>1. run \in [RunId -> RunRow] /\ run[r] \in RunRow
  BY DEF TypeInv, TypeOK
<1>2. s \notin {"absent", "queued"}
  BY DEF Terminal
<1>3. /\ \A q \in RunId \ {r} : run'[q] = run[q]
      /\ run'[r] = [run[r] EXCEPT !.status = s]
  BY <1>1
<1>4. Keeps(r)
  BY <1>1, <1>2, <1>3 DEF Keeps, RunRow
<1> QED
  BY <1>3, <1>4 DEF RowsMove, Keeps

\* A release adds at most one row, which follows the released one only when that
\* failed or was cancelled; it takes the lock from the released one, and gives
\* it to nobody but the row it adds.
ReleaseOf(r, st, o) ==
    /\ o \in {0, r} /\ RowsMove(o)
    /\ o = r => st \in {"failed", "cancelled"} /\ Invokable(run[r].agent)
    /\ \A q \in RunId : q <= nRuns => run'[q] = run[q]
    /\ nRuns' = nRuns + 1 => run'[nRuns + 1].issue = run[r].issue
    /\ \A i \in Issue :
          \/ lock'[i] = lock[i] /\ (lock[i] = r => run[r].issue = NoIssue)
          \/ lock'[i] = 0
          \/ lock'[i] = nRuns + 1 /\ nRuns' = nRuns + 1 /\ run[r].issue = i

\* A release that adds no row.
LEMMA ReleaseKeepsRows ==
    ASSUME TypeInv, NEW r \in RunId, NEW st, UNCHANGED <<run, nRuns>>,
           \/ lock' = lock /\ run[r].issue = NoIssue
           \/ lock' = Unlocked(r)
    PROVE  ReleaseOf(r, st, 0)
<1>1. \A i \in Issue : \/ lock'[i] = lock[i] /\ (lock[i] = r => run[r].issue = NoIssue)
                       \/ lock'[i] = 0
  BY DEF Unlocked
<1>2. r # 0 /\ nRuns' # nRuns + 1
  BY DEF RunId, TypeInv, TypeOK
<1> QED
  BY <1>1, <1>2, SameMoves DEF ReleaseOf

\* A release that adds one.
LEMMA ReleaseAddsRow ==
    ASSUME TypeInv, NEW r \in RunId, NEW st, NEW row \in RunRow, Room, Insert(row),
           row.status = "queued", ~row.pid, row.issue = run[r].issue, NEW o \in {0, r},
           row.retryOf \in {0, o},
           o = r => st \in {"failed", "cancelled"} /\ Invokable(run[r].agent),
           NEW l \in {0, nRuns + 1}, lock' = [Unlocked(r) EXCEPT ![run[r].issue] = l]
    PROVE  ReleaseOf(r, st, o)
<1>1. /\ RowsMove(o) /\ nRuns' = nRuns + 1 /\ run'[nRuns + 1] = row
      /\ \A q \in RunId : q <= nRuns => run'[q] = run[q]
  BY InsertMoves
<1>2. Unlocked(r) \in [Issue -> 0..MaxRuns]
  BY UnlockedType DEF TypeInv
<1>3. ASSUME NEW i \in Issue
      PROVE  \/ lock'[i] = lock[i] /\ (lock[i] = r => run[r].issue = NoIssue)
             \/ lock'[i] = 0
             \/ lock'[i] = nRuns + 1 /\ nRuns' = nRuns + 1 /\ run[r].issue = i
  <2>1. CASE i = run[r].issue
    BY <1>1, <1>2, <2>1
  <2>2. CASE i # run[r].issue
    <3>1. lock'[i] = Unlocked(r)[i]
      BY <1>2, <2>2
    <3> QED
      BY <3>1 DEF Unlocked
  <2> QED
    BY <2>1, <2>2
<1> QED
  BY <1>1, <1>3 DEF ReleaseOf

\* Promoting a parked wake is such a release; the new row follows nothing.
LEMMA PromoteMoves ==
    ASSUME TypeInv, NEW r \in RunId, run[r].issue \in Issue, NEW st,
           NEW k \in DOMAIN deferred[run[r].issue], PromoteDeferred(r, run[r].issue, k)
    PROVE  ReleaseOf(r, st, 0)
<1> DEFINE i == run[r].issue
           d == deferred[i][k]
           row == QueuedRow(d.agent, i, d.wake)
<1>1. d \in ParkedWake
  <2>1. deferred[i] \in Seq(ParkedWake)
    BY DEF TypeInv, TypeOK
  <2> QED
    BY <2>1
<1>2. Room /\ Insert(row)
  BY DEF PromoteDeferred
<1>3. /\ row \in RunRow /\ row.status = "queued"
      /\ row.issue = i /\ row.retryOf = 0 /\ ~row.pid
  <2>1. d.agent \in Agent /\ d.wake \in Wake
    BY <1>1 DEF ParkedWake
  <2> HIDE DEF d, i
  <2>2. i \in Issue
    BY DEF i
  <2> QED
    BY <2>1, <2>2, RowTypes, QueuedFields
<1>4. PICK l \in {0, nRuns + 1} : lock' = [Unlocked(r) EXCEPT ![i] = l]
  BY DEF PromoteDeferred
<1> HIDE DEF row
<1>5. ReleaseOf(r, st, 0)
  <2>1. r # 0
    BY DEF RunId
  <2> QED
    BY <1>2, <1>3, <1>4, <2>1, ReleaseAddsRow
<1> QED
  BY <1>5

\* A recovery is one; the new row follows the released run.
LEMMA RecoverMoves ==
    ASSUME TypeInv, NEW r \in RunId, r <= nRuns, run[r].issue \in Issue,
           NEW st \in {"failed", "cancelled"}, RecoverIssue(r, run[r].issue)
    PROVE  \E o : ReleaseOf(r, st, o)
<1> DEFINE i == run[r].issue
           a == run[r].agent
           base == QueuedRow(a, i, "assigned")
           row == [base EXCEPT !.retryReason = RecoveryReason(i), !.retryOf = r]
<1>1. CASE UNCHANGED <<run, nRuns>> /\ lock' = Unlocked(r)
  BY <1>1, ReleaseKeepsRows
<1>2. CASE /\ Invokable(a) /\ Room /\ Insert(row)
           /\ lock' = [Unlocked(r) EXCEPT ![i] = nRuns + 1]
  <2>1. a \in Agent /\ r \in 0..MaxRuns /\ "assigned" \in Wake
        /\ RecoveryReason(i) \in RetryReason
    BY DEF TypeInv, TypeOK, RowsInv, RunId, Wake, RecoveryReason, RetryReason
  <2>2. base \in RunRow /\ base.status = "queued" /\ base.issue = i /\ ~base.pid
    BY <2>1, RowTypes, QueuedFields
  <2> HIDE DEF base
  <2>3. /\ row \in RunRow /\ row.status = "queued" /\ row.issue = i /\ ~row.pid
        /\ row.retryOf = r
    BY <2>1, <2>2 DEF RunRow
  <2> HIDE DEF row
  <2>4. ReleaseOf(r, st, r)
    BY <1>2, <2>3, ReleaseAddsRow
  <2> QED
    BY <2>4
<1> QED
  BY <1>1, <1>2 DEF RecoverIssue

\* Every release is one, whichever way it goes.
LEMMA ReleaseMoves ==
    ASSUME TypeInv, NEW r \in RunId, r <= nRuns, NEW st,
           ReleaseIssueExecutionAndPromote(r, st)
    PROVE  \E o : ReleaseOf(r, st, o)
<1> DEFINE i == run[r].issue
<1>1. i = NoIssue \/ i \in Issue
  BY DEF TypeInv, TypeOK, RunRow
<1>2. CASE i = NoIssue /\ UNCHANGED <<run, nRuns, lock>>
  BY <1>2, ReleaseKeepsRows
<1>3. CASE lock' = Unlocked(r) /\ UNCHANGED <<run, nRuns>>
  BY <1>3, ReleaseKeepsRows
<1>4. CASE i \in Issue /\ \E k \in Promotable(i) : PromoteDeferred(r, i, k)
  BY <1>4, PromoteMoves DEF Promotable
<1>5. CASE i \in Issue /\ st \in {"failed", "cancelled"} /\ RecoverIssue(r, i)
  BY <1>5, RecoverMoves
<1> QED
  BY <1>1, <1>2, <1>3, <1>4, <1>5 DEF ReleaseIssueExecutionAndPromote, NeedsImmediateRecovery

------------------------------------------------------------------------------
(* Which rows the steps of each part move.                                   *)

\* Executors add a row only by releasing.
LEMMA ExecutorMoves ==
    ASSUME TypeInv, NEW r \in RunId, Executes(r)
    PROVE  \E o : RowsMove(o)
<1>1. exec \in [RunId -> ExecState] /\ run \in [RunId -> RunRow] /\ run[r] \in RunRow
      /\ (exec[r] # "none" => r <= nRuns)
  BY DEF TypeInv, TypeOK, References
<1>2. CASE ExecSpawn(r)
  <2>1. /\ nRuns' = nRuns /\ run' = [run EXCEPT ![r].pid = TRUE]
        /\ exec'[r] = "adapter"
    BY <1>1, <1>2 DEF ExecSpawn
  <2>2. /\ \A q \in RunId \ {r} : run'[q] = run[q]
        /\ run'[r] = [run[r] EXCEPT !.pid = TRUE]
    BY <1>1, <2>1
  <2>3. Keeps(r)
    BY <1>1, <2>1, <2>2 DEF Keeps, RunRow
  <2> QED
    BY <2>1, <2>2, <2>3 DEF RowsMove, Keeps
<1>3. CASE ExecRelease(r)
  <2>1. exec[r] # "none"
    BY <1>3 DEF ExecRelease
  <2> QED
    BY <1>1, <1>3, <2>1, ReleaseMoves DEF ExecRelease, ReleaseOf
<1>4. CASE ExecAbort(r)
  BY <1>4, EndMoves DEF ExecAbort, Terminal
<1>5. CASE ExecPersist(r)
  <2>1. CASE run[r].status = "running"
    <3>1. PICK s \in Terminal : nRuns' = nRuns /\ run' = [run EXCEPT ![r].status = s]
      BY <1>5, <2>1 DEF ExecPersist, Terminal
    <3> QED
      BY <3>1, EndMoves
  <2>2. CASE run[r].status # "running"
    BY <1>5, <2>2, SameMoves DEF ExecPersist
  <2> QED
    BY <2>1, <2>2
<1>6. CASE UNCHANGED <<run, nRuns>>
  BY <1>6, SameMoves
<1> QED
  BY <1>2, <1>3, <1>4, <1>5, <1>6
     DEF Executes, ExecEnter, ExecReturn, ExecReleaseThrows, ExecFinalize, ExecFinalized, ExecLeave

\* So do cancellations.
LEMMA CancelMoves ==
    ASSUME TypeInv, NEW r \in RunId, Cancels(r)
    PROVE  \E o : RowsMove(o)
<1>1. cancel[r] # "none" => r <= nRuns
  BY DEF TypeInv, References
<1>2. CASE CancelRelease(r)
  <2>1. cancel[r] # "none"
    BY <1>2 DEF CancelRelease
  <2> QED
    BY <1>1, <1>2, <2>1, ReleaseMoves DEF CancelRelease, ReleaseOf
<1>3. CASE CancelWrite(r)
  BY <1>3, EndMoves DEF CancelWrite, Terminal
<1>4. CASE UNCHANGED <<run, nRuns>>
  BY <1>4, SameMoves
<1> QED
  BY <1>2, <1>3, <1>4 DEF Cancels, CancelKill, CancelFinalize, CancelFinalized, CancelStart

\* The retry of a lost run.
LEMMA RetryMoves ==
    ASSUME TypeInv, NEW r \in RunId, ReapRetry(r)
    PROVE  /\ RowsMove(r) /\ nRuns' = nRuns + 1 /\ nRuns + 1 \in RunId
           /\ run'[nRuns + 1].issue = run[r].issue
           /\ \A q \in RunId : q <= nRuns => run'[q] = run[q]
<1> DEFINE base == QueuedRow(run[r].agent, run[r].issue, MergeWake(run[r].wake, "assigned"))
           row == [base EXCEPT !.retryReason = "process_lost", !.loss = 1, !.retryOf = r]
<1>1. run[r].agent \in Agent /\ run[r] \in RunRow
  BY DEF ReapRetry, TypeInv, TypeOK, RowsInv, References
<1>2. /\ base \in RunRow /\ base.status = "queued" /\ base.issue = run[r].issue
      /\ base.retryOf = 0 /\ ~base.pid
  <2>1. run[r].issue \in Issue \cup {NoIssue} /\ run[r].wake \in Wake /\ "assigned" \in Wake
    BY <1>1 DEF RunRow, Wake
  <2>2. MergeWake(run[r].wake, "assigned") \in Wake
    BY <2>1, MergeWakeType
  <2> QED
    BY <1>1, <2>1, <2>2, RowTypes, QueuedFields
<1>3. /\ row \in RunRow /\ row.status = "queued" /\ row.issue = run[r].issue
      /\ row.retryOf = r /\ ~row.pid
  <2>1. r \in 0..MaxRuns /\ "process_lost" \in RetryReason /\ 1 \in 0..1
    BY DEF RunId, RetryReason
  <2> HIDE DEF base
  <2> QED
    BY <1>2, <2>1 DEF RunRow
<1>4. Room /\ Insert(row)
  BY DEF ReapRetry
<1> HIDE DEF row
<1> QED
  BY <1>3, <1>4, InsertMoves

\* The reaper adds retries too; a lost row does not go back to the queue.
LEMMA ReaperMoves ==
    ASSUME TypeInv, Reaps
    PROVE  \E o : RowsMove(o)
<1>1. CASE ReapBegin
  BY <1>1, SameMoves DEF ReapBegin
<1> SUFFICES ASSUME NEW r \in RunId,
                    \/ ReapSkip(r) \/ ReapDetached(r) \/ ReapLost(r) \/ ReapRetry(r)
                    \/ ReapRetryExists(r) \/ ReapRelease(r) \/ ReapFinalize(r)
                    \/ ReapFinalized(r) \/ ReapStart(r)
             PROVE  \E o : RowsMove(o)
  BY <1>1 DEF Reaps
<1>2. CASE ReapDetached(r)
  <2>1. run \in [RunId -> RunRow] /\ run[r] \in RunRow
    BY DEF TypeInv, TypeOK
  <2>2. CASE run' = run
    BY <1>2, <2>2, SameMoves DEF ReapDetached
  <2>3. CASE run' = [run EXCEPT ![r].status = "running", ![r].detached = TRUE]
    <3>1. /\ \A q \in RunId \ {r} : run'[q] = run[q]
          /\ run'[r] = [run[r] EXCEPT !.status = "running", !.detached = TRUE]
      BY <2>1, <2>3
    <3>2. Keeps(r)
      BY <2>1, <3>1 DEF Keeps, RunRow
    <3> QED
      BY <1>2, <3>1, <3>2 DEF RowsMove, Keeps, ReapDetached
  <2> QED
    BY <1>2, <2>2, <2>3 DEF ReapDetached
<1>3. CASE ReapLost(r)
  BY <1>3, EndMoves DEF ReapLost, Terminal
<1>4. CASE ReapRetry(r)
  BY <1>4, RetryMoves
<1>5. CASE ReapRelease(r)
  <2>1. r <= nRuns
    BY <1>5 DEF ReapRelease, TypeInv, References
  <2> QED
    BY <1>5, <2>1, ReleaseMoves DEF ReapRelease, ReleaseOf
<1>6. CASE UNCHANGED <<run, nRuns>>
  BY <1>6, SameMoves
<1> QED
  BY <1>2, <1>3, <1>4, <1>5, <1>6
     DEF ReapSkip, ReapRetryExists, ReapFinalize, ReapFinalized, ReapStart

\* Rerouting writes nothing but a status.
LEMMA RerouteKeeps ==
    ASSUME TypeInv, NEW i \in Issue
    PROVE  \A q \in RunId :
              /\ RowsAfterReroute(i)[q].issue = run[q].issue
              /\ RowsAfterReroute(i)[q].retryOf = run[q].retryOf
              /\ RowsAfterReroute(i)[q].pid = run[q].pid
<1>1. run \in [RunId -> RunRow]
  BY DEF TypeInv, TypeOK
<1>2. CASE ~ReroutedHolder(i)
  BY <1>2 DEF RowsAfterReroute
<1>3. CASE ReroutedHolder(i)
  <2>1. PICK h \in RunId : h = lock[i]
    BY <1>3 DEF ReroutedHolder, TypeInv, TypeOK, RunId
  <2>2. RowsAfterReroute(i) = [run EXCEPT ![h].status = "cancelled"]
    BY <1>3, <2>1 DEF RowsAfterReroute
  <2>3. run[h] \in RunRow
    BY <1>1
  <2>4. /\ \A q \in RunId \ {h} : RowsAfterReroute(i)[q] = run[q]
        /\ RowsAfterReroute(i)[h] = [run[h] EXCEPT !.status = "cancelled"]
    BY <1>1, <2>2
  <2> QED
    BY <2>3, <2>4 DEF RunRow
<1> QED
  BY <1>2, <1>3

\* Wakes: what they add follows nothing.
LEMMA WakeMoves ==
    ASSUME TypeInv, Wakes
    PROVE  RowsMove(0)
<1>1. ASSUME NEW a \in Agent, NEW i \in Issue, NEW w \in {"assigned", "comment"},
             EnqueueWakeup(a, i, w)
      PROVE  RowsMove(0)
  <2> DEFINE rows == RowsAfterReroute(i)
             active == ActiveExecutionRun(i, rows)
  <2>1. /\ rows \in [RunId -> RunRow]
        /\ \A q \in RunId : /\ rows[q].issue = run[q].issue /\ rows[q].retryOf = run[q].retryOf
                            /\ rows[q].pid = run[q].pid
                            /\ \/ rows[q].status = run[q].status
                               \/ rows[q].status \notin {"absent", "queued"}
    BY RerouteType, RerouteKeeps
  <2>2. active # 0 => active \in RunId
    BY <2>1, ActiveOnPath DEF TypeInv
  <2>3. \/ run' = rows /\ nRuns' = nRuns
        \/ /\ active # 0 /\ nRuns' = nRuns
           /\ run' = [rows EXCEPT ![active].wake = MergeWake(@, w)]
        \/ /\ Room /\ nRuns' = nRuns + 1
           /\ run' = [rows EXCEPT ![nRuns + 1] = QueuedRow(a, i, w)]
    BY <1>1 DEF EnqueueWakeup, Coalesces
  <2> HIDE DEF rows, active
  <2>4. CASE run' = rows /\ nRuns' = nRuns
    BY <2>1, <2>4 DEF RowsMove, Keeps
  <2>5. CASE /\ active # 0 /\ nRuns' = nRuns
             /\ run' = [rows EXCEPT ![active].wake = MergeWake(@, w)]
    <3>1. rows[active] \in RunRow /\ active \in RunId
      BY <2>1, <2>2, <2>5
    <3>2. /\ \A q \in RunId \ {active} : run'[q] = rows[q]
          /\ run'[active] = [rows[active] EXCEPT !.wake = MergeWake(@, w)]
      BY <2>1, <2>5, <3>1
    <3>3. \A q \in RunId : /\ run'[q].issue = rows[q].issue /\ run'[q].retryOf = rows[q].retryOf
                           /\ run'[q].pid = rows[q].pid /\ run'[q].status = rows[q].status
      BY <3>1, <3>2 DEF RunRow
    <3> QED
      BY <2>1, <2>5, <3>3 DEF RowsMove, Keeps
  <2>6. CASE /\ Room /\ nRuns' = nRuns + 1
             /\ run' = [rows EXCEPT ![nRuns + 1] = QueuedRow(a, i, w)]
    <3>1. nRuns + 1 \in RunId
      BY <2>6, BoundAssumption DEF Room, TypeInv, TypeOK, RunId
    <3>2. /\ run'[nRuns + 1] = QueuedRow(a, i, w)
          /\ \A q \in RunId : q # nRuns + 1 => run'[q] = rows[q]
      BY <2>1, <2>6, <3>1
    <3>3. run'[nRuns + 1].status = "queued" /\ ~run'[nRuns + 1].pid
          /\ run'[nRuns + 1].retryOf = 0
      BY <3>2, RowTypes, QueuedFields DEF Wake
    <3> QED
      BY <2>1, <2>6, <3>1, <3>2, <3>3 DEF RowsMove, Keeps
  <2> QED
    BY <2>3, <2>4, <2>5, <2>6
<1>2. ASSUME NEW a \in Agent, EnqueueTimerWakeup(a) PROVE RowsMove(0)
  <2>1. /\ QueuedRow(a, NoIssue, "assigned") \in RunRow
        /\ QueuedRow(a, NoIssue, "assigned").status = "queued"
        /\ ~QueuedRow(a, NoIssue, "assigned").pid
        /\ QueuedRow(a, NoIssue, "assigned").retryOf = 0
    BY RowTypes, QueuedFields DEF Wake
  <2> QED
    BY <1>2, <2>1, InsertMoves DEF EnqueueTimerWakeup
<1> QED
  BY <1>1, <1>2 DEF Wakes

\* Start activations add no row.
LEMMA StarterMoves ==
    ASSUME TypeInv, Starts
    PROVE  RowsMove(0)
<1>1. starter.pc \in {"drop", "claim"} => starter.at \in RunId
  BY BoundAssumption DEF TypeInv, TypeOK, References, Known, RunId
<1>2. CASE ClaimDropped
  BY <1>1, <1>2, EndMoves DEF ClaimDropped, Terminal
<1>3. CASE ClaimQueuedRun
  <2>1. CASE run[starter.at].status = "queued"
    BY <1>1, <1>3, <2>1, EndMoves DEF ClaimQueuedRun
  <2>2. CASE run[starter.at].status # "queued"
    BY <1>3, <2>2, SameMoves DEF ClaimQueuedRun
  <2> QED
    BY <2>1, <2>2
<1>4. CASE UNCHANGED <<run, nRuns>>
  BY <1>4, SameMoves
<1> QED
  BY <1>2, <1>3, <1>4
     DEF Starts, ResumeQueuedRuns, StartBegin, StartNothing, ClaimGates, ClaimRefused,
         DropUnlocks, StampLock, StartEnd

------------------------------------------------------------------------------
(* A row is executed once, with either reading of the start lock.            *)

\* What an activation has claimed waits for it to be launched, and is claimed
\* by no other activation, those it overtook included.
ClaimsApart ==
    /\ \A q \in starter.claimed :
          exec[q] = "claimed" /\ \A k \in DOMAIN outer : q \notin outer[k].claimed
    /\ \A k \in DOMAIN outer : \A q \in outer[k].claimed :
          exec[q] = "claimed" /\ \A j \in DOMAIN outer : q \in outer[j].claimed => j = k

\* A row that is still to be spawned has had no child.
Unspawned(q) ==
    /\ exec[q] # "none" => run[q].status \notin {"absent", "queued"}
    /\ run[q].status = "queued" \/ exec[q] \in {"claimed", "launched", "setup"} => ~run[q].pid

SpawnInv == TypeInv /\ ClaimsApart /\ \A q \in RunId : Unspawned(q)

\* A step keeps the invariant if every executor goes on from where it was: to
\* "claimed" from a queued row, to "launched" and "setup" from before.
LEMMA UnspawnedStep ==
    ASSUME SpawnInv, NEW o, RowsMove(o),
           \A q \in RunId :
              \/ exec'[q] = exec[q]
              \/ exec'[q] = "none"
              \/ exec[q] \in {"claimed", "launched"} /\ exec'[q] \in {"launched", "setup"}
              \/ exec[q] # "none" /\ exec'[q] \notin {"claimed", "launched", "setup"}
              \/ /\ run[q].status = "queued" /\ run'[q].status = "running"
                 /\ run'[q].pid = run[q].pid
    PROVE  \A q \in RunId : Unspawned(q)'
<1> SUFFICES ASSUME NEW q \in RunId PROVE Unspawned(q)'
  OBVIOUS
<1>1. Unspawned(q) /\ nRuns \in 0..MaxRuns
  BY DEF SpawnInv, TypeInv, TypeOK
<1>2. CASE Keeps(q)
  BY <1>1, <1>2 DEF Keeps, Unspawned
<1>3. CASE q = nRuns + 1 /\ run'[q].status = "queued" /\ ~run'[q].pid
  <2>1. ~(q <= nRuns)
    BY <1>1, <1>3
  <2>2. exec[q] = "none" /\ run[q].status = "absent"
    BY <2>1 DEF SpawnInv, TypeInv, RowsInv, References
  <2> QED
    BY <1>3, <2>2 DEF Unspawned
<1> QED
  BY <1>2, <1>3 DEF RowsMove

\* Claims stay apart as long as they only shrink and stay claimed.
LEMMA ApartKept ==
    ASSUME ClaimsApart, UNCHANGED outer, starter'.claimed \subseteq starter.claimed,
           starter.claimed \subseteq RunId,
           \A k \in DOMAIN outer : outer[k].claimed \subseteq RunId,
           \A q \in RunId : exec[q] = "claimed" => exec'[q] = "claimed"
    PROVE  ClaimsApart'
  BY DEF ClaimsApart

\* What activations claim are runs.
LEMMA ClaimsAreRuns ==
    ASSUME TypeInv
    PROVE  /\ starter.claimed \subseteq RunId
           /\ \A k \in DOMAIN outer : outer[k] \in Activation /\ outer[k].claimed \subseteq RunId
<1>1. starter \in Activation /\ outer \in Seq(Activation)
  BY DEF TypeInv, TypeOK
<1>2. \A k \in DOMAIN outer : outer[k] \in Activation
  BY <1>1, LenProperties, ElementOfSeq
<1>3. \A act \in Activation : act.claimed \subseteq RunId
  BY DEF Activation
<1> QED
  BY <1>1, <1>2, <1>3

\* Executors keep SpawnInv, and spawn only what has had no child.
LEMMA ExecutorSpawn ==
    ASSUME SpawnInv, NEW r \in RunId, Executes(r)
    PROVE  /\ ClaimsApart' /\ \A q \in RunId : Unspawned(q)'
           /\ \A q \in RunId : ~alive[q] /\ alive'[q] => ~run[q].pid
<1>1. /\ exec \in [RunId -> ExecState] /\ alive \in [RunId -> BOOLEAN]
      /\ starter' = starter /\ outer' = outer
  BY DEF SpawnInv, TypeInv, TypeOK, Executes, ExecEnter, ExecSpawn, ExecAbort, ExecReturn,
         ExecPersist, ExecRelease, ExecReleaseThrows, ExecFinalize, ExecFinalized, ExecLeave
<1>2. exec[r] \notin {"none", "claimed"}
  BY DEF Executes, ExecEnter, ExecSpawn, ExecAbort, ExecReturn, ExecPersist, ExecRelease,
         ExecReleaseThrows, ExecFinalize, ExecFinalized, ExecLeave, Finalizing
<1>3. /\ \A q \in RunId \ {r} : exec'[q] = exec[q] /\ alive'[q] = alive[q]
      /\ \/ exec'[r] = "none"
         \/ exec[r] = "launched" /\ exec'[r] = "setup"
         \/ exec'[r] \notin {"none", "claimed", "launched", "setup"}
      /\ alive'[r] = alive[r] \/ ~alive'[r] \/ exec[r] = "setup"
  <2>1. CASE ExecEnter(r)
    BY <1>1, <2>1 DEF ExecEnter
  <2>2. CASE ExecSpawn(r)
    BY <1>1, <2>2 DEF ExecSpawn
  <2>3. CASE ExecAbort(r)
    BY <1>1, <2>3 DEF ExecAbort
  <2>4. CASE ExecReturn(r)
    BY <1>1, <2>4 DEF ExecReturn
  <2>5. CASE ExecPersist(r)
    BY <1>1, <2>5 DEF ExecPersist
  <2>6. CASE ExecRelease(r)
    BY <1>1, <2>6 DEF ExecRelease
  <2>7. CASE ExecReleaseThrows(r)
    BY <1>1, <2>7 DEF ExecReleaseThrows
  <2>8. CASE ExecFinalize(r)
    BY <1>1, <2>8 DEF ExecFinalize, FinalizeRead
  <2>9. CASE ExecFinalized(r)
    BY <1>1, <2>9 DEF ExecFinalized
  <2>10. CASE ExecLeave(r)
    BY <1>1, <2>10 DEF ExecLeave
  <2> QED
    BY <2>1, <2>2, <2>3, <2>4, <2>5, <2>6, <2>7, <2>8, <2>9, <2>10 DEF Executes
<1>4. ClaimsApart'
  BY <1>1, <1>2, <1>3, ClaimsAreRuns, ApartKept DEF SpawnInv
<1>5. \E o : RowsMove(o)
  BY ExecutorMoves DEF SpawnInv
<1>6. \A q \in RunId : Unspawned(q)'
  BY <1>2, <1>3, <1>5, UnspawnedStep
<1>7. \A q \in RunId : ~alive[q] /\ alive'[q] => ~run[q].pid
  BY <1>3 DEF SpawnInv, Unspawned
<1> QED
  BY <1>4, <1>6, <1>7

\* An activation begins without claims, and what it overtakes keeps its own.
LEMMA BeginSpawn ==
    ASSUME SpawnInv, NEW a \in Agent, StartBegin(a)
    PROVE  ClaimsApart'
<1>1. /\ exec' = exec /\ starter'.claimed = {}
      /\ outer' = outer \/ outer' = Append(outer, starter)
  BY DEF StartBegin, Idle
<1>2. CASE outer' = outer
  BY <1>1, <1>2, ClaimsAreRuns, ApartKept DEF SpawnInv
<1>3. CASE outer' = Append(outer, starter)
  <2>1. outer \in Seq(Activation) /\ starter \in Activation
    BY DEF SpawnInv, TypeInv, TypeOK
  <2>2. PICK n \in Nat : n = Len(outer) /\ DOMAIN outer = 1..n
    BY <2>1
  <2>3. /\ DOMAIN outer' = 1..(n + 1) /\ outer'[n + 1] = starter
        /\ \A k \in 1..n : outer'[k] = outer[k]
    BY <1>3, <2>1, <2>2
  <2>4. \A k \in 1..(n + 1) : k \in 1..n \/ k = n + 1
    OBVIOUS
  <2>5. \A k \in 1..n : k # n + 1
    OBVIOUS
  <2>6. ASSUME NEW k \in 1..(n + 1), NEW q \in outer'[k].claimed
        PROVE  exec[q] = "claimed" /\ \A j \in 1..(n + 1) : q \in outer'[j].claimed => j = k
    <3>1. CASE k \in 1..n
      BY <2>2, <2>3, <2>4, <2>6, <3>1 DEF SpawnInv, ClaimsApart
    <3>2. CASE k = n + 1
      BY <2>2, <2>3, <2>4, <2>6, <3>2 DEF SpawnInv, ClaimsApart
    <3> QED
      BY <2>4, <3>1, <3>2
  <2> QED
    BY <1>1, <2>3, <2>6 DEF ClaimsApart
<1> QED
  BY <1>1, <1>2, <1>3

\* An activation launches exactly what it claimed, and the one it overtook goes on.
LEMMA EndSpawn ==
    ASSUME SpawnInv, StartEnd
    PROVE  /\ ClaimsApart'
           /\ \A q \in RunId : \/ exec'[q] = exec[q]
                               \/ exec[q] = "claimed" /\ exec'[q] = "launched"
<1>1. \A q \in RunId : exec'[q] = IF q \in starter.claimed THEN "launched" ELSE exec[q]
  BY DEF StartEnd
<1>2. \A q \in starter.claimed : exec[q] = "claimed"
  BY DEF SpawnInv, ClaimsApart
<1>3. CASE outer = <<>> /\ starter' = Idle /\ outer' = outer
  <2>1. starter'.claimed = {} /\ DOMAIN outer' = {}
    BY <1>3 DEF Idle
  <2> QED
    BY <1>1, <1>2, <2>1 DEF ClaimsApart
<1>4. CASE /\ outer # <<>> /\ outer' = SubSeq(outer, 1, Len(outer) - 1)
           /\ starter'.claimed = outer[Len(outer)].claimed
  <2>1. outer \in Seq(Activation)
    BY DEF SpawnInv, TypeInv, TypeOK
  <2>2. PICK n \in Nat : Len(outer) = n + 1 /\ DOMAIN outer = 1..(n + 1)
    <3>1. Len(outer) \in Nat /\ Len(outer) # 0 /\ DOMAIN outer = 1..Len(outer)
      BY <1>4, <2>1, LenProperties, EmptySeq
    <3>2. \E n \in Nat : Len(outer) = n + 1
      <4>1. PICK m \in Nat : m = Len(outer) /\ m # 0
        BY <3>1
      <4>2. m - 1 \in Nat /\ m = (m - 1) + 1
        BY <4>1
      <4> QED
        BY <4>1, <4>2
    <3> QED
      BY <3>1, <3>2
  <2>3. outer' = SubSeq(outer, 1, n)
    BY <1>4, <2>1, <2>2
  <2>4. DOMAIN outer' = 1..n /\ \A k \in 1..n : outer'[k] = outer[k]
    BY <2>1, <2>2, <2>3
  <2>5. n + 1 \in 1..(n + 1) /\ \A k \in 1..n : k \in 1..(n + 1) /\ k # n + 1
    OBVIOUS
  <2>6. \A q \in RunId : q \notin starter.claimed => exec'[q] = exec[q]
    BY <1>1
  <2>7. ASSUME NEW k \in 1..(n + 1), NEW q \in outer[k].claimed
        PROVE  exec'[q] = "claimed" /\ \A j \in 1..(n + 1) : q \in outer[j].claimed => j = k
    <3>1. q \notin starter.claimed /\ exec[q] = "claimed"
      BY <2>2, <2>7 DEF SpawnInv, ClaimsApart
    <3>2. q \in RunId
      BY <2>2, <2>7, ClaimsAreRuns DEF SpawnInv
    <3> QED
      BY <2>2, <2>6, <2>7, <3>1, <3>2 DEF SpawnInv, ClaimsApart
  <2>8. starter'.claimed = outer[n + 1].claimed
    BY <1>4, <2>2
  <2>9. ClaimsApart'
    BY <2>4, <2>5, <2>7, <2>8 DEF ClaimsApart
  <2> QED
    BY <1>1, <1>2, <2>9
<1>5. \/ outer = <<>> /\ starter' = Idle /\ outer' = outer
      \/ /\ outer # <<>> /\ outer' = SubSeq(outer, 1, Len(outer) - 1)
         /\ starter' \in {outer[Len(outer)], Resumed(outer[Len(outer)])}
  BY DEF StartEnd
<1>6. outer # <<>> => Resumed(outer[Len(outer)]).claimed = outer[Len(outer)].claimed
  <2>1. \A act \in Activation : Resumed(act).claimed = act.claimed
    BY DEF Resumed, Activation
  <2>2. outer \in Seq(Activation)
    BY DEF SpawnInv, TypeInv, TypeOK
  <2>3. outer # <<>> => outer[Len(outer)] \in Activation
    BY <2>2
  <2> QED
    BY <2>1, <2>3
<1> QED
  BY <1>1, <1>2, <1>3, <1>4, <1>5, <1>6

\* A queued run is claimed by nobody, so claiming it keeps the claims apart.
LEMMA ClaimSpawn ==
    ASSUME SpawnInv, ClaimQueuedRun
    PROVE  /\ ClaimsApart'
           /\ \A q \in RunId :
                 \/ exec'[q] = exec[q]
                 \/ /\ run[q].status = "queued" /\ run'[q].status = "running"
                    /\ run'[q].pid = run[q].pid
<1>1. /\ starter \in Activation /\ exec \in [RunId -> ExecState] /\ run \in [RunId -> RunRow]
      /\ outer' = outer
  BY DEF SpawnInv, TypeInv, TypeOK, ClaimQueuedRun
<1>2. PICK r \in RunId : r = starter.at
  BY BoundAssumption DEF ClaimQueuedRun, SpawnInv, TypeInv, TypeOK, References, Known, RunId
<1>3. CASE run[r].status = "queued"
  <2>1. /\ exec' = [exec EXCEPT ![r] = "claimed"]
        /\ run' = [run EXCEPT ![r].status = "running"]
        /\ starter' = [starter EXCEPT !.claimed = @ \cup {r}, !.pc = "stamp"]
    BY <1>2, <1>3 DEF ClaimQueuedRun
  <2>2. /\ exec'[r] = "claimed" /\ \A q \in RunId \ {r} : exec'[q] = exec[q]
        /\ starter'.claimed = starter.claimed \cup {r}
    BY <1>1, <2>1 DEF Activation
  <2>3. run'[r].status = "running" /\ run'[r].pid = run[r].pid
    <3>1. run[r] \in RunRow /\ run'[r] = [run[r] EXCEPT !.status = "running"]
      BY <1>1, <2>1
    <3> QED
      BY <3>1 DEF RunRow
  <2>4. exec[r] = "none"
    BY <1>3 DEF SpawnInv, Unspawned
  <2>5. r \notin starter.claimed /\ \A k \in DOMAIN outer : r \notin outer[k].claimed
    BY <2>4 DEF SpawnInv, ClaimsApart
  <2>6. ClaimsApart'
    <3>1. \A k \in DOMAIN outer : \A q \in outer[k].claimed : q \in RunId \ {r}
      BY <2>5, ClaimsAreRuns DEF SpawnInv
    <3>2. \A q \in starter.claimed : q \in RunId \ {r}
      BY <2>5, ClaimsAreRuns DEF SpawnInv
    <3> QED
      BY <1>1, <2>2, <2>5, <3>1, <3>2 DEF SpawnInv, ClaimsApart
  <2> QED
    BY <1>3, <2>2, <2>3, <2>6
<1>4. CASE run[r].status # "queued"
  <2>1. exec' = exec /\ starter' = [starter EXCEPT !.pc = "next"]
    BY <1>2, <1>4 DEF ClaimQueuedRun
  <2>2. starter'.claimed = starter.claimed
    BY <1>1, <2>1 DEF Activation
  <2> QED
    BY <1>1, <2>1, <2>2, ClaimsAreRuns, ApartKept DEF SpawnInv
<1> QED
  BY <1>3, <1>4

\* Start activations keep SpawnInv and spawn nothing.
LEMMA StarterSpawn ==
    ASSUME SpawnInv, Starts
    PROVE  /\ ClaimsApart' /\ \A q \in RunId : Unspawned(q)'
           /\ \A q \in RunId : alive'[q] = alive[q]
<1>1. RowsMove(0)
  BY StarterMoves DEF SpawnInv
<1>2. alive' = alive
  BY DEF Starts, ResumeQueuedRuns, StartBegin, StartNothing, ClaimGates, ClaimRefused,
         ClaimDropped, DropUnlocks, ClaimQueuedRun, StampLock, StartEnd
<1>3. CASE \E a \in Agent : StartBegin(a)
  <2>1. exec' = exec
    BY <1>3 DEF StartBegin
  <2> QED
    BY <1>1, <1>2, <1>3, <2>1, BeginSpawn, UnspawnedStep
<1>4. CASE StartEnd
  BY <1>1, <1>2, <1>4, EndSpawn, UnspawnedStep
<1>5. CASE ClaimQueuedRun
  BY <1>1, <1>2, <1>5, ClaimSpawn, UnspawnedStep
<1>6. CASE exec' = exec /\ outer' = outer /\ starter'.claimed = starter.claimed
  <2>1. ClaimsApart'
    BY <1>6, ClaimsAreRuns, ApartKept DEF SpawnInv
  <2> QED
    BY <1>1, <1>2, <1>6, <2>1, UnspawnedStep
<1>7. starter \in Activation
  BY DEF SpawnInv, TypeInv, TypeOK
<1>8. ASSUME NEW a \in Agent, StartNothing(a)
      PROVE  exec' = exec /\ outer' = outer /\ starter'.claimed = starter.claimed
  BY <1>7, <1>8 DEF StartNothing, Resumed, Activation
<1>9. ASSUME NEW r \in RunId, ClaimGates(r) \/ ClaimRefused(r)
      PROVE  exec' = exec /\ outer' = outer /\ starter'.claimed = starter.claimed
  BY <1>7, <1>9 DEF ClaimGates, ClaimRefused, Activation
<1>10. ASSUME ResumeQueuedRuns \/ ClaimDropped \/ DropUnlocks \/ StampLock
       PROVE  exec' = exec /\ outer' = outer /\ starter'.claimed = starter.claimed
  BY <1>7, <1>10 DEF ResumeQueuedRuns, ClaimDropped, DropUnlocks, StampLock, Activation
<1> QED
  BY <1>3, <1>4, <1>5, <1>6, <1>8, <1>9, <1>10 DEF Starts

\* Steps that leave executors and activations alone.
LEMMA ApartSame ==
    ASSUME SpawnInv, NEW o, RowsMove(o), UNCHANGED <<exec, starter, outer>>
    PROVE  ClaimsApart' /\ \A q \in RunId : Unspawned(q)'
<1>1. ClaimsApart'
  BY DEF SpawnInv, ClaimsApart
<1>2. \A q \in RunId : Unspawned(q)'
  BY UnspawnedStep
<1> QED
  BY <1>1, <1>2

\* A wake touches the rows, the locks and the parked wakes.
LEMMA WakesOnly ==
    ASSUME Wakes
    PROVE  UNCHANGED <<issue, agentStatus, exec, alive, cancel, reaper, starter, outer>>
<1>1. ASSUME NEW a \in Agent, NEW i \in Issue, NEW w \in {"assigned", "comment"},
             EnqueueWakeup(a, i, w)
      PROVE  UNCHANGED <<issue, agentStatus, exec, alive, cancel, reaper, starter, outer>>
  BY <1>1, Zenon DEF EnqueueWakeup
<1>2. ASSUME NEW a \in Agent, EnqueueTimerWakeup(a)
      PROVE  UNCHANGED <<issue, agentStatus, exec, alive, cancel, reaper, starter, outer>>
  BY <1>2 DEF EnqueueTimerWakeup
<1> QED
  BY <1>1, <1>2 DEF Wakes

\* Every step keeps SpawnInv, and spawns only what has had no child.
LEMMA NextSpawn ==
    ASSUME SpawnInv, Next
    PROVE  /\ SpawnInv'
           /\ \A q \in RunId : ~alive[q] /\ alive'[q] => ~run[q].pid
<1> DEFINE Holds == /\ ClaimsApart' /\ \A q \in RunId : Unspawned(q)'
                    /\ \A q \in RunId : ~alive[q] /\ alive'[q] => ~run[q].pid
<1>1. TypeInv'
  BY NextType DEF SpawnInv
<1>2. alive \in [RunId -> BOOLEAN]
  BY DEF SpawnInv, TypeInv, TypeOK
<1>3. CASE Wakes
  <2>1. UNCHANGED <<exec, alive, starter, outer>>
    BY <1>3, WakesOnly
  <2>2. Holds
    BY <1>3, <2>1, WakeMoves, ApartSame DEF SpawnInv
  <2> QED
    BY <1>1, <2>2 DEF SpawnInv
<1>4. CASE Starts
  BY <1>1, <1>4, StarterSpawn DEF SpawnInv
<1>5. CASE Reaps
  <2>1. UNCHANGED <<exec, alive, starter, outer>>
    BY <1>5 DEF Reaps, ReapBegin, ReapSkip, ReapDetached, ReapLost, ReapRetry, ReapRetryExists,
                ReapRelease, ReapFinalize, ReapFinalized, ReapStart
  <2>2. Holds
    BY <1>5, <2>1, ReaperMoves, ApartSame DEF SpawnInv
  <2> QED
    BY <1>1, <2>2 DEF SpawnInv
<1>6. ASSUME NEW r \in RunId, Executes(r) PROVE SpawnInv' /\ Holds
  BY <1>1, <1>6, ExecutorSpawn DEF SpawnInv
<1>7. ASSUME NEW r \in RunId, Cancels(r) PROVE SpawnInv' /\ Holds
  <2>1. UNCHANGED <<exec, starter, outer>>
    BY <1>7 DEF Cancels, CancelKill, CancelWrite, CancelRelease, CancelFinalize,
                CancelFinalized, CancelStart
  <2>2. \A q \in RunId : alive'[q] => alive[q]
    BY <1>2, <1>7 DEF Cancels, CancelKill, CancelWrite, CancelRelease, CancelFinalize,
                CancelFinalized, CancelStart
  <2>3. Holds
    BY <1>7, <2>1, <2>2, CancelMoves, ApartSame DEF SpawnInv
  <2> QED
    BY <1>1, <2>3 DEF SpawnInv
<1>8. CASE Outside
  <2>1. UNCHANGED <<run, nRuns>>
    BY <1>8 DEF Outside, CancelRun, CompleteIssue, OrphanExits, CancelActiveForAgent,
                PauseAgent, ReassignIssue, GateIssue, Crash
  <2>2. \A q \in RunId : alive'[q] => alive[q]
    BY <1>2, <1>8 DEF Outside, CancelRun, CompleteIssue, OrphanExits, CancelActiveForAgent,
                PauseAgent, ReassignIssue, GateIssue, Crash
  <2>3. RowsMove(0)
    BY <2>1, SameMoves
  <2>4. CASE Crash
    <3>1. starter'.claimed = {} /\ outer' = <<>> /\ \A q \in RunId : exec'[q] = "none"
      BY <2>4 DEF Crash, Idle
    <3>2. ClaimsApart'
      BY <3>1 DEF ClaimsApart
    <3>3. Holds
      BY <2>2, <2>3, <3>1, <3>2, UnspawnedStep
    <3> QED
      BY <1>1, <3>3 DEF SpawnInv
  <2>5. CASE UNCHANGED <<exec, starter, outer>>
    <3>1. Holds
      BY <2>2, <2>3, <2>5, ApartSame
    <3> QED
      BY <1>1, <3>1 DEF SpawnInv
  <2> QED
    BY <1>8, <2>4, <2>5 DEF Outside, CancelRun, CompleteIssue, OrphanExits,
          CancelActiveForAgent, PauseAgent, ReassignIssue, GateIssue
<1> QED
  BY <1>3, <1>4, <1>5, <1>6, <1>7, <1>8 DEF Next

\* SpawnInv holds at first.
LEMMA InitSpawn == Init => SpawnInv
<1> SUFFICES ASSUME Init PROVE SpawnInv
  OBVIOUS
<1>1. TypeInv
  BY InitType
<1>2. starter.claimed = {} /\ outer = <<>>
  BY DEF Init, Idle
<1>3. \A q \in RunId : exec[q] = "none" /\ run[q].status = "absent"
  BY DEF Init, AbsentRow
<1> QED
  BY <1>1, <1>2, <1>3 DEF SpawnInv, ClaimsApart, Unspawned

\* No row gets a second child spawned, whatever overtakes, cancels, retries or
\* crashes: executeRun leaves a mark on the row, and a marked row is never queued
\* or claimed again.
THEOREM SpawnedOnce == Spec => SpawnOnce
<1>1. SpawnInv /\ [Next]_vars => SpawnInv'
  <2>1. SpawnInv /\ UNCHANGED vars => SpawnInv'
    BY NextType DEF SpawnInv, ClaimsApart, Unspawned, vars
  <2> QED
    BY <2>1, NextSpawn
<1>2. SpawnInv /\ [Next]_vars =>
         [\A r \in RunId : ~alive[r] /\ alive'[r] => ~run[r].pid]_vars
  BY NextSpawn
<1>3. Spec => [][\A r \in RunId : ~alive[r] /\ alive'[r] => ~run[r].pid]_vars
  BY <1>1, <1>2, InitSpawn, PTL DEF Spec
<1> QED
  BY <1>3 DEF SpawnOnce

------------------------------------------------------------------------------
(* The inductive invariant of admission.                                   *)

\* The caps are not inductive by themselves: what an activation will still
\* claim was counted when it began.  So the invariant speaks of its plan: the
\* runs it goes through are distinct, its own agent's and not running, what it
\* claimed it has not launched, and the slots it has left are free (SlotsCovered).
PlanInv ==
    /\ outer = <<>>
    /\ starter.pc # "next" => starter.agent # NoAgent
    /\ starter.pc = "claim" => Left > 0
    /\ \A k \in DOMAIN starter.todo :
          run[starter.todo[k]].agent = starter.agent /\ run[starter.todo[k]].status # "running"
    /\ \A j, k \in DOMAIN starter.todo : j # k => starter.todo[j] # starter.todo[k]
    /\ starter.pc \in {"drop", "claim"} =>
          /\ run[starter.at].agent = starter.agent /\ run[starter.at].status # "running"
          /\ \A k \in DOMAIN starter.todo : starter.todo[k] # starter.at
    /\ \A r \in starter.claimed : exec[r] = "claimed" /\ run[r].status # "queued"
    /\ SlotsCovered

\* The one write that could bring an ended run back is the reaper's "detached",
\* so the invariant follows the child of a run: only an executor in the adapter
\* call owns one, a cancel killed it before it writes, and what the reaper has
\* listed and finds alive without an executor is still running.
OrphanAt(r) ==
    /\ alive[r] => exec[r] \in {"none", "adapter"}
    /\ exec[r] # "none" \/ alive[r] \/ r \in reaper.seen =>
          run[r].status \notin {"absent", "queued"}
    /\ cancel[r] \notin {"active_write", "active_kill", "active_release"}
    /\ cancel[r] = "write" /\ exec[r] = "none" => ~alive[r]
    /\ r \in reaper.seen /\ alive[r] /\ exec[r] = "none" => run[r].status = "running"
OrphanInv == \A r \in RunId : OrphanAt(r)

AdmissionInv == TypeInv /\ PlanInv /\ OrphanInv

------------------------------------------------------------------------------
(* Steps that admit nothing.                                               *)

\* No row becomes running: a row may be added queued, a queued row cancelled,
\* and the rows of S that exist may end.
Quiet(S) ==
    /\ \/ nRuns' = nRuns
       \/ /\ nRuns' = nRuns + 1 /\ nRuns + 1 \in RunId
          /\ run'[nRuns + 1].status = "queued" /\ run'[nRuns + 1].agent \in Agent
    /\ \A r \in RunId : r # nRuns + 1 \/ nRuns' = nRuns =>
          /\ run'[r].agent = run[r].agent
          /\ \/ run'[r].status = run[r].status
             \/ run[r].status = "queued" /\ run'[r].status = "cancelled"
             \/ r \in S /\ r <= nRuns /\ run'[r].status \in Terminal

LEMMA InsertsQuiet == ASSUME TypeInv, Inserts PROVE Quiet({})
<1>1. nRuns \in 0..MaxRuns /\ nRuns + 1 \in RunId /\ run \in [RunId -> RunRow]
  BY BoundAssumption DEF Inserts, Room, TypeInv, TypeOK, RunId
<1>2. PICK row \in RunRow : /\ row.status = "queued" /\ row.agent \in Agent
                            /\ run' = [run EXCEPT ![nRuns + 1] = row] /\ nRuns' = nRuns + 1
  BY DEF Inserts, Insert
<1> QED
  BY <1>1, <1>2 DEF Quiet

LEMMA SameQuiet ==
    ASSUME TypeInv, nRuns' = nRuns,
           run' = run \/ \E r \in RunId : run' = [run EXCEPT ![r].pid = TRUE]
    PROVE  Quiet({})
<1>1. run \in [RunId -> RunRow] /\ \A r \in RunId : run[r] \in RunRow
  BY DEF TypeInv, TypeOK
<1> QED
  BY <1>1 DEF Quiet, RunRow

LEMMA EndQuiet ==
    ASSUME TypeInv, nRuns' = nRuns, NEW r \in RunId, r <= nRuns, NEW s \in Terminal,
           run' = [run EXCEPT ![r].status = s]
    PROVE  Quiet({r}) /\ run'[r].status = s
<1>1. run \in [RunId -> RunRow] /\ run[r] \in RunRow
  BY DEF TypeInv, TypeOK
<1> QED
  BY <1>1 DEF Quiet, RunRow

LEMMA ReleaseQuiet ==
    ASSUME TypeInv, NEW r \in RunId, r <= nRuns, NEW st,
           ReleaseIssueExecutionAndPromote(r, st)
    PROVE  Quiet({})
<1>1. UNCHANGED <<run, nRuns>> \/ Inserts
  BY ReleaseType DEF TypeInv
<1> QED
  BY <1>1, InsertsQuiet, SameQuiet

\* What a quiet step leaves of the running rows.
LEMMA QuietRunning ==
    ASSUME TypeInv, NEW S, Quiet(S)
    PROVE  /\ Running' \subseteq Running
           /\ Cardinality(Running') <= Cardinality(Running)
           /\ \A a : /\ RunningOf(a)' \subseteq RunningOf(a)
                     /\ Cardinality(RunningOf(a)') <= Cardinality(RunningOf(a))
<1>1. Running' \subseteq Running /\ \A r \in Running' : run'[r].agent = run[r].agent
  BY DEF TypeInv, TypeOK, RowsInv, Quiet, Running, Terminal
<1>2. IsFiniteSet(Running)
  BY RunsAreFinite DEF Running
<1>3. ASSUME NEW a
      PROVE  /\ RunningOf(a)' \subseteq RunningOf(a)
             /\ Cardinality(RunningOf(a)') <= Cardinality(RunningOf(a))
  <2>1. RunningOf(a)' \subseteq RunningOf(a)
    BY <1>1 DEF RunningOf
  <2>2. IsFiniteSet(RunningOf(a))
    BY RunsAreFinite DEF RunningOf, Running
  <2> QED
    BY <2>1, <2>2, FS_Subset
<1> QED
  BY <1>1, <1>2, <1>3, FS_Subset

\* A quiet step keeps the plan of an activation that it leaves alone, or that is
\* done with its candidate.
LEMMA PlanKept ==
    ASSUME AdmissionInv, NEW S, Quiet(S), UNCHANGED outer,
           \/ starter' = starter
           \/ /\ starter.agent # NoAgent
              /\ \E pc \in {"next", "unlock"} : starter' = [starter EXCEPT !.pc = pc],
           \A r \in RunId : exec[r] = "claimed" => exec'[r] = "claimed"
    PROVE  PlanInv'
<1>1. /\ starter \in Activation /\ Known(starter, nRuns) /\ nRuns \in Nat
      /\ starter.claimed \subseteq RunId
  BY DEF AdmissionInv, TypeInv, TypeOK, References, Activation
<1>2. /\ starter'.agent = starter.agent /\ starter'.slots = starter.slots
      /\ starter'.todo = starter.todo /\ starter'.claimed = starter.claimed
      /\ starter' = starter \/ (starter'.pc \in {"next", "unlock"} /\ starter.agent # NoAgent)
  BY <1>1 DEF Activation
<1>3. \A k \in DOMAIN starter.todo : starter.todo[k] \in RunId /\ starter.todo[k] <= nRuns
  <2>1. starter.todo \in Seq(RunId)
    BY <1>1 DEF Activation
  <2> QED
    BY <1>1, <2>1, LenProperties, ElementOfSeq DEF Known
<1>4. \A r \in RunId : r <= nRuns =>
         /\ run'[r].agent = run[r].agent
         /\ run[r].status # "running" => run'[r].status # "running"
         /\ run[r].status # "queued" => run'[r].status # "queued"
  BY <1>1 DEF Quiet, Terminal, RunId
<1>5. \A k \in DOMAIN starter.todo : /\ run'[starter.todo[k]].agent = starter.agent
                                     /\ run'[starter.todo[k]].status # "running"
  BY <1>3, <1>4 DEF AdmissionInv, PlanInv
<1>6. starter.pc \in {"drop", "claim"} =>
         run'[starter.at].agent = starter.agent /\ run'[starter.at].status # "running"
  <2>1. starter.pc \in {"drop", "claim"} => starter.at \in RunId /\ starter.at <= nRuns
    BY <1>1, BoundAssumption DEF Known, AdmissionInv, TypeInv, TypeOK, RunId
  <2> QED
    BY <1>4, <2>1 DEF AdmissionInv, PlanInv
<1>7. \A r \in starter.claimed : exec'[r] = "claimed" /\ run'[r].status # "queued"
  BY <1>1, <1>4 DEF Known, AdmissionInv, PlanInv
<1>8. SlotsCovered'
  <2>1. PICK b : b = starter.agent
    OBVIOUS
  <2>2. /\ Cardinality(Running') <= Cardinality(Running)
        /\ Cardinality(RunningOf(b)') <= Cardinality(RunningOf(b))
    BY QuietRunning DEF AdmissionInv
  <2>3. /\ Cardinality(Running) \in Nat /\ Cardinality(Running') \in Nat
        /\ Cardinality(RunningOf(b)) \in Nat /\ Cardinality(RunningOf(b)') \in Nat
        /\ Left \in Int
    BY <1>1, RunsAreFinite DEF Running, RunningOf, Left, Activation
  <2>4. RunningOf(starter.agent)' = RunningOf(b)' /\ RunningOf(starter.agent) = RunningOf(b)
        /\ Left' = Left /\ starter'.agent = starter.agent
    BY <1>2, <2>1 DEF RunningOf, Running, Left
  <2> QED
    BY <2>2, <2>3, <2>4, CapAssumption DEF AdmissionInv, PlanInv, SlotsCovered
<1> QED
  BY <1>2, <1>5, <1>6, <1>7, <1>8 DEF AdmissionInv, PlanInv, Left

\* A quiet step keeps OrphanInv if every run whose executor, child or cancel it
\* touches, which it ends or which it lists, is as it should be afterwards.
LEMMA OrphansKept ==
    ASSUME AdmissionInv, NEW S, Quiet(S),
           \A q \in RunId :
              \/ /\ exec'[q] = exec[q] /\ alive'[q] = alive[q] /\ cancel'[q] = cancel[q]
                 /\ q \in reaper'.seen => q \in reaper.seen
                 /\ q \notin S
              \/ OrphanAt(q)'
    PROVE  OrphanInv'
<1> SUFFICES ASSUME NEW q \in RunId,
                    exec'[q] = exec[q], alive'[q] = alive[q], cancel'[q] = cancel[q],
                    q \in reaper'.seen => q \in reaper.seen, q \notin S
             PROVE  OrphanAt(q)'
  BY DEF OrphanInv
<1>1. OrphanAt(q) /\ nRuns \in 0..MaxRuns
  BY DEF AdmissionInv, OrphanInv, TypeInv, TypeOK
<1>2. CASE q # nRuns + 1 \/ nRuns' = nRuns
  <2>1. \/ run'[q].status = run[q].status
        \/ run[q].status = "queued" /\ run'[q].status = "cancelled"
    BY <1>2 DEF Quiet
  <2> QED
    BY <1>1, <2>1 DEF OrphanAt
<1>3. CASE q = nRuns + 1 /\ nRuns' # nRuns
  <2>1. ~(q <= nRuns)
    BY <1>1, <1>3
  <2>2. run[q].status = "absent" /\ exec[q] = "none" /\ cancel[q] = "none"
    BY <2>1 DEF AdmissionInv, TypeInv, RowsInv, References
  <2> QED
    BY <1>1, <2>2 DEF OrphanAt
<1> QED
  BY <1>2, <1>3

LEMMA ExecutorAdmission ==
    ASSUME AdmissionInv, NEW r \in RunId, Executes(r)
    PROVE  (\E S : Quiet(S)) /\ PlanInv' /\ OrphanInv'
<1>1. /\ OrphanAt(r) /\ run[r] \in RunRow
      /\ exec \in [RunId -> ExecState] /\ alive \in [RunId -> BOOLEAN]
      /\ exec[r] # "none" => r <= nRuns
  BY DEF AdmissionInv, OrphanInv, TypeInv, TypeOK, References
<1>2. ASSUME NEW S, Quiet(S), S \subseteq {r}, exec[r] # "claimed", OrphanAt(r)',
             \A q \in RunId : q # r => exec'[q] = exec[q] /\ alive'[q] = alive[q],
             UNCHANGED <<cancel, reaper, starter, outer>>
      PROVE  (\E T : Quiet(T)) /\ PlanInv' /\ OrphanInv'
  <2>1. PlanInv'
    BY <1>2, PlanKept
  <2>2. OrphanInv'
    BY <1>2, OrphansKept
  <2> QED
    BY <1>2, <2>1, <2>2
<1>3. CASE ExecEnter(r)
  <2>1. Quiet({}) /\ run' = run
    BY <1>3, SameQuiet DEF ExecEnter, AdmissionInv
  <2>2. OrphanAt(r)'
    BY <1>1, <1>3, <2>1 DEF ExecEnter, OrphanAt
  <2> QED
    BY <1>1, <1>2, <1>3, <2>1, <2>2 DEF ExecEnter
<1>4. CASE ExecSpawn(r)
  <2>1. Quiet({})
    BY <1>4, SameQuiet DEF ExecSpawn, AdmissionInv
  <2>2. run'[r].status = run[r].status
    BY <1>1, <1>4 DEF ExecSpawn, RunRow, AdmissionInv, TypeInv, TypeOK
  <2>3. OrphanAt(r)'
    BY <1>1, <1>4, <2>2 DEF ExecSpawn, OrphanAt
  <2> QED
    BY <1>1, <1>2, <1>4, <2>1, <2>3 DEF ExecSpawn
<1>5. CASE ExecAbort(r)
  <2>1. Quiet({r}) /\ run'[r].status = "cancelled"
    BY <1>1, <1>5, EndQuiet DEF ExecAbort, Terminal, AdmissionInv
  <2>2. OrphanAt(r)'
    BY <1>1, <1>5, <2>1 DEF ExecAbort, OrphanAt
  <2> QED
    BY <1>1, <1>2, <1>5, <2>1, <2>2 DEF ExecAbort
<1>6. CASE ExecReturn(r)
  <2>1. Quiet({}) /\ run' = run
    BY <1>6, SameQuiet DEF ExecReturn, AdmissionInv
  <2>2. OrphanAt(r)'
    BY <1>1, <1>6, <2>1 DEF ExecReturn, OrphanAt
  <2> QED
    BY <1>1, <1>2, <1>6, <2>1, <2>2 DEF ExecReturn
<1>7. CASE ExecPersist(r)
  <2>1. CASE run[r].status = "running"
    <3>1. \E s \in Terminal : run' = [run EXCEPT ![r].status = s]
      BY <1>7, <2>1 DEF ExecPersist, Terminal
    <3>2. Quiet({r}) /\ run'[r].status \in Terminal
      BY <1>1, <1>7, <3>1, EndQuiet DEF ExecPersist, AdmissionInv
    <3>3. OrphanAt(r)'
      BY <1>1, <1>7, <2>1, <3>2 DEF ExecPersist, OrphanAt, Terminal
    <3> QED
      BY <1>1, <1>2, <1>7, <3>2, <3>3 DEF ExecPersist
  <2>2. CASE run[r].status # "running"
    <3>1. Quiet({}) /\ run' = run
      BY <1>7, <2>2, SameQuiet DEF ExecPersist, AdmissionInv
    <3>2. OrphanAt(r)'
      BY <1>1, <1>7, <2>2, <3>1 DEF ExecPersist, OrphanAt
    <3> QED
      BY <1>1, <1>2, <1>7, <3>1, <3>2 DEF ExecPersist
  <2> QED
    BY <2>1, <2>2
<1>8. CASE ExecRelease(r)
  <2>1. r <= nRuns /\ exec[r] # "none" /\ exec[r] # "claimed"
    BY <1>1, <1>8 DEF ExecRelease
  <2>2. Quiet({})
    BY <1>8, <2>1, ReleaseQuiet DEF ExecRelease, AdmissionInv
  <2>3. run'[r].status = run[r].status \/ run[r].status = "queued"
    BY <2>1, <2>2 DEF Quiet, RunId, AdmissionInv, TypeInv, TypeOK
  <2>4. exec'[r] \in {"released_ok", "released_err", "leaving"} /\ alive' = alive
    BY <1>1, <1>8 DEF ExecRelease
  <2>5. OrphanAt(r)'
    BY <1>1, <1>8, <2>1, <2>3, <2>4 DEF ExecRelease, OrphanAt
  <2> QED
    BY <1>1, <1>2, <1>8, <2>1, <2>2, <2>5 DEF ExecRelease
<1>9. CASE ExecReleaseThrows(r)
  <2>1. Quiet({}) /\ run' = run
    BY <1>9, SameQuiet DEF ExecReleaseThrows, AdmissionInv
  <2>2. OrphanAt(r)'
    BY <1>1, <1>9, <2>1 DEF ExecReleaseThrows, OrphanAt
  <2> QED
    BY <1>1, <1>2, <1>9, <2>1, <2>2 DEF ExecReleaseThrows
<1>10. CASE ExecFinalize(r)
  <2>1. Quiet({}) /\ run' = run
    BY <1>10, SameQuiet DEF ExecFinalize, AdmissionInv
  <2>2. OrphanAt(r)'
    BY <1>1, <1>10, <2>1 DEF ExecFinalize, FinalizeRead, OrphanAt
  <2> QED
    BY <1>1, <1>2, <1>10, <2>1, <2>2 DEF ExecFinalize
<1>11. CASE ExecFinalized(r)
  <2>1. Quiet({}) /\ run' = run
    BY <1>11, SameQuiet DEF ExecFinalized, AdmissionInv
  <2>2. OrphanAt(r)'
    BY <1>1, <1>11, <2>1 DEF ExecFinalized, Finalizing, OrphanAt
  <2> QED
    BY <1>1, <1>2, <1>11, <2>1, <2>2 DEF ExecFinalized, Finalizing
<1>12. CASE ExecLeave(r)
  <2>1. Quiet({}) /\ run' = run
    BY <1>12, SameQuiet DEF ExecLeave, AdmissionInv
  <2>2. OrphanAt(r)'
    BY <1>1, <1>12, <2>1 DEF ExecLeave, OrphanAt
  <2> QED
    BY <1>1, <1>2, <1>12, <2>1, <2>2 DEF ExecLeave
<1> QED
  BY <1>3, <1>4, <1>5, <1>6, <1>7, <1>8, <1>9, <1>10, <1>11, <1>12 DEF Executes

LEMMA CancelAdmission ==
    ASSUME AdmissionInv, NEW r \in RunId, Cancels(r)
    PROVE  (\E S : Quiet(S)) /\ PlanInv' /\ OrphanInv'
<1>1. /\ OrphanAt(r) /\ run[r] \in RunRow
      /\ cancel \in [RunId -> CancelState] /\ alive \in [RunId -> BOOLEAN]
      /\ cancel[r] # "none" => r <= nRuns
  BY DEF AdmissionInv, OrphanInv, TypeInv, TypeOK, References
<1>2. ASSUME NEW S, Quiet(S), S \subseteq {r}, OrphanAt(r)',
             \A q \in RunId : q # r => cancel'[q] = cancel[q] /\ alive'[q] = alive[q],
             UNCHANGED <<exec, reaper, starter, outer>>
      PROVE  (\E T : Quiet(T)) /\ PlanInv' /\ OrphanInv'
  <2>1. PlanInv'
    BY <1>2, PlanKept
  <2>2. OrphanInv'
    BY <1>2, OrphansKept
  <2> QED
    BY <1>2, <2>1, <2>2
<1>3. CASE CancelKill(r)
  <2>1. Quiet({}) /\ run' = run
    BY <1>3, SameQuiet DEF CancelKill, AdmissionInv
  <2>2. OrphanAt(r)'
    BY <1>1, <1>3, <2>1 DEF CancelKill, OrphanAt
  <2> QED
    BY <1>1, <1>2, <1>3, <2>1, <2>2 DEF CancelKill
<1>4. CASE CancelWrite(r)
  <2>1. Quiet({r}) /\ run'[r].status = "cancelled"
    BY <1>1, <1>4, EndQuiet DEF CancelWrite, Terminal, AdmissionInv
  <2>2. cancel[r] = "write" /\ cancel' = [cancel EXCEPT ![r] = "release"]
    BY <1>1, <1>4 DEF CancelWrite, OrphanAt
  <2>3. OrphanAt(r)'
    BY <1>1, <1>4, <2>1, <2>2 DEF CancelWrite, OrphanAt
  <2> QED
    BY <1>1, <1>2, <1>4, <2>1, <2>2, <2>3 DEF CancelWrite
<1>5. CASE CancelRelease(r)
  <2>1. r <= nRuns
    BY <1>1, <1>5 DEF CancelRelease
  <2>2. Quiet({})
    BY <1>5, <2>1, ReleaseQuiet DEF CancelRelease, AdmissionInv
  <2>3. run'[r].status = run[r].status \/ (run[r].status = "queued" /\ run'[r].status = "cancelled")
    BY <2>1, <2>2 DEF Quiet, RunId, AdmissionInv, TypeInv, TypeOK
  <2>4. cancel'[r] \in {"finalize", "none"}
    BY <1>1, <1>5 DEF CancelRelease
  <2>5. OrphanAt(r)'
    BY <1>1, <1>5, <2>3, <2>4 DEF CancelRelease, OrphanAt
  <2> QED
    BY <1>1, <1>2, <1>5, <2>2, <2>5 DEF CancelRelease
<1>6. CASE CancelFinalize(r)
  <2>1. Quiet({}) /\ run' = run
    BY <1>6, SameQuiet DEF CancelFinalize, AdmissionInv
  <2>2. OrphanAt(r)'
    BY <1>1, <1>6, <2>1 DEF CancelFinalize, FinalizeRead, OrphanAt
  <2> QED
    BY <1>1, <1>2, <1>6, <2>1, <2>2 DEF CancelFinalize
<1>7. CASE CancelFinalized(r)
  <2>1. Quiet({}) /\ run' = run
    BY <1>7, SameQuiet DEF CancelFinalized, AdmissionInv
  <2>2. OrphanAt(r)'
    BY <1>1, <1>7, <2>1 DEF CancelFinalized, OrphanAt
  <2> QED
    BY <1>1, <1>2, <1>7, <2>1, <2>2 DEF CancelFinalized
<1>8. CASE CancelStart(r)
  <2>1. Quiet({}) /\ run' = run
    BY <1>8, SameQuiet DEF CancelStart, AdmissionInv
  <2>2. OrphanAt(r)'
    BY <1>1, <1>8, <2>1 DEF CancelStart, OrphanAt
  <2> QED
    BY <1>1, <1>2, <1>8, <2>1, <2>2 DEF CancelStart
<1> QED
  BY <1>3, <1>4, <1>5, <1>6, <1>7, <1>8 DEF Cancels

LEMMA ReaperAdmission ==
    ASSUME AdmissionInv, Reaps
    PROVE  (\E S : Quiet(S)) /\ PlanInv' /\ OrphanInv'
<1>1. /\ OrphanInv /\ reaper \in Sweep /\ reaper.seen \subseteq 1..nRuns
      /\ reaper.pc # "idle" => reaper.at <= nRuns
      /\ nRuns \in Nat /\ reaper.seen \subseteq RunId
  BY DEF AdmissionInv, TypeInv, TypeOK, References, Sweep
<1>2. ASSUME NEW S, Quiet(S),
             \A q \in RunId : \/ q \notin S /\ (q \in reaper'.seen => q \in reaper.seen)
                              \/ OrphanAt(q)',
             UNCHANGED <<exec, alive, cancel, starter, outer>>
      PROVE  (\E T : Quiet(T)) /\ PlanInv' /\ OrphanInv'
  <2>1. PlanInv'
    BY <1>2, PlanKept
  <2>2. OrphanInv'
    BY <1>2, OrphansKept
  <2> QED
    BY <1>2, <2>1, <2>2
<1>3. CASE ReapBegin
  <2>1. Quiet({}) /\ run' = run
    BY <1>3, SameQuiet DEF ReapBegin, AdmissionInv
  <2>2. reaper'.seen \subseteq Running
    BY <1>1, <1>3 DEF ReapBegin, Sweep
  <2>3. \A q \in RunId : q \in reaper'.seen => OrphanAt(q)'
    BY <1>1, <1>3, <2>1, <2>2 DEF ReapBegin, OrphanInv, OrphanAt, Running
  <2> QED
    BY <1>2, <1>3, <2>1, <2>3 DEF ReapBegin
<1>4. ASSUME NEW r PROVE ReaperPast(r).seen = reaper.seen \ {r}
  BY <1>1 DEF ReaperPast, ResetReaper, Sweep
<1>5. ASSUME NEW r \in RunId, ReapSkip(r)
      PROVE  (\E S : Quiet(S)) /\ PlanInv' /\ OrphanInv'
  <2>1. Quiet({})
    BY <1>5, SameQuiet DEF ReapSkip, AdmissionInv
  <2> QED
    BY <1>2, <1>4, <1>5, <2>1 DEF ReapSkip
<1>6. ASSUME NEW r \in RunId, ReapDetached(r)
      PROVE  (\E S : Quiet(S)) /\ PlanInv' /\ OrphanInv'
  <2>1. run[r].status = "running" \/ exec[r] # "none"
    BY <1>1, <1>6 DEF ReapDetached, ReapTurn, OrphanInv, OrphanAt
  <2>2. run[r].status = "running"
    BY <1>1, <1>6, <2>1 DEF ReapDetached, Tracked, OrphanInv, OrphanAt
  <2>3. run \in [RunId -> RunRow] /\ run[r] \in RunRow
    BY DEF AdmissionInv, TypeInv, TypeOK
  <2>4. \A q \in RunId : run'[q].agent = run[q].agent /\ run'[q].status = run[q].status
    BY <1>6, <2>2, <2>3 DEF ReapDetached, RunRow
  <2>5. Quiet({})
    BY <1>6, <2>4 DEF Quiet, ReapDetached
  <2> QED
    BY <1>2, <1>4, <1>6, <2>5 DEF ReapDetached
<1>7. ASSUME NEW r \in RunId, ReapLost(r)
      PROVE  (\E S : Quiet(S)) /\ PlanInv' /\ OrphanInv'
  <2>1. r <= nRuns
    BY <1>1, <1>7 DEF ReapLost, ReapTurn
  <2>2. Quiet({r}) /\ run'[r].status = "failed"
    BY <1>7, <2>1, EndQuiet DEF ReapLost, Terminal, AdmissionInv
  <2>3. reaper'.seen = reaper.seen \ {r}
    BY <1>1, <1>7 DEF ReapLost, Sweep
  <2>4. OrphanAt(r)'
    BY <1>1, <1>7, <2>2, <2>3 DEF ReapLost, OrphanInv, OrphanAt
  <2> QED
    BY <1>2, <1>7, <2>2, <2>3, <2>4 DEF ReapLost
<1>8. ASSUME NEW pc, reaper' = [reaper EXCEPT !.pc = pc]
      PROVE  reaper'.seen = reaper.seen
  BY <1>1, <1>8 DEF Sweep
<1>9. ASSUME NEW r \in RunId, ReapRetry(r)
      PROVE  (\E S : Quiet(S)) /\ PlanInv' /\ OrphanInv'
  <2>1. Quiet({})
    BY <1>9, RetryInserts, InsertsQuiet DEF AdmissionInv
  <2> QED
    BY <1>2, <1>8, <1>9, <2>1 DEF ReapRetry
<1>10. ASSUME NEW r \in RunId, ReapRetryExists(r)
       PROVE  (\E S : Quiet(S)) /\ PlanInv' /\ OrphanInv'
  <2>1. Quiet({})
    BY <1>10, SameQuiet DEF ReapRetryExists, AdmissionInv
  <2> QED
    BY <1>2, <1>8, <1>10, <2>1 DEF ReapRetryExists
<1>11. ASSUME NEW r \in RunId, ReapRelease(r)
       PROVE  (\E S : Quiet(S)) /\ PlanInv' /\ OrphanInv'
  <2>1. r <= nRuns
    BY <1>1, <1>11 DEF ReapRelease
  <2>2. Quiet({})
    BY <1>11, <2>1, ReleaseQuiet DEF ReapRelease, AdmissionInv
  <2> QED
    BY <1>2, <1>8, <1>11, <2>2 DEF ReapRelease
<1>12. ASSUME NEW r \in RunId, ReapFinalize(r)
       PROVE  (\E S : Quiet(S)) /\ PlanInv' /\ OrphanInv'
  <2>1. Quiet({})
    BY <1>12, SameQuiet DEF ReapFinalize, AdmissionInv
  <2> QED
    BY <1>2, <1>8, <1>12, <2>1 DEF ReapFinalize
<1>13. ASSUME NEW r \in RunId, ReapFinalized(r)
       PROVE  (\E S : Quiet(S)) /\ PlanInv' /\ OrphanInv'
  <2>1. Quiet({})
    BY <1>13, SameQuiet DEF ReapFinalized, AdmissionInv
  <2> QED
    BY <1>2, <1>8, <1>13, <2>1 DEF ReapFinalized
<1>14. ASSUME NEW r \in RunId, ReapStart(r)
       PROVE  (\E S : Quiet(S)) /\ PlanInv' /\ OrphanInv'
  <2>1. Quiet({})
    BY <1>14, SameQuiet DEF ReapStart, AdmissionInv
  <2>2. reaper'.seen \subseteq reaper.seen
    BY <1>1, <1>14 DEF ReapStart, ResetReaper, Sweep
  <2> QED
    BY <1>2, <1>14, <2>1, <2>2 DEF ReapStart
<1> QED
  BY <1>3, <1>5, <1>6, <1>7, <1>9, <1>10, <1>11, <1>12, <1>13, <1>14 DEF Reaps

LEMMA WakeAdmission ==
    ASSUME AdmissionInv, Wakes
    PROVE  (\E S : Quiet(S)) /\ PlanInv' /\ OrphanInv'
<1>1. Quiet({}) /\ UNCHANGED <<exec, alive, cancel, reaper, starter, outer>>
  <2>1. ASSUME NEW a \in Agent, NEW i \in Issue, NEW w \in {"assigned", "comment"},
               EnqueueWakeup(a, i, w)
        PROVE  Quiet({}) /\ UNCHANGED <<exec, alive, cancel, reaper, starter, outer>>
    <3>1. WakeRows
      BY <2>1, EnqueueRows DEF AdmissionInv, Wake
    <3>2. Quiet({})
      BY <3>1 DEF WakeRows, Quiet
    <3> QED
      BY <2>1, <3>2 DEF EnqueueWakeup
  <2>2. ASSUME NEW a \in Agent, EnqueueTimerWakeup(a)
        PROVE  Quiet({}) /\ UNCHANGED <<exec, alive, cancel, reaper, starter, outer>>
    <3>1. Inserts
      BY <2>2, RowTypes DEF EnqueueTimerWakeup, Inserts, Wake
    <3> QED
      BY <2>2, <3>1, InsertsQuiet DEF EnqueueTimerWakeup, AdmissionInv
  <2> QED
    BY <2>1, <2>2 DEF Wakes
<1>2. PlanInv'
  BY <1>1, PlanKept
<1>3. OrphanInv'
  BY <1>1, OrphansKept
<1> QED
  BY <1>1, <1>2, <1>3

\* An activation that has not begun claims nothing.
LEMMA IdlePlan == starter' = Idle /\ outer' = <<>> => PlanInv'
<1> SUFFICES ASSUME starter' = Idle, outer' = <<>> PROVE PlanInv'
  OBVIOUS
<1>1. /\ Idle.agent = NoAgent /\ Idle.todo = <<>> /\ Idle.claimed = {} /\ Idle.pc = "next"
      /\ DOMAIN Idle.todo = {}
  BY DEF Idle
<1> QED
  BY <1>1 DEF PlanInv, SlotsCovered, Left

LEMMA OutsideAdmission ==
    ASSUME AdmissionInv, Outside, "cancel_active" \notin Disturbance
    PROVE  (\E S : Quiet(S)) /\ PlanInv' /\ OrphanInv'
<1>1. /\ OrphanInv /\ cancel \in [RunId -> CancelState] /\ alive \in [RunId -> BOOLEAN]
  BY DEF AdmissionInv, TypeInv, TypeOK
<1>2. ASSUME UNCHANGED <<run, nRuns, exec, reaper, starter, outer>>,
             \A q \in RunId : \/ alive'[q] = alive[q] /\ cancel'[q] = cancel[q]
                              \/ OrphanAt(q)'
      PROVE  (\E S : Quiet(S)) /\ PlanInv' /\ OrphanInv'
  <2>1. Quiet({})
    BY <1>2, SameQuiet DEF AdmissionInv
  <2>2. PlanInv'
    BY <1>2, <2>1, PlanKept
  <2>3. OrphanInv'
    BY <1>2, <2>1, OrphansKept
  <2> QED
    BY <2>1, <2>2, <2>3
<1>3. ASSUME NEW r \in RunId, CancelRun(r)
      PROVE  (\E S : Quiet(S)) /\ PlanInv' /\ OrphanInv'
  <2>1. OrphanAt(r)'
    BY <1>1, <1>3 DEF CancelRun, OrphanInv, OrphanAt
  <2> QED
    BY <1>1, <1>2, <1>3, <2>1 DEF CancelRun
<1>4. ASSUME NEW r \in RunId, CompleteIssue(r)
      PROVE  (\E S : Quiet(S)) /\ PlanInv' /\ OrphanInv'
  BY <1>2, <1>4 DEF CompleteIssue
<1>5. ASSUME NEW r \in RunId, OrphanExits(r)
      PROVE  (\E S : Quiet(S)) /\ PlanInv' /\ OrphanInv'
  <2>1. OrphanAt(r)'
    BY <1>1, <1>5 DEF OrphanExits, OrphanInv, OrphanAt
  <2> QED
    BY <1>1, <1>2, <1>5, <2>1 DEF OrphanExits
<1>6. ASSUME NEW a \in Agent, PauseAgent(a)
      PROVE  (\E S : Quiet(S)) /\ PlanInv' /\ OrphanInv'
  BY <1>2, <1>6 DEF PauseAgent
<1>7. ASSUME NEW i \in Issue, NEW a \in Agent, ReassignIssue(i, a)
      PROVE  (\E S : Quiet(S)) /\ PlanInv' /\ OrphanInv'
  BY <1>2, <1>7 DEF ReassignIssue
<1>8. ASSUME NEW i \in Issue, NEW g, GateIssue(i, g)
      PROVE  (\E S : Quiet(S)) /\ PlanInv' /\ OrphanInv'
  BY <1>2, <1>8 DEF GateIssue
<1>9. CASE Crash
  <2>1. Quiet({}) /\ run' = run
    BY <1>9, SameQuiet DEF Crash, AdmissionInv
  <2>2. PlanInv'
    BY <1>9, IdlePlan DEF Crash
  <2>3. ASSUME NEW q \in RunId PROVE OrphanAt(q)'
    <3>1. /\ exec'[q] = "none" /\ cancel'[q] = "none" /\ (alive'[q] => alive[q])
          /\ reaper'.seen = {}
      BY <1>9 DEF Crash, ResetReaper
    <3> QED
      BY <1>1, <2>1, <3>1 DEF OrphanInv, OrphanAt
  <2> QED
    BY <2>1, <2>2, <2>3 DEF OrphanInv
<1>10. ASSUME NEW a \in Agent, CancelActiveForAgent(a) PROVE FALSE
  BY <1>10 DEF CancelActiveForAgent
<1> QED
  BY <1>3, <1>4, <1>5, <1>6, <1>7, <1>8, <1>9, <1>10 DEF Outside

-------------------------------------------------------------------------------
(* Starting: the plan of the activation.                                   *)

\* What remains of a list of distinct runs once its head is taken.
LEMMA TakeHead ==
    ASSUME NEW s \in Seq(RunId), s # <<>>,
           \A j, k \in DOMAIN s : j # k => s[j] # s[k]
    PROVE  /\ Head(s) = s[1] /\ 1 \in DOMAIN s
           /\ \A k \in DOMAIN Tail(s) :
                 /\ k + 1 \in DOMAIN s /\ Tail(s)[k] = s[k + 1]
                 /\ Tail(s)[k] # Head(s)
           /\ \A j, k \in DOMAIN Tail(s) : j # k => Tail(s)[j] # Tail(s)[k]
<1>1. Len(s) \in Nat /\ DOMAIN s = 1..Len(s) /\ Len(s) > 0
  BY LenProperties, EmptySeq
<1>2. /\ Tail(s) \in Seq(RunId) /\ Len(Tail(s)) = Len(s) - 1
      /\ \A k \in 1..Len(Tail(s)) : Tail(s)[k] = s[k + 1]
  BY <1>1, HeadTailProperties
<1>3. DOMAIN Tail(s) = 1..(Len(s) - 1)
  BY <1>2, LenProperties
<1>4. Head(s) = s[1] /\ 1 \in DOMAIN s
  BY <1>1
<1>5. \A k \in DOMAIN Tail(s) : k + 1 \in DOMAIN s /\ k + 1 # 1 /\ Tail(s)[k] = s[k + 1]
  BY <1>1, <1>2, <1>3
<1>6. \A j, k \in DOMAIN Tail(s) : j # k => j + 1 # k + 1
  BY <1>3
<1> QED
  BY <1>4, <1>5, <1>6

LEMMA BeginPlan ==
    ASSUME AdmissionInv, NEW a \in Agent, StartBegin(a), outer' = outer
    PROVE  PlanInv'
<1>1. PICK order \in [1..Cardinality(QueuedOf(a)) -> QueuedOf(a)] :
         /\ \A j, k \in DOMAIN order : j < k => order[j] # order[k] /\ Before(order[j], order[k])
         /\ starter' = [Idle EXCEPT !.agent = a, !.slots = AvailableSlots(a), !.todo = order]
  BY DEF StartBegin
<1>2. /\ starter'.agent = a /\ starter'.slots = AvailableSlots(a) /\ starter'.todo = order
      /\ starter'.claimed = {} /\ starter'.pc = "next"
  BY <1>1 DEF Idle
<1>3. \A r \in QueuedOf(a) : run[r].agent = a /\ run[r].status = "queued"
  BY DEF QueuedOf
<1>4. Cardinality(QueuedOf(a)) \in Nat
  BY RunsAreFinite DEF QueuedOf
<1>5. \A j, k \in DOMAIN order : j # k => order[j] # order[k]
  BY <1>1, <1>4
<1>6. Cardinality(starter'.claimed) = 0
  BY <1>2, FS_EmptySet
<1>7. Left' = AvailableSlots(a)
  BY <1>2, <1>6, SlotsType DEF Left
<1>8. SlotsCovered'
  <2>1. /\ AvailableSlots(a) \in Int /\ AvailableSlots(a) > 0
        /\ AvailableSlots(a) <= AgentMax - Cardinality(RunningOf(a))
        /\ AvailableSlots(a) <= GlobalMax - Cardinality(Running)
    BY SlotsType DEF StartBegin, Startable
  <2>2. Cardinality(RunningOf(a)) \in Nat /\ Cardinality(Running) \in Nat
    BY RunsAreFinite DEF RunningOf, Running
  <2>3. Running' = Running /\ RunningOf(starter.agent)' = RunningOf(a)
    BY <1>2 DEF StartBegin, Running, RunningOf
  <2> QED
    BY <1>7, <2>1, <2>2, <2>3, CapAssumption DEF SlotsCovered
<1>9. \A k \in DOMAIN order : run'[order[k]].agent = a /\ run'[order[k]].status # "running"
  BY <1>3 DEF StartBegin
<1> QED
  BY <1>2, <1>5, <1>8, <1>9 DEF PlanInv, AdmissionInv, Left

\* The next candidate is taken from the list, to be claimed, dropped, cancelled
\* or passed over; it is not running, and a claim needs a slot.
LEMMA CandidatePlan ==
    ASSUME AdmissionInv, NEW r \in RunId, NextCandidate(r),
           UNCHANGED <<run, exec, outer>>,
           \/ \E pc \in {"drop", "claim", "nested"} :
                 starter' = [starter EXCEPT !.todo = Tail(@), !.at = r, !.pc = pc]
           \/ starter' = [starter EXCEPT !.todo = Tail(@)]
    PROVE  PlanInv'
<1>1. /\ starter \in Activation /\ starter.todo \in Seq(RunId) /\ starter.todo # <<>>
      /\ starter.agent # NoAgent /\ starter.pc = "next" /\ r = Head(starter.todo)
      /\ Cardinality(starter.claimed) < starter.slots /\ PlanInv
  BY DEF AdmissionInv, TypeInv, TypeOK, Activation, NextCandidate
<1>2. /\ starter'.agent = starter.agent /\ starter'.slots = starter.slots
      /\ starter'.todo = Tail(starter.todo) /\ starter'.claimed = starter.claimed
      /\ \/ starter'.pc = "next"
         \/ starter'.pc \in {"drop", "claim", "nested"} /\ starter'.at = r
  BY <1>1 DEF Activation
<1>3. /\ Head(starter.todo) = starter.todo[1] /\ 1 \in DOMAIN starter.todo
      /\ \A k \in DOMAIN Tail(starter.todo) :
            /\ k + 1 \in DOMAIN starter.todo /\ Tail(starter.todo)[k] = starter.todo[k + 1]
            /\ Tail(starter.todo)[k] # Head(starter.todo)
      /\ \A j, k \in DOMAIN Tail(starter.todo) :
            j # k => Tail(starter.todo)[j] # Tail(starter.todo)[k]
  BY <1>1, TakeHead DEF PlanInv
<1>4. run[r].agent = starter.agent /\ run[r].status # "running"
  BY <1>1, <1>3 DEF PlanInv
<1>5. \A k \in DOMAIN Tail(starter.todo) :
         /\ run[Tail(starter.todo)[k]].agent = starter.agent
         /\ run[Tail(starter.todo)[k]].status # "running"
  BY <1>1, <1>3 DEF PlanInv
<1>6. Left' = Left /\ Left > 0
  <2>1. Cardinality(starter.claimed) \in Nat /\ starter.slots \in Nat
    BY <1>1, RunsAreFinite DEF Activation
  <2> QED
    BY <1>1, <1>2, <2>1 DEF Left
<1>7. SlotsCovered'
  <2>1. Running' = Running /\ RunningOf(starter.agent)' = RunningOf(starter.agent)
    BY <1>2 DEF Running, RunningOf
  <2> QED
    BY <1>1, <1>2, <1>6, <2>1 DEF SlotsCovered, PlanInv
<1> QED
  BY <1>1, <1>2, <1>3, <1>4, <1>5, <1>6, <1>7 DEF PlanInv

\* The one step that admits a run: it was queued, it belongs to the activation,
\* and a slot counted at its beginning is still free.
ClaimsAt(r) ==
    /\ r \in RunId /\ run[r].status = "queued" /\ run[r].agent = starter.agent
    /\ run' = [run EXCEPT ![r].status = "running"]
    /\ nRuns' = nRuns
    /\ Cardinality(Running) < GlobalMax
    /\ Cardinality(RunningOf(starter.agent)) < AgentMax

LEMMA ClaimingRuns ==
    ASSUME AdmissionInv, NEW r, ClaimsAt(r)
    PROVE  /\ Running' = Running \cup {r} /\ Cardinality(Running') = Cardinality(Running) + 1
           /\ \A a : RunningOf(a)' = IF a = starter.agent THEN RunningOf(a) \cup {r}
                                                         ELSE RunningOf(a)
           /\ Cardinality(RunningOf(starter.agent) \cup {r})
                 = Cardinality(RunningOf(starter.agent)) + 1
           /\ \A q \in RunId : /\ run'[q].agent = run[q].agent
                               /\ run'[q].status = IF q = r THEN "running" ELSE run[q].status
<1>1. run \in [RunId -> RunRow] /\ run[r] \in RunRow /\ r \in RunId
  BY DEF AdmissionInv, TypeInv, TypeOK, ClaimsAt
<1>2. \A q \in RunId : /\ run'[q].agent = run[q].agent
                      /\ run'[q].status = IF q = r THEN "running" ELSE run[q].status
  BY <1>1 DEF ClaimsAt, RunRow
<1>3. Running' = Running \cup {r} /\ r \notin Running
  BY <1>1, <1>2 DEF Running, ClaimsAt
<1>4. \A a : RunningOf(a)' = IF a = starter.agent THEN RunningOf(a) \cup {r} ELSE RunningOf(a)
  BY <1>1, <1>2, <1>3 DEF RunningOf, ClaimsAt
<1>5. IsFiniteSet(Running) /\ IsFiniteSet(RunningOf(starter.agent)) /\ r \notin RunningOf(starter.agent)
  BY <1>3, RunsAreFinite DEF Running, RunningOf
<1> QED
  BY <1>2, <1>3, <1>4, <1>5, FS_AddElement

LEMMA ClaimAdmission ==
    ASSUME AdmissionInv, ClaimQueuedRun
    PROVE  ((\E S : Quiet(S)) \/ \E r : ClaimsAt(r)) /\ PlanInv' /\ OrphanInv'
<1> DEFINE r == starter.at
<1>1. /\ starter \in Activation /\ Known(starter, nRuns) /\ starter.pc = "claim"
      /\ starter.agent # NoAgent /\ PlanInv /\ OrphanInv
      /\ exec \in [RunId -> ExecState]
  BY DEF ClaimQueuedRun, AdmissionInv, PlanInv, TypeInv, TypeOK, References
<1>2. r \in RunId /\ run[r].agent = starter.agent /\ OrphanAt(r)
  BY <1>1, BoundAssumption DEF Known, PlanInv, OrphanInv, AdmissionInv, TypeInv, TypeOK, RunId
<1>3. CASE run[r].status # "queued"
  <2>1. Quiet({})
    BY <1>3, SameQuiet DEF ClaimQueuedRun, AdmissionInv
  <2>2. PlanInv'
    BY <1>1, <1>3, <2>1, PlanKept DEF ClaimQueuedRun
  <2>3. OrphanInv'
    BY <1>3, <2>1, OrphansKept DEF ClaimQueuedRun
  <2> QED
    BY <2>1, <2>2, <2>3
<1>4. CASE run[r].status = "queued"
  <2>1. /\ Cardinality(Running) \in Nat /\ Cardinality(RunningOf(starter.agent)) \in Nat
        /\ Cardinality(starter.claimed) \in Nat /\ IsFiniteSet(starter.claimed)
        /\ Left \in Int /\ starter.slots \in Nat
    BY <1>1, RunsAreFinite DEF Running, RunningOf, Left, Activation
  <2>2. /\ Left > 0 /\ Cardinality(Running) + Left <= GlobalMax
        /\ Cardinality(RunningOf(starter.agent)) + Left <= AgentMax
    BY <1>1 DEF PlanInv, SlotsCovered
  <2>3. ClaimsAt(r)
    BY <1>2, <1>4, <2>1, <2>2, CapAssumption DEF ClaimsAt, ClaimQueuedRun
  <2>4. /\ Cardinality(Running') = Cardinality(Running) + 1
        /\ \A a : RunningOf(a)' = IF a = starter.agent THEN RunningOf(a) \cup {r}
                                                      ELSE RunningOf(a)
        /\ Cardinality(RunningOf(starter.agent) \cup {r})
              = Cardinality(RunningOf(starter.agent)) + 1
        /\ \A q \in RunId : /\ run'[q].agent = run[q].agent
                            /\ run'[q].status = IF q = r THEN "running" ELSE run[q].status
    BY <2>3, ClaimingRuns
  <2>5. /\ starter'.agent = starter.agent /\ starter'.slots = starter.slots
        /\ starter'.todo = starter.todo /\ starter'.claimed = starter.claimed \cup {r}
        /\ starter'.pc = "stamp"
    BY <1>1, <1>4 DEF ClaimQueuedRun, Activation
  <2>6. r \notin starter.claimed
    BY <1>1, <1>4 DEF PlanInv
  <2>7. Left' = Left - 1
    <3>1. Cardinality(starter.claimed \cup {r}) = Cardinality(starter.claimed) + 1
      BY <2>1, <2>6, FS_AddElement
    <3>2. Left' = starter.slots - Cardinality(starter.claimed \cup {r})
      BY <2>5 DEF Left
    <3> QED
      BY <2>1, <3>1, <3>2 DEF Left
  <2>8. SlotsCovered'
    <3>1. PICK b : b = starter.agent
      OBVIOUS
    <3>2. Cardinality(RunningOf(b)') = Cardinality(RunningOf(b)) + 1
      BY <2>4, <3>1
    <3>3. RunningOf(starter.agent)' = RunningOf(b)' /\ RunningOf(starter.agent) = RunningOf(b)
      BY <2>5, <3>1 DEF RunningOf, Running
    <3> QED
      BY <2>1, <2>2, <2>4, <2>7, <3>2, <3>3, CapAssumption DEF SlotsCovered
  <2>9. \A k \in DOMAIN starter.todo : starter.todo[k] \in RunId /\ starter.todo[k] # r
    BY <1>1, ElementOfSeq, LenProperties DEF PlanInv, Activation
  <2>10. /\ exec'[r] = "claimed" /\ \A q \in RunId : q # r => exec'[q] = exec[q]
         /\ starter.claimed \subseteq RunId
    BY <1>1, <1>2, <1>4 DEF ClaimQueuedRun, Activation
  <2>11. \A q \in starter.claimed \cup {r} : exec'[q] = "claimed" /\ run'[q].status # "queued"
    BY <1>1, <1>2, <2>4, <2>10 DEF PlanInv
  <2>12. PlanInv'
    BY <1>1, <2>4, <2>5, <2>8, <2>9, <2>11 DEF PlanInv, ClaimQueuedRun
  <2>13. ASSUME NEW q \in RunId PROVE OrphanAt(q)'
    <3>1. OrphanAt(q) /\ cancel' = cancel /\ alive' = alive /\ reaper' = reaper
      BY <1>1 DEF OrphanInv, ClaimQueuedRun
    <3>2. CASE q = r
      BY <1>4, <2>4, <2>10, <3>1, <3>2 DEF OrphanAt
    <3>3. CASE q # r
      BY <2>4, <2>10, <3>1, <3>3 DEF OrphanAt
    <3> QED
      BY <3>2, <3>3
  <2> QED
    BY <2>3, <2>12, <2>13 DEF OrphanInv
<1> QED
  BY <1>3, <1>4

LEMMA StarterAdmission ==
    ASSUME AdmissionInv, Starts, LockMode = "exclusive"
    PROVE  ((\E S : Quiet(S)) \/ \E r : ClaimsAt(r)) /\ PlanInv' /\ OrphanInv'
<1>1. /\ starter \in Activation /\ Known(starter, nRuns) /\ PlanInv /\ OrphanInv
      /\ exec \in [RunId -> ExecState] /\ cancel \in [RunId -> CancelState]
  BY DEF AdmissionInv, TypeInv, TypeOK, References
<1>2. ~Overtakable
  BY DEF Overtakable
<1>3. ASSUME Quiet({}), UNCHANGED <<run, alive, reaper>>,
             exec' = exec \/ cancel' = cancel,
             \A r \in RunId : exec'[r] = exec[r] \/ OrphanAt(r)',
             \A r \in RunId : cancel'[r] = cancel[r] \/ cancel'[r] = "kill"
      PROVE  OrphanInv'
  <2>1. \A r \in RunId : exec'[r] = exec[r] => OrphanAt(r)'
    BY <1>1, <1>3 DEF OrphanInv, OrphanAt
  <2> QED
    BY <1>3, <2>1 DEF OrphanInv
<1>4. ASSUME nRuns' = nRuns, run' = run PROVE Quiet({})
  BY <1>4, SameQuiet DEF AdmissionInv
<1>5. CASE ResumeQueuedRuns
  <2>1. Quiet({}) /\ OrphanInv'
    BY <1>3, <1>4, <1>5 DEF ResumeQueuedRuns
  <2> QED
    BY <1>5, <2>1, PlanKept DEF ResumeQueuedRuns
<1>6. ASSUME NEW a \in Agent, StartBegin(a)
      PROVE  ((\E S : Quiet(S)) \/ \E r : ClaimsAt(r)) /\ PlanInv' /\ OrphanInv'
  <2>1. Quiet({}) /\ OrphanInv'
    BY <1>3, <1>4, <1>6 DEF StartBegin
  <2> QED
    BY <1>2, <1>6, <2>1, BeginPlan DEF StartBegin
<1>7. ASSUME NEW a \in Agent, StartNothing(a)
      PROVE  ((\E S : Quiet(S)) \/ \E r : ClaimsAt(r)) /\ PlanInv' /\ OrphanInv'
  <2>1. starter' = starter
    BY <1>2, <1>7, AgentAssumption DEF StartNothing
  <2>2. Quiet({}) /\ OrphanInv'
    BY <1>3, <1>4, <1>7 DEF StartNothing
  <2> QED
    BY <1>7, <2>1, <2>2, PlanKept DEF StartNothing
<1>8. ASSUME NEW r \in RunId, ClaimGates(r)
      PROVE  ((\E S : Quiet(S)) \/ \E q : ClaimsAt(q)) /\ PlanInv' /\ OrphanInv'
  <2>1. \E pc \in {"drop", "claim", "nested"} :
           starter' = [starter EXCEPT !.todo = Tail(@), !.at = r, !.pc = pc]
    BY <1>8 DEF ClaimGates
  <2>2. Quiet({}) /\ OrphanInv'
    BY <1>3, <1>4, <1>8 DEF ClaimGates
  <2> QED
    BY <1>8, <2>1, <2>2, CandidatePlan DEF ClaimGates
<1>9. ASSUME NEW r \in RunId, ClaimRefused(r)
      PROVE  ((\E S : Quiet(S)) \/ \E q : ClaimsAt(q)) /\ PlanInv' /\ OrphanInv'
  <2>1. \/ \E pc \in {"drop", "claim", "nested"} :
              starter' = [starter EXCEPT !.todo = Tail(@), !.at = r, !.pc = pc]
        \/ starter' = [starter EXCEPT !.todo = Tail(@)]
    BY <1>9 DEF ClaimRefused
  <2>2. \A q \in RunId : cancel'[q] = cancel[q] \/ cancel'[q] = "kill"
    BY <1>1, <1>9 DEF ClaimRefused
  <2>3. Quiet({}) /\ OrphanInv'
    BY <1>3, <1>4, <1>9, <2>2 DEF ClaimRefused
  <2> QED
    BY <1>9, <2>1, <2>3, CandidatePlan DEF ClaimRefused
<1>10. CASE ClaimDropped
  <2>1. starter.at \in RunId /\ starter.at <= nRuns /\ starter.agent # NoAgent
    BY <1>1, <1>10, BoundAssumption
    DEF ClaimDropped, Known, PlanInv, AdmissionInv, TypeInv, TypeOK, RunId
  <2>2. run' = [run EXCEPT ![starter.at].status = "cancelled"]
    BY <1>10 DEF ClaimDropped
  <2>3. Quiet({starter.at}) /\ run'[starter.at].status = "cancelled"
    BY <1>10, <2>1, <2>2, EndQuiet DEF ClaimDropped, Terminal, AdmissionInv
  <2>4. PlanInv'
    BY <1>10, <2>1, <2>3, PlanKept DEF ClaimDropped
  <2>5. ASSUME NEW q \in RunId, q = starter.at PROVE OrphanAt(q)'
    <3>1. OrphanAt(q) /\ run[q].status # "running"
      BY <1>1, <1>10, <2>5 DEF ClaimDropped, PlanInv, OrphanInv
    <3> QED
      BY <1>10, <2>3, <2>5, <3>1 DEF ClaimDropped, OrphanAt
  <2>6. OrphanInv'
    BY <1>10, <2>3, <2>5, OrphansKept DEF ClaimDropped
  <2> QED
    BY <2>3, <2>4, <2>6
<1>11. CASE DropUnlocks
  <2>1. starter.agent # NoAgent
    BY <1>1, <1>11 DEF DropUnlocks, PlanInv
  <2>2. Quiet({}) /\ OrphanInv'
    BY <1>3, <1>4, <1>11 DEF DropUnlocks
  <2> QED
    BY <1>11, <2>1, <2>2, PlanKept DEF DropUnlocks
<1>12. CASE ClaimQueuedRun
  BY <1>12, ClaimAdmission
<1>13. CASE StampLock
  <2>1. starter.agent # NoAgent
    BY <1>1, <1>13 DEF StampLock, PlanInv
  <2>2. Quiet({}) /\ OrphanInv'
    BY <1>3, <1>4, <1>13 DEF StampLock
  <2> QED
    BY <1>13, <2>1, <2>2, PlanKept DEF StampLock
<1>14. CASE StartEnd
  <2>1. Quiet({}) /\ starter' = Idle /\ outer' = <<>>
    BY <1>1, <1>4, <1>14 DEF StartEnd, PlanInv
  <2>2. PlanInv'
    BY <2>1, IdlePlan
  <2>3. ASSUME NEW q \in RunId, exec'[q] # exec[q] PROVE OrphanAt(q)'
    <3>1. exec[q] = "claimed" /\ exec'[q] = "launched" /\ OrphanAt(q)
      BY <1>1, <1>14, <2>3 DEF StartEnd, PlanInv, OrphanInv
    <3> QED
      BY <1>14, <3>1 DEF StartEnd, OrphanAt
  <2>4. OrphanInv'
    BY <1>3, <1>14, <2>1, <2>3 DEF StartEnd
  <2> QED
    BY <2>1, <2>2, <2>4
<1> QED
  BY <1>5, <1>6, <1>7, <1>8, <1>9, <1>10, <1>11, <1>12, <1>13,
     <1>14 DEF Starts

-------------------------------------------------------------------------------
(* The theorems.  Both hypotheses are needed: the README gives, for each,   *)
(* the constants with which TLC breaks the cap without it.                 *)

LEMMA InitAdmission == Init => AdmissionInv /\ AdmissionCap
<1> SUFFICES ASSUME Init PROVE AdmissionInv /\ AdmissionCap
  OBVIOUS
<1>1. TypeInv
  BY InitType
<1>2. PlanInv
  <2>1. /\ Idle.agent = NoAgent /\ Idle.todo = <<>> /\ Idle.claimed = {} /\ Idle.pc = "next"
        /\ DOMAIN Idle.todo = {}
    BY DEF Idle
  <2> QED
    BY <2>1 DEF Init, PlanInv, SlotsCovered
<1>3. OrphanInv
  BY DEF Init, OrphanInv, OrphanAt, ResetReaper
<1>4. AdmissionCap
  <2>1. Running = {} /\ \A a \in Agent : RunningOf(a) = {}
    BY DEF Init, AbsentRow, Running, RunningOf
  <2> QED
    BY <2>1, FS_EmptySet, CapAssumption DEF AdmissionCap
<1> QED
  BY <1>1, <1>2, <1>3, <1>4 DEF AdmissionInv

LEMMA NextAdmission ==
    ASSUME LockMode = "exclusive", "cancel_active" \notin Disturbance,
           AdmissionInv, [Next]_vars
    PROVE  AdmissionInv' /\ ((\E S : Quiet(S)) \/ \E r : ClaimsAt(r))
<1>1. TypeInv'
  BY NextType DEF AdmissionInv
<1>2. ((\E S : Quiet(S)) \/ \E r : ClaimsAt(r)) /\ PlanInv' /\ OrphanInv'
  <2>1. CASE Wakes
    BY <2>1, WakeAdmission
  <2>2. CASE Starts
    BY <2>2, StarterAdmission
  <2>3. CASE Reaps
    BY <2>3, ReaperAdmission
  <2>4. CASE Outside
    BY <2>4, OutsideAdmission
  <2>5. ASSUME NEW r \in RunId, Executes(r)
        PROVE  (\E S : Quiet(S)) /\ PlanInv' /\ OrphanInv'
    BY <2>5, ExecutorAdmission
  <2>6. ASSUME NEW r \in RunId, Cancels(r)
        PROVE  (\E S : Quiet(S)) /\ PlanInv' /\ OrphanInv'
    BY <2>6, CancelAdmission
  <2>7. CASE UNCHANGED vars
    <3>1. Quiet({})
      BY <2>7, SameQuiet DEF vars, AdmissionInv
    <3>2. PlanInv'
      BY <2>7, <3>1, PlanKept DEF vars
    <3>3. OrphanInv'
      BY <2>7, <3>1, OrphansKept DEF vars
    <3> QED
      BY <3>1, <3>2, <3>3
  <2> QED
    BY <2>1, <2>2, <2>3, <2>4, <2>5, <2>6, <2>7 DEF Next
<1> QED
  BY <1>1, <1>2 DEF AdmissionInv

LEMMA CapKept ==
    ASSUME AdmissionInv, AdmissionCap, (\E S : Quiet(S)) \/ \E r : ClaimsAt(r)
    PROVE  AdmissionCap'
<1>1. ASSUME NEW S, Quiet(S) PROVE AdmissionCap'
  <2>1. /\ Cardinality(Running') <= Cardinality(Running)
        /\ \A a : Cardinality(RunningOf(a)') <= Cardinality(RunningOf(a))
    BY <1>1, QuietRunning DEF AdmissionInv
  <2>2. /\ Cardinality(Running) \in Nat /\ Cardinality(Running') \in Nat
        /\ \A a : Cardinality(RunningOf(a)) \in Nat /\ Cardinality(RunningOf(a)') \in Nat
    BY RunsAreFinite DEF Running, RunningOf
  <2>3. \A a \in Agent : Cardinality(RunningOf(a)') <= AgentMax
    BY <2>1, <2>2, CapAssumption DEF AdmissionCap
  <2>4. Cardinality(Running') <= GlobalMax
    BY <2>1, <2>2, CapAssumption DEF AdmissionCap
  <2> QED
    BY <2>3, <2>4 DEF AdmissionCap
<1>2. ASSUME NEW r, ClaimsAt(r) PROVE AdmissionCap'
  <2>1. /\ Cardinality(Running) \in Nat /\ Cardinality(RunningOf(starter.agent)) \in Nat
        /\ Cardinality(Running) < GlobalMax
        /\ Cardinality(RunningOf(starter.agent)) < AgentMax
    BY <1>2, RunsAreFinite DEF Running, RunningOf, ClaimsAt
  <2>2. Cardinality(Running') <= GlobalMax
    <3>1. Cardinality(Running') = Cardinality(Running) + 1
      BY <1>2, ClaimingRuns
    <3> QED
      BY <2>1, <3>1, CapAssumption
  <2>3. ASSUME NEW a \in Agent PROVE Cardinality(RunningOf(a)') <= AgentMax
    <3>1. CASE a = starter.agent
      <4>1. Cardinality(RunningOf(a)') = Cardinality(RunningOf(a)) + 1
        BY <1>2, <3>1, ClaimingRuns
      <4> QED
        BY <2>1, <3>1, <4>1, CapAssumption
    <3>2. CASE a # starter.agent
      BY <1>2, <3>2, ClaimingRuns DEF AdmissionCap
    <3> QED
      BY <3>1, <3>2
  <2> QED
    BY <2>2, <2>3 DEF AdmissionCap
<1> QED
  BY <1>1, <1>2

\* Neither cap is ever exceeded, for every number of agents, issues, slots, runs
\* and crashes: what startNextQueuedRunForAgent counted at its beginning is
\* still true when it claims, because nobody else admits meanwhile.
THEOREM CapsHold ==
    ASSUME LockMode = "exclusive", "cancel_active" \notin Disturbance
    PROVE  Spec => []AdmissionCap
<1>1. Init => AdmissionInv /\ AdmissionCap
  BY InitAdmission
<1>2. (AdmissionInv /\ AdmissionCap) /\ [Next]_vars => (AdmissionInv /\ AdmissionCap)'
  BY NextAdmission, CapKept
<1> QED
  BY <1>1, <1>2, PTL DEF Spec

\* An activation never has fewer slots than it will use.
THEOREM SlotsAreCovered ==
    ASSUME LockMode = "exclusive", "cancel_active" \notin Disturbance
    PROVE  Spec => []SlotsCovered
<1>1. Init => AdmissionInv
  BY InitAdmission
<1>2. AdmissionInv /\ [Next]_vars => AdmissionInv'
  BY NextAdmission
<1>3. AdmissionInv => SlotsCovered
  BY DEF AdmissionInv, PlanInv
<1> QED
  BY <1>1, <1>2, <1>3, PTL DEF Spec

\* Marking a row detached brings no ended run back, whatever crashes, cancels
\* and reaper sweeps came before.
THEOREM DetachedStillRunning ==
    ASSUME LockMode = "exclusive", "cancel_active" \notin Disturbance
    PROVE  Spec => []SeenOrphanRuns
<1>1. Init => AdmissionInv
  BY InitAdmission
<1>2. AdmissionInv /\ [Next]_vars => AdmissionInv'
  BY NextAdmission
<1>3. AdmissionInv => SeenOrphanRuns
  BY DEF AdmissionInv, OrphanInv, OrphanAt, SeenOrphanRuns, TypeInv, TypeOK, References, Sweep
<1> QED
  BY <1>1, <1>2, <1>3, PTL DEF Spec

-------------------------------------------------------------------------------
(* Refinement.                                                             *)

\* A step that admits nothing is a turnover.
LEMMA QuietTurnover ==
    ASSUME AdmissionInv, NEW S, Quiet(S)
    PROVE  Admission!Turnover
<1> DEFINE state == [r \in RunId |-> IF run[r].status \in Terminal THEN "ended" ELSE run[r].status]
           owner == [r \in RunId |-> run[r].agent]
           ended == {r \in RunId : state[r] \in {"queued", "running"} /\ state'[r] = "ended"}
<1>1. /\ \A r \in RunId : run[r].status \in {"absent"} \cup Path \cup Terminal
      /\ \A r \in RunId : r <= nRuns <=> run[r].status # "absent"
      /\ nRuns \in Nat
  BY DEF AdmissionInv, TypeInv, TypeOK, RowsInv, RunRow
<1>2. ended \in SUBSET {r \in RunId : state[r] \in {"queued", "running"}}
  OBVIOUS
<1>3. \A r \in RunId : r # nRuns + 1 \/ nRuns' = nRuns =>
         /\ owner'[r] = owner[r]
         /\ state'[r] = IF r \in ended THEN "ended" ELSE state[r]
  BY <1>1 DEF Quiet, Terminal, Path
<1>4. CASE nRuns' = nRuns
  <2>1. state' = [r \in RunId |-> IF r \in ended THEN "ended" ELSE state[r]]
    BY <1>3, <1>4
  <2>2. owner' = owner
    BY <1>3, <1>4
  <2> HIDE DEF ended
  <2> QED
    BY <1>2, <2>1, <2>2 DEF Admission!Turnover
<1>5. CASE nRuns' # nRuns
  <2>1. PICK n : n = nRuns + 1
    OBVIOUS
  <2>2. PICK a : a = owner'[n]
    OBVIOUS
  <2>3. /\ n \in RunId /\ n \notin ended /\ a \in Agent
        /\ state'[n] = "queued" /\ state[n] = "absent"
    BY <1>1, <1>5, <2>1, <2>2 DEF Quiet, Terminal
  <2>4. state' = [q \in RunId |-> IF q = n THEN "queued"
                                 ELSE IF q \in ended THEN "ended" ELSE state[q]]
    BY <1>3, <2>1, <2>3
  <2>5. owner' = [owner EXCEPT ![n] = a]
    BY <1>3, <2>1, <2>2, <2>3
  <2>6. \E r \in RunId, b \in Agent :
           /\ state[r] = "absent"
           /\ state' = [q \in RunId |-> IF q = r THEN "queued"
                                       ELSE IF q \in ended THEN "ended" ELSE state[q]]
           /\ owner' = [owner EXCEPT ![r] = b]
    <3> HIDE DEF ended, state, owner
    <3> QED
      BY <2>3, <2>4, <2>5
  <2> HIDE DEF ended
  <2> QED
    BY <1>2, <2>6 DEF Admission!Turnover
<1> QED
  BY <1>4, <1>5

\* A claim is an admission within the caps.
LEMMA ClaimAdmits ==
    ASSUME AdmissionInv, NEW r, ClaimsAt(r)
    PROVE  Admission!Admit(r)
<1> DEFINE state == [q \in RunId |-> IF run[q].status \in Terminal THEN "ended" ELSE run[q].status]
           owner == [q \in RunId |-> run[q].agent]
<1>1. r \in RunId /\ state[r] = "queued" /\ owner[r] = starter.agent
  BY DEF ClaimsAt, Terminal
<1>2. Admission!Admitted = Running
  BY DEF Admission!Admitted, Running, Terminal
<1>3. Admission!AdmittedOf(owner[r]) = RunningOf(starter.agent)
  BY <1>1, <1>2 DEF Admission!AdmittedOf, RunningOf, Running
<1>4. state' = [state EXCEPT ![r] = "running"]
  BY <1>1, ClaimingRuns DEF Terminal
<1>5. owner' = owner
  BY ClaimingRuns
<1>6. /\ Admission!Cardinality(Admission!Admitted) < GlobalMax
      /\ Admission!Cardinality(Admission!AdmittedOf(owner[r])) < AgentMax
  <2>1. \A T : Admission!Cardinality(T) = Cardinality(T)
    BY DEF Admission!Cardinality, Cardinality
  <2> QED
    BY <1>2, <1>3, <2>1 DEF ClaimsAt
<1> QED
  BY <1>1, <1>4, <1>5, <1>6 DEF Admission!Admit

\* The scheduler implements RunAdmission: every step of HeartbeatRuns is a
\* submission, a turnover or one admission within the caps.
THEOREM Refinement ==
    ASSUME LockMode = "exclusive", "cancel_active" \notin Disturbance
    PROVE  Spec => ImplementsAdmission
<1>1. Init => AdmissionInv
  BY InitAdmission
<1>2. AdmissionInv /\ [Next]_vars => AdmissionInv'
  BY NextAdmission
<1>3. Init => Admission!Init
  BY DEF Init, AbsentRow, Admission!Init, Terminal
<1>4. AdmissionInv /\ [Next]_vars => [Admission!Next]_(Admission!admission)
  <2>1. ASSUME AdmissionInv, (\E S : Quiet(S)) \/ \E r : ClaimsAt(r)
        PROVE  Admission!Next
    <3>1. ASSUME NEW r, ClaimsAt(r) PROVE r \in RunId
      BY <3>1 DEF ClaimsAt
    <3> QED
      BY <2>1, <3>1, QuietTurnover, ClaimAdmits DEF Admission!Next
  <2> QED
    BY <2>1, NextAdmission
<1> QED
  BY <1>1, <1>2, <1>3, <1>4, PTL DEF Spec, ImplementsAdmission, Admission!Spec

------------------------------------------------------------------------------
(* Who holds the execution locks, and who follows whom.                      *)

Reaping(q)  == reaper.at = q /\ reaper.pc \in {"retry", "again"}
Stamping(q) == starter.at = q /\ starter.pc = "stamp"
Dropping(q) == starter.at = q /\ starter.pc = "unlock"

\* Somebody has ended the run, or is about to, and will release its issue.
Ending(q) ==
    \/ exec[q] \in {"wrote_ok", "wrote_err", "aborted"}
    \/ cancel[q] \in {"kill", "write", "release"}
    \/ Reaping(q) \/ Dropping(q)

\* A step that is not about q: it may only take q off the reaper's list.
Untouched(q) ==
    /\ run'[q].status = run[q].status \/ q > nRuns
    /\ exec'[q] = exec[q] /\ alive'[q] = alive[q] /\ cancel'[q] = cancel[q]
    /\ q \in reaper'.seen => q \in reaper.seen
    /\ Reaping(q)' <=> Reaping(q)
    /\ Stamping(q)' => Stamping(q)
    /\ Dropping(q)' <=> Dropping(q)

\* A step that is about r alone, and does not let a start activation go on that
\* waits for itself.
About(r) ==
    /\ \A q \in RunId : q # r => Untouched(q)
    /\ starter.pc = "nested" => starter'.pc = "nested"

\* No run comes back.
EndedStays == \A q \in RunId : run[q].status \in Terminal => run'[q].status \in Terminal

\* No step brings an ended run back.
LEMMA NextEndedStays ==
    ASSUME LockMode = "exclusive", "cancel_active" \notin Disturbance, AdmissionInv, Next
    PROVE  EndedStays
<1>1. (\E S : Quiet(S)) \/ (\E r : ClaimsAt(r))
  BY NextAdmission
<1>2. nRuns \in 0..MaxRuns /\ \A q \in RunId : run[q].status \in Terminal => q <= nRuns
  BY DEF AdmissionInv, TypeInv, TypeOK, RowsInv, Terminal
<1>3. ASSUME NEW S, Quiet(S) PROVE EndedStays
  BY <1>2, <1>3 DEF Quiet, EndedStays, Terminal, RunId
<1>4. ASSUME NEW r, ClaimsAt(r) PROVE EndedStays
  BY <1>4 DEF ClaimsAt, EndedStays, Terminal, AdmissionInv, TypeInv, TypeOK, RunRow
<1> QED
  BY <1>1, <1>3, <1>4

\* Nothing refers to a row that has not been inserted.
LEMMA BeyondRows ==
    ASSUME TypeInv, NEW q \in RunId, q > nRuns
    PROVE  /\ run[q].status = "absent" /\ exec[q] = "none" /\ cancel[q] = "none"
           /\ q \notin reaper.seen /\ ~Reaping(q) /\ ~Stamping(q) /\ ~Dropping(q)
<1>1. nRuns \in Nat /\ q \in Nat /\ ~(q <= nRuns)
  BY DEF TypeInv, TypeOK, RunId
<1> QED
  BY <1>1 DEF TypeInv, RowsInv, References, Known, Reaping, Stamping, Dropping

\* Who follows a row after a step.
LEMMA RetriesMove ==
    ASSUME TypeInv, TypeInv', NEW o, RowsMove(o), NEW q \in RunId
    PROVE  /\ o # q => RetriesOf(q)' = RetriesOf(q)
           /\ RetriesOf(q)' = RetriesOf(q) \/ RetriesOf(q)' = RetriesOf(q) \cup {nRuns + 1}
           /\ nRuns' = nRuns => RetriesOf(q)' = RetriesOf(q)
<1>1. /\ \A p \in RunId : p <= nRuns <=> run[p].status # "absent"
      /\ \A p \in RunId : p <= nRuns' <=> run'[p].status # "absent"
      /\ nRuns \in Nat /\ q # 0
  BY DEF TypeInv, TypeOK, RowsInv, RunId
<1>2. RetriesOf(q) = {p \in RunId : p <= nRuns /\ run[p].retryOf = q}
  BY <1>1 DEF RetriesOf
<1>3. RetriesOf(q)' = {p \in RunId : p <= nRuns' /\ run'[p].retryOf = q}
  BY <1>1 DEF RetriesOf
<1>4. CASE nRuns' = nRuns /\ \A p \in RunId : Keeps(p)
  BY <1>2, <1>3, <1>4 DEF Keeps
<1>5. CASE /\ nRuns' = nRuns + 1 /\ nRuns + 1 \in RunId
           /\ \A p \in RunId : p # nRuns + 1 => Keeps(p)
           /\ run'[nRuns + 1].retryOf \in {0, o}
  <2>1. \A p \in RunId : p <= nRuns + 1 <=> p <= nRuns \/ p = nRuns + 1
    BY <1>1 DEF RunId
  <2>2. \A p \in RunId : p <= nRuns => p # nRuns + 1
    BY <1>1 DEF RunId
  <2>3. \A p \in RunId : p <= nRuns => run'[p].retryOf = run[p].retryOf
    BY <1>5, <2>2 DEF Keeps
  <2>4. CASE run'[nRuns + 1].retryOf = q
    <3>1. RetriesOf(q)' = RetriesOf(q) \cup {nRuns + 1} /\ o = q
      BY <1>1, <1>2, <1>3, <1>5, <2>1, <2>3, <2>4
    <3> QED
      BY <1>1, <1>5, <3>1
  <2>5. CASE run'[nRuns + 1].retryOf # q
    <3>1. RetriesOf(q)' = RetriesOf(q)
      BY <1>2, <1>3, <1>5, <2>1, <2>3, <2>5
    <3> QED
      BY <1>1, <1>5, <3>1
  <2> QED
    BY <2>4, <2>5
<1> QED
  BY <1>4, <1>5 DEF RowsMove

------------------------------------------------------------------------------
(* Every step is about at most one run.                                      *)

\* A step of an executor is about its run.
LEMMA ExecutorAbout ==
    ASSUME TypeInv, NEW r \in RunId, Executes(r)
    PROVE  About(r) /\ UNCHANGED <<cancel, reaper, starter, outer>>
<1>1. /\ exec \in [RunId -> ExecState] /\ alive \in [RunId -> BOOLEAN]
      /\ run \in [RunId -> RunRow] /\ (exec[r] # "none" => r <= nRuns)
  BY DEF TypeInv, TypeOK, References
<1>2. UNCHANGED <<cancel, reaper, starter, outer>>
  BY DEF Executes, ExecEnter, ExecSpawn, ExecAbort, ExecReturn, ExecPersist, ExecRelease,
         ExecReleaseThrows, ExecFinalize, ExecFinalized, ExecLeave
<1>3. \A q \in RunId \ {r} : exec'[q] = exec[q] /\ alive'[q] = alive[q]
  BY <1>1 DEF Executes, ExecEnter, ExecSpawn, ExecAbort, ExecReturn, ExecPersist, ExecRelease,
         ExecReleaseThrows, ExecFinalize, ExecFinalized, ExecLeave
<1>4. \A q \in RunId \ {r} : run'[q].status = run[q].status \/ q > nRuns
  <2>1. CASE ExecRelease(r)
    <3>1. r <= nRuns
      BY <1>1, <2>1 DEF ExecRelease
    <3>2. \A q \in RunId : q <= nRuns => run'[q] = run[q]
      BY <2>1, <3>1, ReleaseMoves DEF ExecRelease, ReleaseOf
    <3> QED
      BY <3>2 DEF TypeInv, TypeOK, RunId
  <2>2. CASE \A q \in RunId \ {r} : run'[q] = run[q]
    BY <2>2
  <2> QED
    BY <1>1, <2>1, <2>2
       DEF Executes, ExecEnter, ExecSpawn, ExecAbort, ExecReturn, ExecPersist,
           ExecReleaseThrows, ExecFinalize, ExecFinalized, ExecLeave
<1> QED
  BY <1>2, <1>3, <1>4 DEF About, Untouched, Reaping, Stamping, Dropping

\* A step of a cancellation is about its run.
LEMMA CancelAbout ==
    ASSUME TypeInv, NEW r \in RunId, Cancels(r)
    PROVE  About(r) /\ UNCHANGED <<exec, reaper, starter, outer>>
<1>1. /\ cancel \in [RunId -> CancelState] /\ alive \in [RunId -> BOOLEAN]
      /\ run \in [RunId -> RunRow] /\ (cancel[r] # "none" => r <= nRuns)
  BY DEF TypeInv, TypeOK, References
<1>2. UNCHANGED <<exec, reaper, starter, outer>>
  BY DEF Cancels, CancelKill, CancelWrite, CancelRelease, CancelFinalize, CancelFinalized,
         CancelStart
<1>3. \A q \in RunId \ {r} : cancel'[q] = cancel[q] /\ alive'[q] = alive[q]
  BY <1>1 DEF Cancels, CancelKill, CancelWrite, CancelRelease, CancelFinalize, CancelFinalized,
         CancelStart
<1>4. \A q \in RunId \ {r} : run'[q].status = run[q].status \/ q > nRuns
  <2>1. CASE CancelRelease(r)
    <3>1. r <= nRuns
      BY <1>1, <2>1 DEF CancelRelease
    <3>2. \A q \in RunId : q <= nRuns => run'[q] = run[q]
      BY <2>1, <3>1, ReleaseMoves DEF CancelRelease, ReleaseOf
    <3> QED
      BY <3>2 DEF TypeInv, TypeOK, RunId
  <2>2. CASE \A q \in RunId \ {r} : run'[q] = run[q]
    BY <2>2
  <2> QED
    BY <1>1, <2>1, <2>2
       DEF Cancels, CancelKill, CancelWrite, CancelFinalize, CancelFinalized, CancelStart
<1> QED
  BY <1>2, <1>3, <1>4 DEF About, Untouched, Reaping, Stamping, Dropping

ReapsAt(r) ==
    \/ ReapSkip(r) \/ ReapDetached(r) \/ ReapLost(r) \/ ReapRetry(r)
    \/ ReapRetryExists(r) \/ ReapRelease(r) \/ ReapFinalize(r)
    \/ ReapFinalized(r) \/ ReapStart(r)

\* A step of the reaper on a row is about that row.
LEMMA ReaperAbout ==
    ASSUME TypeInv, NEW r \in RunId, ReapsAt(r)
    PROVE  /\ About(r) /\ UNCHANGED <<exec, alive, cancel, starter, outer>>
           /\ reaper'.seen \subseteq reaper.seen
<1>1. /\ reaper \in Sweep /\ run \in [RunId -> RunRow]
      /\ ((reaper.pc # "idle" /\ reaper.at = r) \/ r \in reaper.seen => r <= nRuns)
  BY DEF TypeInv, TypeOK, References
<1>2. UNCHANGED <<exec, alive, cancel, starter, outer>>
  BY DEF ReapsAt, ReapSkip, ReapDetached, ReapLost, ReapRetry, ReapRetryExists, ReapRelease,
         ReapFinalize, ReapFinalized, ReapStart
<1>3. /\ reaper'.seen \subseteq reaper.seen
      /\ reaper.pc \in {"retry", "again"} => reaper.at = r
      /\ reaper'.pc \in {"retry", "again"} => reaper'.at = r
  <2>1. CASE reaper.pc = "idle" /\ reaper' = ReaperPast(r)
    <3>1. reaper'.pc = "idle" /\ reaper'.seen \subseteq reaper.seen
      BY <1>1, <2>1 DEF ReaperPast, ResetReaper, Sweep
    <3> QED
      BY <2>1, <3>1
  <2>2. CASE /\ reaper.pc = "idle"
             /\ reaper' = [reaper EXCEPT !.seen = @ \ {r}, !.at = r, !.pc = "retry"]
    BY <1>1, <2>2 DEF Sweep
  <2>3. CASE reaper.at = r /\ \E pc : reaper' = [reaper EXCEPT !.pc = pc]
    BY <1>1, <2>3 DEF Sweep
  <2>4. CASE reaper.pc = "start" /\ ReapStart(r)
    BY <1>1, <2>4 DEF Sweep, ReapStart, ResetReaper
  <2> QED
    BY <2>1, <2>2, <2>3, <2>4
       DEF ReapsAt, ReapSkip, ReapDetached, ReapLost, ReapTurn, ReapRetry, ReapRetryExists,
           ReapRelease, ReapFinalize, ReapFinalized, ReapStart
<1>4. \A q \in RunId \ {r} : run'[q].status = run[q].status \/ q > nRuns
  <2>1. CASE ReapRelease(r)
    <3>1. r <= nRuns
      BY <1>1, <2>1 DEF ReapRelease
    <3>2. \A q \in RunId : q <= nRuns => run'[q] = run[q]
      BY <2>1, <3>1, ReleaseMoves DEF ReapRelease, ReleaseOf
    <3> QED
      BY <3>2 DEF TypeInv, TypeOK, RunId
  <2>2. CASE ReapRetry(r)
    <3>1. \A q \in RunId : q <= nRuns => run'[q] = run[q]
      BY <2>2, RetryMoves
    <3> QED
      BY <3>1 DEF TypeInv, TypeOK, RunId
  <2>3. CASE \A q \in RunId \ {r} : run'[q] = run[q]
    BY <2>3
  <2> QED
    BY <1>1, <2>1, <2>2, <2>3
       DEF ReapsAt, ReapSkip, ReapDetached, ReapLost, ReapRetryExists, ReapFinalize,
           ReapFinalized, ReapStart
<1> QED
  BY <1>2, <1>3, <1>4 DEF About, Untouched, Reaping, Stamping, Dropping

\* A sweep begins: whatever is listed is running and past its launch.
LEMMA BeginUntouched ==
    ASSUME TypeInv, ReapBegin, NEW q \in RunId
    PROVE  \/ Untouched(q)
           \/ /\ run[q].status = "running" /\ exec[q] \notin {"claimed", "launched"}
              /\ ~Reaping(q) /\ ~Reaping(q)'
  BY DEF ReapBegin, Untouched, Reaping, Stamping, Dropping, Running, ResetReaper

\* The run a start activation is at, and the one it takes from its list.
StartsAt(r) ==
    \/ ClaimGates(r) \/ ClaimRefused(r)
    \/ starter.at = r /\ (ClaimDropped \/ DropUnlocks \/ ClaimQueuedRun \/ StampLock)

\* A step of an activation on a run is about that run.
LEMMA StarterAbout ==
    ASSUME TypeInv, NEW r \in RunId, StartsAt(r)
    PROVE  About(r) /\ UNCHANGED <<nRuns, alive, reaper, outer>>
<1>1. /\ starter \in Activation /\ exec \in [RunId -> ExecState]
      /\ cancel \in [RunId -> CancelState] /\ run \in [RunId -> RunRow]
  BY DEF TypeInv, TypeOK
<1>2. UNCHANGED <<nRuns, alive, reaper, outer>>
  BY DEF StartsAt, ClaimGates, ClaimRefused, ClaimDropped, DropUnlocks, ClaimQueuedRun, StampLock
<1>3. starter.pc # "nested"
  BY DEF StartsAt, ClaimGates, ClaimRefused, NextCandidate, ClaimDropped, DropUnlocks,
         ClaimQueuedRun, StampLock
<1>4. \A q \in RunId \ {r} : run'[q] = run[q] /\ exec'[q] = exec[q] /\ cancel'[q] = cancel[q]
  BY <1>1 DEF StartsAt, ClaimGates, ClaimRefused, ClaimDropped, DropUnlocks, ClaimQueuedRun,
              StampLock
<1>5. \A q \in RunId \ {r} : (Stamping(q)' => Stamping(q)) /\ (Dropping(q)' <=> Dropping(q))
  <2>1. starter.pc \in {"stamp", "unlock"} => starter.at = r
    BY DEF StartsAt, ClaimGates, ClaimRefused, NextCandidate
  <2>2. starter'.pc \in {"stamp", "unlock"} => starter'.at = r
    <3>1. CASE ClaimGates(r) \/ ClaimRefused(r)
      BY <1>1, <3>1 DEF Activation, ClaimGates, ClaimRefused, NextCandidate
    <3>2. CASE starter.at = r /\ (ClaimDropped \/ DropUnlocks \/ ClaimQueuedRun \/ StampLock)
      BY <1>1, <3>2 DEF Activation, ClaimDropped, DropUnlocks, ClaimQueuedRun, StampLock
    <3> QED
      BY <3>1, <3>2 DEF StartsAt
  <2> QED
    BY <2>1, <2>2 DEF Stamping, Dropping
<1> QED
  BY <1>2, <1>3, <1>4, <1>5 DEF About, Untouched, Reaping

\* The other steps of the starts.
LEMMA StarterTouches ==
    ASSUME LockMode = "exclusive", AdmissionInv, Starts
    PROVE  \/ \E r \in RunId : StartsAt(r)
           \/ /\ UNCHANGED <<run, nRuns, lock, alive, cancel, reaper>>
              /\ starter.pc = "nested" => starter'.pc = "nested"
              /\ \A q \in RunId :
                    \/ Untouched(q)
                    \/ /\ exec[q] = "claimed" /\ exec'[q] = "launched"
                       /\ ~Stamping(q)' /\ ~Dropping(q)
<1>1. /\ starter \in Activation /\ outer = <<>>
      /\ starter.pc # "next" => starter.agent # NoAgent /\ starter.at \in RunId
  BY BoundAssumption
     DEF AdmissionInv, PlanInv, TypeInv, TypeOK, References, Known, RunId
<1>2. CASE ClaimDropped \/ DropUnlocks \/ ClaimQueuedRun \/ StampLock
  BY <1>1, <1>2 DEF StartsAt, ClaimDropped, DropUnlocks, ClaimQueuedRun, StampLock
<1>3. CASE ResumeQueuedRuns
  BY <1>3 DEF ResumeQueuedRuns, Untouched, Reaping, Stamping, Dropping
<1>4. ASSUME NEW a \in Agent, StartBegin(a) \/ StartNothing(a)
      PROVE  /\ UNCHANGED <<run, nRuns, lock, alive, cancel, reaper>>
             /\ starter.pc = "nested" => starter'.pc = "nested"
             /\ \A q \in RunId : Untouched(q)
  <2>1. UNCHANGED <<run, nRuns, lock, exec, alive, cancel, reaper>>
    BY <1>4 DEF StartBegin, StartNothing
  <2>2. (starter.pc = "next" /\ starter'.pc = "next") \/ starter' = starter
    BY <1>1, <1>4, AgentAssumption
       DEF StartBegin, StartNothing, Overtakable, Idle, Resumed, Activation
  <2> QED
    BY <2>1, <2>2 DEF Untouched, Reaping, Stamping, Dropping
<1>5. CASE StartEnd
  <2>1. starter.pc = "next" /\ starter'.pc = "next"
    BY <1>1, <1>5 DEF StartEnd, Idle
  <2>2. UNCHANGED <<run, nRuns, lock, alive, cancel, reaper>>
    BY <1>5 DEF StartEnd
  <2>3. \A q \in RunId : exec'[q] = exec[q] \/ (exec[q] = "claimed" /\ exec'[q] = "launched")
    BY <1>5 DEF StartEnd, AdmissionInv, PlanInv
  <2> QED
    BY <2>1, <2>2, <2>3 DEF Untouched, Reaping, Stamping, Dropping
<1> QED
  BY <1>2, <1>3, <1>4, <1>5 DEF Starts, StartsAt

\* A wake may cancel the queued holder of the lock.
LEMMA WakeUntouched ==
    ASSUME TypeInv, Wakes, NEW q \in RunId
    PROVE  \/ Untouched(q)
           \/ run[q].status = "queued" /\ run'[q].status = "cancelled"
<1>1. UNCHANGED <<issue, agentStatus, exec, alive, cancel, reaper, starter, outer>>
  BY WakesOnly
<1>2. \/ run'[q].status = run[q].status \/ q > nRuns
      \/ run[q].status = "queued" /\ run'[q].status = "cancelled"
  <2>1. q = nRuns + 1 => q > nRuns
    BY DEF TypeInv, TypeOK, RunId
  <2>2. ASSUME NEW a \in Agent, NEW i \in Issue, NEW w \in {"assigned", "comment"},
               EnqueueWakeup(a, i, w)
        PROVE  WakeRows
    BY <2>2, EnqueueRows DEF Wake
  <2>3. ASSUME NEW a \in Agent, EnqueueTimerWakeup(a)
        PROVE  q # nRuns + 1 => run'[q] = run[q]
    BY <2>3 DEF EnqueueTimerWakeup, Insert, TypeInv, TypeOK
  <2> QED
    BY <2>1, <2>2, <2>3 DEF Wakes, WakeRows
<1> QED
  BY <1>1, <1>2 DEF Untouched, Reaping, Stamping, Dropping

------------------------------------------------------------------------------
(* An execution lock has an owner.                                           *)

HeldRightly(i) ==
    lock[i] # 0 => /\ run[lock[i]].issue = i
                   /\ run[lock[i]].status \in Path \/ Ending(lock[i])

\* What is being released has ended, what is stamped runs, and what has a
\* successor has ended and holds no lock.  A start activation that cancels a
\* run waits for itself, so nothing is claimed beside a cancellation.
OwnAt(q) ==
    /\ alive[q] => exec[q] = "adapter"
    /\ cancel[q] # "none" => starter.pc = "nested"
    /\ cancel[q] = "release" \/ exec[q] \in {"wrote_ok", "wrote_err", "aborted"} \/ Reaping(q) =>
          run[q].status \in Terminal
    /\ Stamping(q) => run[q].status = "running" /\ exec[q] = "claimed"
    /\ exec[q] \in {"claimed", "launched"} => q \notin reaper.seen
FollowedAt(q) ==
    RetriesOf(q) # {} => run[q].status \in Terminal /\ \A i \in Issue : lock[i] # q

OwnInv ==
    /\ AdmissionInv
    /\ \A i \in Issue : HeldRightly(i)
    /\ \A q \in RunId : OwnAt(q) /\ FollowedAt(q)

\* The run stays with somebody, or has lost its locks.
Handed(q) ==
    \/ run[q].status \in Path \/ Ending(q) => run'[q].status \in Path \/ Ending(q)'
    \/ \A i \in Issue : lock'[i] # q

\* A step keeps the invariant if the runs it is about are as they should be,
\* locks are dropped or given to runs on the path, and a run that gets a
\* successor has ended and lost its locks.
OwnStep(o) ==
    /\ RowsMove(o) /\ o \in 0..nRuns
    /\ starter.pc = "nested" => starter'.pc = "nested"
    /\ \A q \in RunId : Untouched(q) \/ (OwnAt(q)' /\ Handed(q))
    /\ \A i \in Issue :
          \/ lock'[i] \in {0, lock[i]}
          \/ /\ lock'[i] \in RunId /\ run'[lock'[i]].issue = i
             /\ run'[lock'[i]].status \in Path
    /\ o # 0 => run[o].status \in Terminal /\ \A i \in Issue : lock'[i] # o

\* A run the step is not about stays as it should be.
LEMMA UntouchedOwn ==
    ASSUME OwnInv, EndedStays, NEW q \in RunId, Untouched(q),
           starter.pc = "nested" => starter'.pc = "nested"
    PROVE  OwnAt(q)' /\ Handed(q)
<1>1. OwnAt(q) /\ run[q].status \in Terminal => run'[q].status \in Terminal
  BY DEF EndedStays
<1>2. CASE run'[q].status = run[q].status
  BY <1>1, <1>2 DEF OwnInv, OwnAt, Untouched, EndedStays, Ending, Handed
<1>3. CASE q > nRuns
  <2>1. /\ run[q].status = "absent" /\ exec[q] = "none" /\ cancel[q] = "none"
        /\ q \notin reaper.seen /\ ~Reaping(q) /\ ~Stamping(q) /\ ~Dropping(q)
    BY <1>3, BeyondRows DEF OwnInv, AdmissionInv
  <2> QED
    BY <2>1 DEF OwnInv, OwnAt, Untouched, Ending, Handed, Path
<1> QED
  BY <1>2, <1>3 DEF Untouched

\* Such a step keeps OwnInv.
LEMMA OwnStepInv ==
    ASSUME OwnInv, AdmissionInv', EndedStays, NEW o, OwnStep(o)
    PROVE  OwnInv'
<1>1. /\ TypeInv /\ TypeInv' /\ nRuns \in 0..MaxRuns /\ nRuns' \in 0..MaxRuns
      /\ lock \in [Issue -> 0..MaxRuns]
  BY DEF OwnInv, AdmissionInv, TypeInv, TypeOK
<1>2. \A q \in RunId : OwnAt(q)' /\ Handed(q)
  BY UntouchedOwn DEF OwnStep
<1>3. ASSUME NEW q \in RunId PROVE FollowedAt(q)'
  <2>1. ASSUME RetriesOf(q)' # {}
        PROVE  run'[q].status \in Terminal /\ \A i \in Issue : lock'[i] # q
    <3>1. CASE o = q
      <4>1. o # 0
        BY <3>1 DEF RunId
      <4> QED
        BY <3>1, <4>1 DEF OwnStep, EndedStays
    <3>2. CASE o # q
      <4>1. RetriesOf(q) # {}
        BY <1>1, <2>1, <3>2, RetriesMove DEF OwnStep
      <4>2. run'[q].status \in Terminal /\ \A i \in Issue : lock[i] # q
        BY <4>1 DEF OwnInv, FollowedAt, EndedStays
      <4>3. ASSUME NEW i \in Issue PROVE lock'[i] # q
        BY <4>2 DEF OwnStep, Path, Terminal, RunId
      <4> QED
        BY <4>2, <4>3
    <3> QED
      BY <3>1, <3>2
  <2> QED
    BY <2>1 DEF FollowedAt
<1>4. ASSUME NEW i \in Issue PROVE HeldRightly(i)'
  <2>1. CASE lock'[i] = 0
    BY <2>1 DEF HeldRightly
  <2>2. CASE /\ lock'[i] \in RunId /\ run'[lock'[i]].issue = i
             /\ run'[lock'[i]].status \in Path
    BY <2>2 DEF HeldRightly
  <2>3. CASE lock'[i] = lock[i] /\ lock[i] # 0
    <3>1. PICK q \in RunId : q = lock[i]
      BY <1>1, <2>3 DEF RunId
    <3>2. run[q].issue = i /\ (run[q].status \in Path \/ Ending(q))
      BY <2>3, <3>1 DEF OwnInv, HeldRightly
    <3>3. run'[q].status \in Path \/ Ending(q)'
      BY <1>2, <2>3, <3>1, <3>2 DEF Handed
    <3>4. run'[q].issue = run[q].issue
      <4>1. q <= nRuns
        <5>1. ~(q > nRuns)
          BY <1>1, <3>2, BeyondRows DEF Ending, Path
        <5> QED
          BY <1>1, <5>1 DEF RunId
      <4>2. q # nRuns + 1
        BY <1>1, <4>1 DEF RunId
      <4> QED
        BY <4>2 DEF OwnStep, RowsMove, Keeps
    <3> QED
      BY <2>3, <3>1, <3>2, <3>3, <3>4 DEF HeldRightly
  <2> QED
    BY <2>1, <2>2, <2>3 DEF OwnStep
<1> QED
  BY <1>2, <1>3, <1>4 DEF OwnInv

\* The same for a step about one run.
LEMMA OwnAboutInv ==
    ASSUME OwnInv, AdmissionInv', EndedStays, NEW r \in RunId, About(r), OwnAt(r)', Handed(r),
           NEW o, RowsMove(o), o \in 0..nRuns,
           \A i \in Issue :
              \/ lock'[i] \in {0, lock[i]}
              \/ /\ lock'[i] \in RunId /\ run'[lock'[i]].issue = i
                 /\ run'[lock'[i]].status \in Path,
           o # 0 => run[o].status \in Terminal /\ \A i \in Issue : lock'[i] # o
    PROVE  OwnInv'
  BY OwnStepInv DEF OwnStep, About

\* The same for steps that release nothing.
LEMMA OwnQuietInv ==
    ASSUME OwnInv, AdmissionInv', EndedStays, NEW r \in RunId, About(r), OwnAt(r)', Handed(r),
           lock' = lock, nRuns' = nRuns, NEW o, RowsMove(o)
    PROVE  OwnInv'
<1>1. RowsMove(0) /\ 0 \in 0..nRuns
  BY DEF RowsMove, OwnInv, AdmissionInv, TypeInv, TypeOK
<1> QED
  BY <1>1, OwnAboutInv

\* What a release does to the locks when they are held rightly.
LEMMA ReleaseUnlocks ==
    ASSUME OwnInv, NEW r \in RunId, r <= nRuns, NEW st, NEW o, ReleaseOf(r, st, o)
    PROVE  /\ \A i \in Issue : lock'[i] # r
           /\ \A i \in Issue :
                 \/ lock'[i] \in {0, lock[i]}
                 \/ /\ lock'[i] \in RunId /\ run'[lock'[i]].issue = i
                    /\ run'[lock'[i]].status \in Path
           /\ RowsMove(o) /\ o \in 0..nRuns
<1>1. r # 0 /\ r # nRuns + 1 /\ nRuns \in Nat
  BY DEF RunId, OwnInv, AdmissionInv, TypeInv, TypeOK
<1>2. ASSUME NEW i \in Issue, lock[i] = r PROVE run[r].issue # NoIssue
  BY <1>1, <1>2, IssueAssumption DEF OwnInv, HeldRightly
<1>3. nRuns' = nRuns + 1 => nRuns + 1 \in RunId /\ run'[nRuns + 1].status = "queued"
  BY <1>1 DEF ReleaseOf, RowsMove
<1>4. o \in 0..nRuns
  BY <1>1 DEF ReleaseOf, RunId
<1> QED
  BY <1>1, <1>2, <1>3, <1>4 DEF ReleaseOf, Path

\* Executors keep OwnInv: each ends its run, then releases the issue.
LEMMA ExecutorOwn ==
    ASSUME "release_error" \notin Disturbance, OwnInv, AdmissionInv', EndedStays,
           NEW r \in RunId, Executes(r)
    PROVE  OwnInv'
<1>1. About(r) /\ UNCHANGED <<cancel, reaper, starter, outer>>
  BY ExecutorAbout DEF OwnInv, AdmissionInv
<1>2. /\ OwnAt(r) /\ FollowedAt(r) /\ OrphanAt(r) /\ run[r] \in RunRow
      /\ exec \in [RunId -> ExecState] /\ alive \in [RunId -> BOOLEAN] /\ run \in [RunId -> RunRow]
      /\ exec[r] # "none" => r <= nRuns
  BY DEF OwnInv, AdmissionInv, OrphanInv, TypeInv, TypeOK, References
<1>3. /\ Reaping(r)' <=> Reaping(r)
      /\ Stamping(r)' <=> Stamping(r)
      /\ Dropping(r)' <=> Dropping(r)
  BY <1>1 DEF Reaping, Stamping, Dropping
<1>4. exec[r] \notin {"none", "claimed"} /\ ~Stamping(r)
  BY <1>2 DEF Executes, ExecEnter, ExecSpawn, ExecAbort, ExecReturn, ExecPersist, ExecRelease,
         ExecReleaseThrows, ExecFinalize, ExecFinalized, ExecLeave, Finalizing, OwnAt
<1>5. PICK o : RowsMove(o)
  BY ExecutorMoves DEF OwnInv, AdmissionInv
<1>6. CASE ExecRelease(r)
  <2>1. PICK p, st : ReleaseOf(r, st, p) /\ (p = r => exec[r] = "wrote_err")
    <3>1. \E p : ReleaseOf(r, CASE exec[r] = "wrote_ok" -> "succeeded"
                                [] exec[r] = "wrote_err" -> "failed"
                                [] exec[r] = "aborted" -> "running", p)
      BY <1>2, <1>4, <1>6, ReleaseMoves DEF ExecRelease, OwnInv, AdmissionInv
    <3> QED
      BY <1>6, <3>1 DEF ExecRelease, ReleaseOf
  <2>2. \A i \in Issue : lock'[i] # r
    BY <1>2, <1>4, <2>1, ReleaseUnlocks
  <2>3. exec'[r] \in {"released_ok", "released_err", "leaving"} /\ alive' = alive
        /\ exec[r] \in {"wrote_ok", "wrote_err", "aborted"}
    BY <1>2, <1>6 DEF ExecRelease
  <2>4. OwnAt(r)' /\ Handed(r)
    BY <1>1, <1>2, <1>3, <1>4, <2>2, <2>3 DEF OwnAt, Handed, EndedStays
  <2>5. p # 0 => run[p].status \in Terminal /\ \A i \in Issue : lock'[i] # p
    BY <1>2, <2>1, <2>2, <2>3 DEF ReleaseOf, OwnAt
  <2> QED
    BY <1>1, <1>2, <1>4, <2>1, <2>4, <2>5, ReleaseUnlocks, OwnAboutInv
<1>7. CASE ExecEnter(r)
  <2>1. OwnAt(r)' /\ Handed(r) /\ lock' = lock /\ nRuns' = nRuns
    BY <1>1, <1>2, <1>3, <1>4, <1>7 DEF ExecEnter, OwnAt, Handed, Ending
  <2> QED
    BY <1>1, <1>5, <2>1, OwnQuietInv
<1>8. CASE ExecSpawn(r)
  <2>1. run'[r].status = run[r].status
    BY <1>2, <1>8 DEF ExecSpawn, RunRow
  <2>2. OwnAt(r)' /\ Handed(r) /\ lock' = lock /\ nRuns' = nRuns
    BY <1>1, <1>2, <1>3, <1>4, <1>8, <2>1 DEF ExecSpawn, OwnAt, Handed, Ending
  <2> QED
    BY <1>1, <1>5, <2>2, OwnQuietInv
<1>9. CASE ExecAbort(r)
  <2>1. run'[r].status = "cancelled"
    BY <1>2, <1>9 DEF ExecAbort, RunRow
  <2>2. OwnAt(r)' /\ Handed(r) /\ lock' = lock /\ nRuns' = nRuns
    BY <1>1, <1>2, <1>3, <1>4, <1>9, <2>1 DEF ExecAbort, OwnAt, Handed, Ending, Terminal
  <2> QED
    BY <1>1, <1>5, <2>2, OwnQuietInv
<1>10. CASE ExecReturn(r)
  <2>1. OwnAt(r)' /\ Handed(r) /\ lock' = lock /\ nRuns' = nRuns
    BY <1>1, <1>2, <1>3, <1>4, <1>10 DEF ExecReturn, OwnAt, Handed, Ending
  <2> QED
    BY <1>1, <1>5, <2>1, OwnQuietInv
<1>11. CASE ExecPersist(r)
  <2>1. CASE run[r].status = "running"
    <3>1. run'[r].status \in Terminal
      BY <1>2, <1>11, <2>1 DEF ExecPersist, RunRow, Terminal
    <3>2. OwnAt(r)' /\ Handed(r) /\ lock' = lock /\ nRuns' = nRuns
      BY <1>1, <1>2, <1>3, <1>4, <1>11, <2>1, <3>1 DEF ExecPersist, OwnAt, Handed, Ending
    <3> QED
      BY <1>1, <1>5, <3>2, OwnQuietInv
  <2>2. CASE run[r].status # "running"
    <3>1. OwnAt(r)' /\ Handed(r) /\ lock' = lock /\ nRuns' = nRuns
      BY <1>1, <1>2, <1>3, <1>4, <1>11, <2>2 DEF ExecPersist, OwnAt, Handed, Ending
    <3> QED
      BY <1>1, <1>5, <3>1, OwnQuietInv
  <2> QED
    BY <2>1, <2>2
<1>12. CASE ExecFinalize(r) \/ ExecFinalized(r) \/ ExecLeave(r)
  <2>1. /\ exec[r] \notin {"wrote_ok", "wrote_err", "aborted", "adapter"}
        /\ exec'[r] \notin {"wrote_ok", "wrote_err", "aborted", "claimed", "launched"}
        /\ UNCHANGED <<run, nRuns, lock, alive>>
    BY <1>2, <1>12
       DEF ExecFinalize, ExecFinalized, ExecLeave, Finalizing, FinalizeRead
  <2>2. OwnAt(r)' /\ Handed(r)
    BY <1>1, <1>2, <1>3, <1>4, <2>1 DEF OwnAt, Handed, Ending
  <2> QED
    BY <1>1, <1>5, <2>1, <2>2, OwnQuietInv
<1>13. ~ExecReleaseThrows(r)
  BY DEF ExecReleaseThrows
<1> QED
  BY <1>6, <1>7, <1>8, <1>9, <1>10, <1>11, <1>12, <1>13 DEF Executes

\* A cancellation kills, writes and then releases: it keeps OwnInv.
LEMMA CancelOwn ==
    ASSUME OwnInv, AdmissionInv', EndedStays, NEW r \in RunId, Cancels(r)
    PROVE  OwnInv'
<1>1. About(r) /\ UNCHANGED <<exec, reaper, starter, outer>>
  BY CancelAbout DEF OwnInv, AdmissionInv
<1>2. /\ OwnAt(r) /\ FollowedAt(r) /\ OrphanAt(r) /\ run[r] \in RunRow
      /\ cancel \in [RunId -> CancelState] /\ alive \in [RunId -> BOOLEAN]
      /\ run \in [RunId -> RunRow]
      /\ cancel[r] # "none" => r <= nRuns
  BY DEF OwnInv, AdmissionInv, OrphanInv, TypeInv, TypeOK, References
<1>3. /\ Reaping(r)' <=> Reaping(r)
      /\ Stamping(r)' <=> Stamping(r)
      /\ Dropping(r)' <=> Dropping(r)
  BY <1>1 DEF Reaping, Stamping, Dropping
<1>4. cancel[r] \notin {"none", "active_write", "active_kill", "active_release"}
      /\ starter.pc = "nested" /\ ~Stamping(r)
  BY <1>2 DEF Cancels, CancelKill, CancelWrite, CancelRelease, CancelFinalize, CancelFinalized,
         CancelStart, Finalizing, OrphanAt, OwnAt, Stamping
<1>5. PICK o : RowsMove(o)
  BY CancelMoves DEF OwnInv, AdmissionInv
<1>6. CASE CancelRelease(r)
  <2>1. cancel[r] = "release" /\ cancel'[r] = "finalize" /\ alive' = alive
    BY <1>2, <1>4, <1>6 DEF CancelRelease
  <2>2. PICK p : ReleaseOf(r, "cancelled", p)
    BY <1>2, <1>6, <2>1, ReleaseMoves DEF CancelRelease, OwnInv, AdmissionInv
  <2>3. \A i \in Issue : lock'[i] # r
    BY <1>2, <1>4, <2>2, ReleaseUnlocks
  <2>4. OwnAt(r)' /\ Handed(r)
    BY <1>1, <1>2, <1>3, <1>4, <2>1, <2>3 DEF OwnAt, Handed, EndedStays
  <2>5. p # 0 => run[p].status \in Terminal /\ \A i \in Issue : lock'[i] # p
    BY <1>2, <2>1, <2>2, <2>3 DEF ReleaseOf, OwnAt
  <2> QED
    BY <1>1, <1>2, <1>4, <2>2, <2>4, <2>5, ReleaseUnlocks, OwnAboutInv
<1>7. CASE CancelKill(r)
  <2>1. OwnAt(r)' /\ Handed(r) /\ lock' = lock /\ nRuns' = nRuns
    BY <1>1, <1>2, <1>3, <1>4, <1>7 DEF CancelKill, OwnAt, Handed, Ending
  <2> QED
    BY <1>1, <1>5, <2>1, OwnQuietInv
<1>8. CASE CancelWrite(r)
  <2>1. run'[r].status = "cancelled" /\ cancel'[r] = "release"
    BY <1>2, <1>4, <1>8 DEF CancelWrite, RunRow
  <2>2. OwnAt(r)' /\ Handed(r) /\ lock' = lock /\ nRuns' = nRuns
    BY <1>1, <1>2, <1>3, <1>4, <1>8, <2>1 DEF CancelWrite, OwnAt, Handed, Ending, Terminal
  <2> QED
    BY <1>1, <1>5, <2>2, OwnQuietInv
<1>9. CASE CancelFinalize(r) \/ CancelFinalized(r) \/ CancelStart(r)
  <2>1. /\ cancel[r] \notin {"kill", "write", "release"}
        /\ cancel'[r] \notin {"kill", "write", "release"}
        /\ UNCHANGED <<run, nRuns, lock, alive>>
    BY <1>2, <1>9 DEF CancelFinalize, CancelFinalized, CancelStart, Finalizing, FinalizeRead
  <2>2. OwnAt(r)' /\ Handed(r)
    BY <1>1, <1>2, <1>3, <1>4, <2>1 DEF OwnAt, Handed, Ending
  <2> QED
    BY <1>1, <1>5, <2>1, <2>2, OwnQuietInv
<1> QED
  BY <1>6, <1>7, <1>8, <1>9 DEF Cancels

\* The reaper keeps OwnInv: it marks a row lost, then retries it or releases its issue.
LEMMA ReaperOwn ==
    ASSUME OwnInv, AdmissionInv', EndedStays, Reaps
    PROVE  OwnInv'
<1>1. /\ nRuns \in 0..MaxRuns /\ run \in [RunId -> RunRow] /\ reaper \in Sweep
  BY DEF OwnInv, AdmissionInv, TypeInv, TypeOK
<1>2. CASE ReapBegin
  <2>1. UNCHANGED <<run, nRuns, lock, exec, alive, cancel, starter, outer>>
    BY <1>2 DEF ReapBegin
  <2>2. RowsMove(0) /\ 0 \in 0..nRuns
    BY <1>1, <2>1, SameMoves
  <2>3. ASSUME NEW q \in RunId PROVE Untouched(q) \/ (OwnAt(q)' /\ Handed(q))
    <3>1. CASE /\ run[q].status = "running" /\ exec[q] \notin {"claimed", "launched"}
               /\ ~Reaping(q) /\ ~Reaping(q)'
      <4>1. OwnAt(q)
        BY DEF OwnInv
      <4>2. Stamping(q)' <=> Stamping(q)
        BY <2>1 DEF Stamping
      <4> QED
        BY <2>1, <3>1, <4>1, <4>2 DEF OwnAt, Handed, Path
    <3> QED
      BY <1>2, <3>1, BeginUntouched DEF OwnInv, AdmissionInv
  <2>4. OwnStep(0)
    BY <2>1, <2>2, <2>3 DEF OwnStep
  <2> QED
    BY <2>4, OwnStepInv
<1>3. ASSUME NEW r \in RunId, ReapsAt(r) PROVE OwnInv'
  <2>1. /\ About(r) /\ UNCHANGED <<exec, alive, cancel, starter, outer>>
        /\ reaper'.seen \subseteq reaper.seen
    BY <1>3, ReaperAbout DEF OwnInv, AdmissionInv
  <2>2. /\ OwnAt(r) /\ FollowedAt(r) /\ run[r] \in RunRow
        /\ Stamping(r)' <=> Stamping(r)
    BY <1>1, <2>1 DEF OwnInv, Stamping
  <2>3. \E o : RowsMove(o)
    BY <1>3, ReaperMoves DEF OwnInv, AdmissionInv, Reaps, ReapsAt
  <2>4. PICK o : RowsMove(o)
    BY <2>3
  <2>5. CASE Untouched(r) /\ lock' = lock /\ nRuns' = nRuns
    <3>1. OwnAt(r)' /\ Handed(r)
      BY <2>1, <2>5, UntouchedOwn
    <3> QED
      BY <2>1, <2>4, <2>5, <3>1, OwnQuietInv
  <2>6. CASE UNCHANGED run /\ ~Reaping(r) /\ ~Reaping(r)' /\ UNCHANGED <<lock, nRuns>>
    <3>1. Untouched(r)
      BY <2>1, <2>6 DEF Untouched, Stamping, Dropping
    <3> QED
      BY <2>5, <2>6, <3>1
  <2>7. CASE ReapSkip(r)
    <3>1. reaper.pc = "idle" /\ reaper'.pc = "idle"
      BY <1>1, <2>7 DEF ReapSkip, ReapTurn, ReaperPast, ResetReaper, Sweep
    <3> QED
      BY <2>6, <2>7, <3>1 DEF ReapSkip, Reaping
  <2>8. CASE ReapFinalize(r) \/ ReapFinalized(r) \/ ReapStart(r)
    <3>1. reaper.pc \notin {"retry", "again"} /\ reaper'.pc \notin {"retry", "again"}
      <4>1. CASE ReapFinalize(r)
        BY <1>1, <4>1 DEF ReapFinalize, FinalizeRead, Sweep
      <4>2. CASE ReapFinalized(r)
        BY <1>1, <4>2 DEF ReapFinalized, Finalizing, Sweep
      <4>3. CASE ReapStart(r)
        BY <1>1, <4>3 DEF ReapStart, ResetReaper, Sweep
      <4> QED
        BY <2>8, <4>1, <4>2, <4>3
    <3> QED
      BY <2>6, <2>8, <3>1 DEF ReapFinalize, ReapFinalized, ReapStart, Reaping
  <2>9. CASE ReapLost(r)
    <3>1. run'[r].status = "failed"
      BY <1>1, <2>2, <2>9 DEF ReapLost, RunRow
    <3>2. Reaping(r)' /\ r \notin reaper'.seen /\ r \in reaper.seen
      BY <1>1, <2>9 DEF ReapLost, ReapTurn, Reaping, Sweep
    <3>3. OwnAt(r)' /\ Handed(r) /\ lock' = lock /\ nRuns' = nRuns
      BY <2>1, <2>2, <2>9, <3>1, <3>2 DEF ReapLost, OwnAt, Handed, Ending, Terminal
    <3> QED
      BY <2>1, <2>4, <3>3, OwnQuietInv
  <2>10. CASE ReapRetryExists(r)
    <3>1. \A i \in Issue : lock'[i] # r
      BY <2>2, <2>10 DEF ReapRetryExists, FollowedAt
    <3>2. ~Reaping(r)' /\ UNCHANGED <<run, lock, nRuns>> /\ Reaping(r)
      BY <1>1, <2>10 DEF ReapRetryExists, Reaping, Sweep
    <3>3. OwnAt(r)' /\ Handed(r)
      BY <2>1, <2>2, <3>1, <3>2 DEF OwnAt, Handed
    <3> QED
      BY <2>1, <2>4, <3>2, <3>3, OwnQuietInv
  <2>11. ASSUME r <= nRuns, Reaping(r), \A i \in Issue : lock'[i] # r
         PROVE  OwnAt(r)' /\ Handed(r) /\ run[r].status \in Terminal
    BY <2>1, <2>2, <2>11 DEF OwnAt, Handed, EndedStays, Terminal
  <2>12. Reaping(r) => r <= nRuns /\ r \in 0..nRuns
    BY <1>1 DEF Reaping, OwnInv, AdmissionInv, TypeInv, References
  <2>13. CASE ReapRetry(r)
    <3>1. /\ RowsMove(r) /\ nRuns' = nRuns + 1 /\ nRuns + 1 \in RunId
          /\ run'[nRuns + 1].issue = run[r].issue
      BY <2>13, RetryMoves DEF OwnInv, AdmissionInv
    <3>2. run'[nRuns + 1].status \in Path
      BY <1>1, <3>1 DEF RowsMove, Path
    <3>3. \A i \in Issue :
             lock'[i] = IF i = run[r].issue /\ lock[i] = r THEN nRuns + 1 ELSE lock[i]
      BY <2>13 DEF ReapRetry
    <3>4. Reaping(r)
      BY <2>13 DEF ReapRetry, Reaping
    <3>5. \A i \in Issue : lock[i] = r => run[r].issue = i
      BY DEF OwnInv, HeldRightly, RunId
    <3>6. r # nRuns + 1
      BY <1>1, <2>12, <3>4
    <3>7. \A i \in Issue : lock'[i] # r
      BY <3>3, <3>5, <3>6
    <3>8. \A i \in Issue :
              \/ lock'[i] \in {0, lock[i]}
              \/ /\ lock'[i] \in RunId /\ run'[lock'[i]].issue = i
                 /\ run'[lock'[i]].status \in Path
      BY <3>1, <3>2, <3>3
    <3> QED
      BY <2>1, <2>11, <2>12, <3>1, <3>4, <3>7, <3>8, OwnAboutInv
  <2>14. CASE ReapRelease(r)
    <3>1. Reaping(r)
      BY <2>14 DEF ReapRelease, Reaping
    <3>2. PICK p : ReleaseOf(r, "failed", p)
      BY <2>12, <2>14, <3>1, ReleaseMoves DEF ReapRelease, OwnInv, AdmissionInv
    <3>3. /\ \A i \in Issue : lock'[i] # r
          /\ \A i \in Issue :
                \/ lock'[i] \in {0, lock[i]}
                \/ /\ lock'[i] \in RunId /\ run'[lock'[i]].issue = i
                   /\ run'[lock'[i]].status \in Path
          /\ RowsMove(p) /\ p \in 0..nRuns
      BY <2>12, <3>1, <3>2, ReleaseUnlocks
    <3>4. p \in {0, r}
      BY <3>2 DEF ReleaseOf
    <3> QED
      BY <2>1, <2>11, <2>12, <3>1, <3>3, <3>4, OwnAboutInv
  <2>15. ~ReapDetached(r)
    BY <2>2 DEF ReapDetached, OwnAt, Tracked
  <2> QED
    BY <1>3, <2>7, <2>8, <2>9, <2>10, <2>13, <2>14, <2>15 DEF ReapsAt
<1> QED
  BY <1>2, <1>3 DEF Reaps, ReapsAt

\* Start activations keep OwnInv, dropping and stamping locks included.
LEMMA StarterOwn ==
    ASSUME LockMode = "exclusive", OwnInv, AdmissionInv', EndedStays, Starts
    PROVE  OwnInv'
<1>1. /\ nRuns \in 0..MaxRuns /\ run \in [RunId -> RunRow] /\ exec \in [RunId -> ExecState]
      /\ cancel \in [RunId -> CancelState] /\ starter \in Activation
      /\ lock \in [Issue -> 0..MaxRuns]
  BY DEF OwnInv, AdmissionInv, TypeInv, TypeOK
<1>2. RowsMove(0) /\ 0 \in 0..nRuns
  BY <1>1, StarterMoves DEF OwnInv, AdmissionInv
<1>3. CASE /\ UNCHANGED <<run, nRuns, lock, alive, cancel, reaper>>
           /\ starter.pc = "nested" => starter'.pc = "nested"
           /\ \A q \in RunId :
                 \/ Untouched(q)
                 \/ /\ exec[q] = "claimed" /\ exec'[q] = "launched"
                    /\ ~Stamping(q)' /\ ~Dropping(q)
  <2>1. ASSUME NEW q \in RunId, exec[q] = "claimed", exec'[q] = "launched",
               ~Stamping(q)', ~Dropping(q)
        PROVE  OwnAt(q)' /\ Handed(q)
    <3>1. OwnAt(q) /\ (Reaping(q)' <=> Reaping(q))
      BY <1>3 DEF OwnInv, Reaping
    <3> QED
      BY <1>3, <2>1, <3>1 DEF OwnAt, Handed, Ending
  <2>2. OwnStep(0)
    BY <1>2, <1>3, <2>1 DEF OwnStep
  <2> QED
    BY <2>2, OwnStepInv
<1>4. ASSUME NEW r \in RunId, StartsAt(r) PROVE OwnInv'
  <2>1. About(r) /\ UNCHANGED <<nRuns, alive, reaper, outer>>
    BY <1>4, StarterAbout DEF OwnInv, AdmissionInv
  <2>2. /\ OwnAt(r) /\ FollowedAt(r) /\ OrphanAt(r) /\ run[r] \in RunRow
        /\ Reaping(r)' <=> Reaping(r)
    BY <1>1, <2>1 DEF OwnInv, AdmissionInv, OrphanInv, Reaping
  <2>3. CASE UNCHANGED <<run, exec, cancel, lock>> /\ ~Stamping(r)' /\ ~Dropping(r) /\ ~Dropping(r)'
    <3>1. Untouched(r)
      BY <2>1, <2>2, <2>3 DEF Untouched
    <3>2. OwnAt(r)' /\ Handed(r)
      BY <2>1, <3>1, UntouchedOwn DEF About
    <3> QED
      BY <1>2, <2>1, <2>3, <3>2, OwnQuietInv
  <2>4. CASE ClaimGates(r)
    <3>1. starter.pc = "next" /\ starter'.pc \in {"drop", "claim"}
      BY <1>1, <2>4 DEF ClaimGates, NextCandidate, Activation
    <3> QED
      BY <2>3, <2>4, <3>1 DEF ClaimGates, Stamping, Dropping
  <2>5. CASE ClaimRefused(r)
    <3>1. CASE run[r].status \in Path
      <4>1. /\ cancel'[r] = "kill" /\ starter'.pc = "nested" /\ starter.pc = "next"
            /\ UNCHANGED <<run, exec, lock>>
        BY <1>1, <2>5, <3>1 DEF ClaimRefused, NextCandidate, Activation
      <4>2. OwnAt(r)' /\ Handed(r)
        BY <2>1, <2>2, <4>1 DEF OwnAt, Handed, Ending, Stamping
      <4> QED
        BY <1>2, <2>1, <4>1, <4>2, OwnQuietInv
    <3>2. CASE run[r].status \notin Path
      <4>1. starter.pc = "next" /\ starter'.pc = "next"
        BY <1>1, <2>5, <3>2 DEF ClaimRefused, NextCandidate, Activation
      <4> QED
        BY <2>3, <2>5, <3>2, <4>1 DEF ClaimRefused, Stamping, Dropping
    <3> QED
      BY <3>1, <3>2
  <2>6. CASE starter.at = r /\ ClaimDropped
    <3>1. run' = [run EXCEPT ![r].status = "cancelled"] /\ UNCHANGED <<exec, cancel, lock>>
      BY <2>6 DEF ClaimDropped
    <3>2. run'[r].status = "cancelled"
      BY <1>1, <2>2, <3>1 DEF RunRow
    <3>3. Dropping(r)' /\ ~Stamping(r)' /\ starter.pc # "nested"
      BY <1>1, <2>6 DEF ClaimDropped, Activation, Dropping, Stamping
    <3>4. OwnAt(r)' /\ Handed(r)
      BY <2>1, <2>2, <3>1, <3>2, <3>3 DEF OwnAt, Handed, Ending, Terminal
    <3> QED
      BY <1>2, <2>1, <3>1, <3>4, OwnQuietInv
  <2>7. CASE starter.at = r /\ DropUnlocks
    <3>1. /\ lock' = [lock EXCEPT ![run[r].issue] = IF @ = r THEN 0 ELSE @]
          /\ UNCHANGED <<run, exec, cancel>>
      BY <2>7 DEF DropUnlocks
    <3>2. \A i \in Issue : lock[i] = r => run[r].issue = i
      BY DEF OwnInv, HeldRightly, RunId
    <3>3. \A i \in Issue : lock'[i] \in {0, lock[i]} /\ lock'[i] # r
      BY <1>1, <3>1, <3>2 DEF RunId
    <3>4. ~Stamping(r)' /\ starter.pc # "nested"
      BY <1>1, <2>7 DEF DropUnlocks, Activation, Stamping
    <3>5. OwnAt(r)' /\ Handed(r)
      BY <2>1, <2>2, <3>1, <3>3, <3>4 DEF OwnAt, Handed
    <3> QED
      BY <1>2, <2>1, <3>3, <3>5, OwnAboutInv
  <2>8. CASE starter.at = r /\ ClaimQueuedRun
    <3>1. starter.pc = "claim" /\ UNCHANGED <<cancel, lock>>
      BY <2>8 DEF ClaimQueuedRun
    <3>2. CASE run[r].status = "queued"
      <4>1. /\ run' = [run EXCEPT ![r].status = "running"]
            /\ exec' = [exec EXCEPT ![r] = "claimed"]
        BY <2>8, <3>2 DEF ClaimQueuedRun
      <4>2. run'[r].status = "running" /\ exec'[r] = "claimed"
        BY <1>1, <2>2, <4>1 DEF RunRow
      <4>3. /\ cancel[r] = "none" /\ exec[r] = "none" /\ ~alive[r] /\ r \notin reaper.seen
            /\ ~Reaping(r)
        BY <2>2, <3>1, <3>2 DEF OwnAt, OrphanAt, Terminal
      <4>4. OwnAt(r)' /\ Handed(r)
        BY <2>1, <2>2, <3>1, <4>2, <4>3 DEF OwnAt, Handed, Path
      <4> QED
        BY <1>2, <2>1, <3>1, <4>4, OwnQuietInv
    <3>3. CASE run[r].status # "queued"
      <4>1. starter'.pc = "next" /\ UNCHANGED <<run, exec>>
        BY <1>1, <2>8, <3>3 DEF ClaimQueuedRun, Activation
      <4> QED
        BY <2>3, <3>1, <4>1 DEF Stamping, Dropping
    <3> QED
      BY <3>2, <3>3
  <2>9. CASE starter.at = r /\ StampLock
    <3>1. /\ starter.pc = "stamp" /\ UNCHANGED <<run, exec, cancel>>
          /\ \/ lock' = lock
             \/ run[r].issue \in Issue /\ lock' = [lock EXCEPT ![run[r].issue] = r]
      BY <2>2, <2>9 DEF StampLock, RunRow
    <3>2. Stamping(r) /\ run[r].status = "running"
      BY <2>2, <2>9, <3>1 DEF Stamping, OwnAt
    <3>3. \A i \in Issue :
             \/ lock'[i] \in {0, lock[i]}
             \/ /\ lock'[i] \in RunId /\ run'[lock'[i]].issue = i
                /\ run'[lock'[i]].status \in Path
      BY <1>1, <3>1, <3>2 DEF Path
    <3>4. starter'.pc = "next"
      BY <1>1, <2>9 DEF StampLock, Activation
    <3>5. OwnAt(r)' /\ Handed(r)
      BY <2>1, <2>2, <3>1, <3>2, <3>4 DEF OwnAt, Handed, Path, Stamping
    <3> QED
      BY <1>2, <2>1, <3>3, <3>5, OwnAboutInv
  <2> QED
    BY <1>4, <2>4, <2>5, <2>6, <2>7, <2>8, <2>9 DEF StartsAt
<1> QED
  BY <1>3, <1>4, StarterTouches DEF OwnInv

\* A wake for an issue gives the lock to a run on its path, or to nobody, and
\* writes the status of no run but the former holder and the one it adds.
LEMMA EnqueueLocks ==
    ASSUME TypeInv, NEW a \in Agent, NEW i \in Issue, NEW w \in {"assigned", "comment"},
           EnqueueWakeup(a, i, w)
    PROVE  /\ \A j \in Issue : j # i => lock'[j] = lock[j]
           /\ lock'[i] # 0 => /\ lock'[i] \in RunId /\ run'[lock'[i]].issue = i
                              /\ run'[lock'[i]].status \in Path
           /\ \A q \in RunId :
                 run'[q].status = run[q].status \/ q = nRuns + 1 \/ q = lock[i]
<1> DEFINE rows == RowsAfterReroute(i)
           active == ActiveExecutionRun(i, rows)
<1>1. /\ rows \in [RunId -> RunRow] /\ nRuns \in Nat /\ lock \in [Issue -> 0..MaxRuns]
      /\ \A q \in RunId : rows[q].status # "absent" => q <= nRuns
  <2>1. \A q \in RunId : rows[q].status # "absent" => run[q].status # "absent"
    BY RerouteType
  <2> QED
    BY <2>1, RerouteType DEF TypeInv, TypeOK, RowsInv
<1>2. \A q \in RunId : q # lock[i] => rows[q] = run[q]
  BY DEF RowsAfterReroute, TypeInv, TypeOK
<1>3. active # 0 => active \in RunId /\ rows[active].status \in Path /\ rows[active].issue = i
  BY <1>1, ActiveOnPath DEF TypeInv
<1>4. /\ lock' = [lock EXCEPT ![i] = active]
      /\ \/ run' = rows
         \/ active # 0 /\ run' = [rows EXCEPT ![active].wake = MergeWake(@, w)]
         \/ run' = [rows EXCEPT ![nRuns + 1] = QueuedRow(a, i, w)]
  BY DEF EnqueueWakeup, Coalesces
<1> HIDE DEF rows, active
<1>5. \A q \in RunId : q = nRuns + 1 \/ (/\ run'[q].status = rows[q].status
                                        /\ run'[q].issue = rows[q].issue)
  <2>1. CASE run' = rows
    BY <2>1
  <2>2. CASE active # 0 /\ run' = [rows EXCEPT ![active].wake = MergeWake(@, w)]
    <3>1. rows[active] \in RunRow
      BY <1>1, <1>3, <2>2
    <3>2. /\ \A q \in RunId \ {active} : run'[q] = rows[q]
          /\ run'[active] = [rows[active] EXCEPT !.wake = MergeWake(@, w)]
      BY <1>1, <1>3, <2>2
    <3> QED
      BY <3>1, <3>2 DEF RunRow
  <2>3. CASE run' = [rows EXCEPT ![nRuns + 1] = QueuedRow(a, i, w)]
    BY <1>1, <2>3
  <2> QED
    BY <1>4, <2>1, <2>2, <2>3
<1>6. active # 0 => active # nRuns + 1
  <2>1. active # 0 => active \in RunId /\ rows[active].status # "absent"
    BY <1>3 DEF Path
  <2>2. active # 0 => active <= nRuns
    BY <1>1, <2>1
  <2> QED
    BY <1>1, <2>2
<1> QED
  BY <1>1, <1>2, <1>3, <1>4, <1>5, <1>6

\* A wake keeps OwnInv, also when it reroutes the lock.
LEMMA WakeOwn ==
    ASSUME OwnInv, AdmissionInv', EndedStays, Wakes
    PROVE  OwnInv'
<1>1. UNCHANGED <<issue, agentStatus, exec, alive, cancel, reaper, starter, outer>>
  BY WakesOnly
<1>2. RowsMove(0) /\ 0 \in 0..nRuns
  BY WakeMoves DEF OwnInv, AdmissionInv, TypeInv, TypeOK
<1>3. \A q \in RunId : \/ Untouched(q)
                       \/ run[q].status = "queued" /\ run'[q].status = "cancelled"
  BY WakeUntouched DEF OwnInv, AdmissionInv
<1>4. ASSUME NEW q \in RunId, run[q].status = "queued", run'[q].status = "cancelled"
      PROVE  OwnAt(q)'
  <2>1. OwnAt(q) /\ (Reaping(q)' <=> Reaping(q)) /\ (Stamping(q)' <=> Stamping(q))
    BY <1>1 DEF OwnInv, Reaping, Stamping
  <2> QED
    BY <1>1, <1>4, <2>1 DEF OwnAt, Terminal
<1>5. ASSUME NEW a \in Agent, NEW i \in Issue, NEW w \in {"assigned", "comment"},
             EnqueueWakeup(a, i, w)
      PROVE  OwnInv'
  <2>1. /\ \A j \in Issue : j # i => lock'[j] = lock[j]
        /\ lock'[i] # 0 => /\ lock'[i] \in RunId /\ run'[lock'[i]].issue = i
                           /\ run'[lock'[i]].status \in Path
        /\ \A q \in RunId :
              run'[q].status = run[q].status \/ q = nRuns + 1 \/ q = lock[i]
    BY <1>5, EnqueueLocks DEF OwnInv, AdmissionInv
  <2>2. ASSUME NEW q \in RunId, run[q].status = "queued", run'[q].status = "cancelled"
        PROVE  Handed(q)
    <3>1. q # nRuns + 1
      BY <2>2 DEF OwnInv, AdmissionInv, TypeInv, TypeOK, RowsInv
    <3>2. q = lock[i] /\ run[q].issue = i
      BY <2>1, <2>2, <3>1 DEF OwnInv, HeldRightly, RunId
    <3>3. ASSUME NEW j \in Issue PROVE lock'[j] # q
      <4>1. CASE j = i
        BY <2>1, <2>2, <4>1 DEF Path, RunId
      <4>2. CASE j # i
        BY <2>1, <3>2, <4>2 DEF OwnInv, HeldRightly, RunId
      <4> QED
        BY <4>1, <4>2
    <3> QED
      BY <3>3 DEF Handed
  <2>3. OwnStep(0)
    BY <1>1, <1>2, <1>3, <1>4, <2>1, <2>2 DEF OwnStep
  <2> QED
    BY <2>3, OwnStepInv
<1>6. ASSUME NEW a \in Agent, EnqueueTimerWakeup(a) PROVE OwnInv'
  <2>1. lock' = lock
    BY <1>6 DEF EnqueueTimerWakeup
  <2>2. \A q \in RunId : ~(run[q].status = "queued" /\ run'[q].status = "cancelled")
    BY <1>6 DEF EnqueueTimerWakeup, Insert, QueuedRow, AbsentRow, OwnInv, AdmissionInv,
                TypeInv, TypeOK
  <2>3. OwnStep(0)
    BY <1>1, <1>2, <1>3, <2>1, <2>2 DEF OwnStep
  <2> QED
    BY <2>3, OwnStepInv
<1> QED
  BY <1>5, <1>6 DEF Wakes

\* Of the outside steps only those are left that write no run.
LEMMA OutsideOwn ==
    ASSUME {"cancel", "cancel_active", "crash"} \cap Disturbance = {},
           OwnInv, AdmissionInv', EndedStays, Outside
    PROVE  OwnInv'
<1>1. /\ UNCHANGED <<run, nRuns, lock, exec, cancel, reaper, starter, outer>>
      /\ \A q \in RunId : alive'[q] = alive[q] \/ exec[q] = "none"
  <2>1. alive \in [RunId -> BOOLEAN]
    BY DEF OwnInv, AdmissionInv, TypeInv, TypeOK
  <2> QED
    BY <2>1 DEF Outside, CancelRun, CompleteIssue, OrphanExits, CancelActiveForAgent,
                PauseAgent, ReassignIssue, GateIssue, Crash
<1>2. \A q \in RunId : ~alive'[q] \/ alive'[q] = alive[q]
  BY DEF Outside, CancelRun, CompleteIssue, OrphanExits, CancelActiveForAgent,
         PauseAgent, ReassignIssue, GateIssue, Crash, OwnInv, AdmissionInv, TypeInv, TypeOK
<1>3. RowsMove(0) /\ 0 \in 0..nRuns
  BY <1>1, SameMoves DEF OwnInv, AdmissionInv, TypeInv, TypeOK
<1>4. ASSUME NEW q \in RunId PROVE OwnAt(q)' /\ Handed(q)
  <2>1. /\ OwnAt(q) /\ (Reaping(q)' <=> Reaping(q)) /\ (Stamping(q)' <=> Stamping(q))
        /\ (Dropping(q)' <=> Dropping(q))
    BY <1>1 DEF OwnInv, Reaping, Stamping, Dropping
  <2> QED
    BY <1>1, <1>2, <2>1 DEF OwnAt, Handed, Ending
<1>5. OwnStep(0)
  BY <1>1, <1>3, <1>4 DEF OwnStep
<1> QED
  BY <1>5, OwnStepInv

\* Every step keeps OwnInv.
LEMMA NextOwn ==
    ASSUME LockMode = "exclusive",
           {"cancel", "cancel_active", "crash", "release_error"} \cap Disturbance = {},
           OwnInv, [Next]_vars
    PROVE  OwnInv'
<1>1. AdmissionInv'
  BY NextAdmission DEF OwnInv
<1>2. CASE Next
  <2>1. EndedStays
    BY <1>2, NextEndedStays DEF OwnInv
  <2>2. /\ {"cancel", "cancel_active", "crash"} \cap Disturbance = {}
        /\ "release_error" \notin Disturbance
    OBVIOUS
  <2> QED
    BY <1>1, <1>2, <2>1, <2>2, ExecutorOwn, CancelOwn, ReaperOwn, StarterOwn, WakeOwn,
       OutsideOwn DEF Next
<1>3. CASE UNCHANGED vars
  BY <1>1, <1>3 DEF vars, OwnInv, HeldRightly, OwnAt, FollowedAt, Ending, Reaping, Stamping,
                    Dropping, RetriesOf
<1> QED
  BY <1>2, <1>3

\* OwnInv holds at first.
LEMMA InitOwn == Init => OwnInv
<1> SUFFICES ASSUME Init PROVE OwnInv
  OBVIOUS
<1>1. AdmissionInv
  BY InitAdmission
<1>2. \A i \in Issue : HeldRightly(i)
  BY DEF Init, HeldRightly
<1>3. ASSUME NEW q \in RunId PROVE OwnAt(q) /\ FollowedAt(q)
  BY DEF Init, OwnAt, FollowedAt, RetriesOf, AbsentRow, ResetReaper, Idle, Reaping, Stamping
<1> QED
  BY <1>1, <1>2, <1>3 DEF OwnInv

\* An execution lock is held by a run on the path, or by one that somebody has
\* ended and is about to release, whatever wakes, gates, pauses, reassignments and
\* reaper sweeps come between.  Cancels from outside, crashes and failing releases
\* are excluded because each of them does leave a lock behind.
THEOREM LocksHaveOwners ==
    ASSUME LockMode = "exclusive",
           {"cancel", "cancel_active", "crash", "release_error"} \cap Disturbance = {}
    PROVE  Spec => []LockHasOwner
<1>1. OwnInv => LockHasOwner
  <2> SUFFICES ASSUME OwnInv, NEW i \in Issue, lock[i] # 0
               PROVE  run[lock[i]].status \in Path \/ Releasing(i)
    BY DEF LockHasOwner
  <2>1. lock[i] \in RunId
    BY DEF OwnInv, AdmissionInv, TypeInv, TypeOK, RunId
  <2>2. /\ run[lock[i]].issue = i
        /\ run[lock[i]].status \in Path \/ Ending(lock[i])
    BY DEF OwnInv, HeldRightly
  <2> QED
    BY <2>1, <2>2 DEF Releasing, Ending, Reaping, Dropping
<1>2. Init => OwnInv
  BY InitOwn
<1>3. OwnInv /\ [Next]_vars => OwnInv'
  BY NextOwn
<1> QED
  BY <1>1, <1>2, <1>3, PTL DEF Spec

------------------------------------------------------------------------------
(* A lost run has one successor.                                             *)

\* Without failing setups and adapters an executor that ends a run ends it well,
\* and only a child that is gone makes an adapter call fail.  A cancellation or
\* the reaper's loss of a run concerns a row that nobody executes and that the
\* sweep does not list again.
SuccAt(q) ==
    /\ exec[q] \notin {"err", "wrote_err", "released_err"}
    /\ exec[q] = "adapter" => alive[q]
    /\ cancel[q] # "none" => /\ starter.pc = "nested" /\ exec[q] = "none"
                             /\ q \notin reaper.seen /\ ~Reaping(q)
                             /\ run[q].status # "running"
    /\ cancel[q] = "release" => run[q].status \in Terminal
    /\ q \in reaper.seen => exec[q] \notin {"claimed", "launched"}
    /\ Reaping(q) => run[q].status \in Terminal /\ exec[q] = "none" /\ q \notin reaper.seen

\* Nobody is going to release the run once more.
Settled(q) ==
    /\ run[q].status \in Terminal /\ exec[q] = "none" /\ q \notin reaper.seen
    /\ ~Reaping(q) /\ cancel[q] \notin {"kill", "write", "release"}
FollowedOnce(q) ==
    /\ RetriesOf(q) # {} => Settled(q)
    /\ Cardinality(RetriesOf(q)) <= 1

SuccInv == AdmissionInv /\ \A q \in RunId : SuccAt(q) /\ FollowedOnce(q)

\* A step that leaves the run where it is, or only takes it off the list.
Still(q) ==
    /\ run'[q].status = run[q].status \/ q > nRuns
    /\ exec'[q] = exec[q] /\ alive'[q] = alive[q] /\ cancel'[q] = cancel[q]
    /\ q \in reaper'.seen => q \in reaper.seen
    /\ Reaping(q)' <=> Reaping(q)

\* A step that adds at most a row that follows o.
SuccStep(o) ==
    /\ RowsMove(o)
    /\ starter.pc = "nested" => starter'.pc = "nested"
    /\ \A q \in RunId : Still(q) \/ (SuccAt(q)' /\ (RetriesOf(q) # {} => Settled(q)'))
    /\ o # 0 => RetriesOf(o) = {} /\ Settled(o)'

\* A run that is left alone stays as it should be.
LEMMA StillSucc ==
    ASSUME SuccInv, EndedStays, NEW q \in RunId, Still(q),
           starter.pc = "nested" => starter'.pc = "nested"
    PROVE  SuccAt(q)' /\ (RetriesOf(q) # {} => Settled(q)')
<1>1. SuccAt(q) /\ FollowedOnce(q) /\ (run[q].status \in Terminal => run'[q].status \in Terminal)
  BY DEF SuccInv, EndedStays
<1>2. CASE run'[q].status = run[q].status
  BY <1>1, <1>2 DEF Still, SuccAt, FollowedOnce, Settled
<1>3. CASE q > nRuns
  <2>1. /\ run[q].status = "absent" /\ exec[q] = "none" /\ cancel[q] = "none"
        /\ q \notin reaper.seen /\ ~Reaping(q)
    BY <1>3, BeyondRows DEF SuccInv, AdmissionInv
  <2> QED
    BY <1>1, <2>1 DEF Still, SuccAt, FollowedOnce, Settled
<1> QED
  BY <1>2, <1>3 DEF Still

\* Such a step keeps SuccInv.
LEMMA SuccStepInv ==
    ASSUME SuccInv, AdmissionInv', EndedStays, NEW o, SuccStep(o)
    PROVE  SuccInv'
<1>1. ASSUME NEW q \in RunId PROVE SuccAt(q)' /\ (RetriesOf(q) # {} => Settled(q)')
  BY StillSucc DEF SuccStep
<1>2. ASSUME NEW q \in RunId PROVE FollowedOnce(q)'
  <2>1. FollowedOnce(q) /\ TypeInv /\ TypeInv'
    BY DEF SuccInv, AdmissionInv
  <2>2. CASE RetriesOf(q)' = RetriesOf(q)
    BY <1>1, <2>1, <2>2 DEF FollowedOnce
  <2>3. CASE RetriesOf(q)' # RetriesOf(q)
    <3>1. o = q /\ RetriesOf(q)' = RetriesOf(q) \cup {nRuns + 1} /\ q # 0
      BY <2>1, <2>3, RetriesMove DEF SuccStep, RunId
    <3>2. RetriesOf(q)' = {nRuns + 1} /\ Settled(q)'
      BY <3>1 DEF SuccStep
    <3>3. Cardinality({nRuns + 1}) = 1
      BY FS_Singleton
    <3> QED
      BY <3>2, <3>3 DEF FollowedOnce
  <2> QED
    BY <2>2, <2>3
<1> QED
  BY <1>1, <1>2 DEF SuccInv

\* A step about r that adds no successor, or one of r's.
LEMMA SuccAboutInv ==
    ASSUME SuccInv, AdmissionInv', EndedStays, NEW r \in RunId, About(r), NEW o, RowsMove(o),
           SuccAt(r)', RetriesOf(r) # {} => Settled(r)',
           o # 0 => RetriesOf(o) = {} /\ Settled(o)'
    PROVE  SuccInv'
<1>1. \A q \in RunId : q # r => Still(q)
  BY DEF About, Untouched, Still
<1>2. SuccStep(o)
  BY <1>1 DEF SuccStep, About
<1> QED
  BY <1>2, SuccStepInv

\* Executors keep SuccInv: none of their releases recovers the run.
LEMMA ExecutorSucc ==
    ASSUME "fail" \notin Disturbance, SuccInv, AdmissionInv', EndedStays,
           NEW r \in RunId, Executes(r)
    PROVE  SuccInv'
<1>1. About(r) /\ UNCHANGED <<cancel, reaper, starter, outer>>
  BY ExecutorAbout DEF SuccInv, AdmissionInv
<1>2. /\ SuccAt(r) /\ FollowedOnce(r) /\ run[r] \in RunRow
      /\ exec \in [RunId -> ExecState] /\ alive \in [RunId -> BOOLEAN] /\ run \in [RunId -> RunRow]
      /\ exec[r] # "none" => r <= nRuns
  BY DEF SuccInv, AdmissionInv, TypeInv, TypeOK, References
<1>3. exec[r] \notin {"none", "claimed"}
  BY DEF Executes, ExecEnter, ExecSpawn, ExecAbort, ExecReturn, ExecPersist, ExecRelease,
         ExecReleaseThrows, ExecFinalize, ExecFinalized, ExecLeave, Finalizing
<1>4. cancel[r] = "none" /\ ~Reaping(r) /\ RetriesOf(r) = {}
  BY <1>2, <1>3 DEF SuccAt, FollowedOnce, Settled
<1>5. /\ exec'[r] \notin {"err", "wrote_err", "released_err", "claimed", "launched"}
      /\ exec'[r] = "adapter" => alive'[r]
  <2>1. CASE ExecEnter(r)
    BY <1>2, <2>1 DEF ExecEnter
  <2>2. CASE ExecSpawn(r)
    BY <1>2, <2>2 DEF ExecSpawn
  <2>3. CASE ExecAbort(r)
    BY <1>2, <2>3 DEF ExecAbort
  <2>4. CASE ExecReturn(r)
    BY <1>2, <2>4 DEF ExecReturn, SuccAt
  <2>5. CASE ExecPersist(r)
    BY <1>2, <2>5 DEF ExecPersist, SuccAt
  <2>6. CASE ExecRelease(r)
    BY <1>2, <2>6 DEF ExecRelease, SuccAt
  <2>7. CASE ExecReleaseThrows(r)
    BY <1>2, <2>7 DEF ExecReleaseThrows, SuccAt
  <2>8. CASE ExecFinalize(r)
    BY <1>2, <2>8 DEF ExecFinalize, FinalizeRead, SuccAt
  <2>9. CASE ExecFinalized(r)
    BY <1>2, <2>9 DEF ExecFinalized
  <2>10. CASE ExecLeave(r)
    BY <1>2, <2>10 DEF ExecLeave
  <2> QED
    BY <2>1, <2>2, <2>3, <2>4, <2>5, <2>6, <2>7, <2>8, <2>9, <2>10 DEF Executes
<1>6. SuccAt(r)'
  <2>1. Reaping(r)' <=> Reaping(r)
    BY <1>1 DEF Reaping
  <2> QED
    BY <1>1, <1>4, <1>5, <2>1 DEF SuccAt
<1>7. RowsMove(0)
  <2>1. CASE ExecRelease(r)
    <3>1. PICK st, p : ReleaseOf(r, st, p) /\ st \in {"succeeded", "running"}
      <4>1. exec[r] # "wrote_err" /\ r <= nRuns
        BY <1>2, <1>3 DEF SuccAt
      <4>2. CASE exec[r] = "wrote_ok"
        BY <2>1, <4>1, <4>2, ReleaseMoves DEF ExecRelease, SuccInv, AdmissionInv
      <4>3. CASE exec[r] = "aborted"
        BY <2>1, <4>1, <4>3, ReleaseMoves DEF ExecRelease, SuccInv, AdmissionInv
      <4> QED
        BY <2>1, <4>1, <4>2, <4>3 DEF ExecRelease
    <3> QED
      BY <3>1 DEF ReleaseOf
  <2>2. CASE nRuns' = nRuns
    <3>1. PICK o : RowsMove(o)
      BY ExecutorMoves DEF SuccInv, AdmissionInv
    <3> QED
      BY <2>2, <3>1 DEF RowsMove, SuccInv, AdmissionInv, TypeInv, TypeOK
  <2> QED
    BY <2>1, <2>2 DEF Executes, ExecEnter, ExecSpawn, ExecAbort, ExecReturn, ExecPersist,
          ExecReleaseThrows, ExecFinalize, ExecFinalized, ExecLeave
<1> QED
  BY <1>1, <1>4, <1>6, <1>7, SuccAboutInv

\* A cancellation keeps SuccInv: it releases once.
LEMMA CancelSucc ==
    ASSUME SuccInv, AdmissionInv', EndedStays, NEW r \in RunId, Cancels(r)
    PROVE  SuccInv'
<1>1. About(r) /\ UNCHANGED <<exec, reaper, starter, outer>>
  BY CancelAbout DEF SuccInv, AdmissionInv
<1>2. /\ SuccAt(r) /\ FollowedOnce(r) /\ OrphanAt(r) /\ run[r] \in RunRow
      /\ cancel \in [RunId -> CancelState] /\ alive \in [RunId -> BOOLEAN]
      /\ run \in [RunId -> RunRow] /\ (Reaping(r)' <=> Reaping(r))
      /\ cancel[r] # "none" => r <= nRuns
  BY <1>1 DEF SuccInv, AdmissionInv, OrphanInv, TypeInv, TypeOK, References, Reaping
<1>3. cancel[r] \notin {"none", "active_write", "active_kill", "active_release"}
  BY <1>2 DEF Cancels, CancelKill, CancelWrite, CancelRelease, CancelFinalize, CancelFinalized,
         CancelStart, Finalizing, OrphanAt
<1>4. /\ starter.pc = "nested" /\ exec[r] = "none" /\ r \notin reaper.seen
      /\ ~Reaping(r) /\ run[r].status # "running"
  BY <1>2, <1>3 DEF SuccAt
<1>5. CASE CancelRelease(r)
  <2>1. cancel[r] = "release" /\ cancel'[r] = "finalize"
    BY <1>2, <1>3, <1>5 DEF CancelRelease
  <2>2. PICK p : RowsMove(p) /\ p \in {0, r}
    <3>1. PICK p : ReleaseOf(r, "cancelled", p)
      BY <1>2, <1>5, <2>1, ReleaseMoves DEF CancelRelease, SuccInv, AdmissionInv
    <3> QED
      BY <3>1 DEF ReleaseOf
  <2>3. run'[r].status \in Terminal /\ RetriesOf(r) = {}
    BY <1>2, <2>1 DEF SuccAt, FollowedOnce, Settled, EndedStays
  <2>4. SuccAt(r)' /\ Settled(r)'
    BY <1>1, <1>2, <1>4, <2>1, <2>3 DEF SuccAt, Settled, Terminal
  <2> QED
    BY <1>1, <2>2, <2>3, <2>4, SuccAboutInv
<1>6. ASSUME nRuns' = nRuns, run'[r].status # "running",
             cancel'[r] \in {"kill", "write", "release"} =>
                cancel[r] \in {"kill", "write", "release"},
             cancel'[r] = "release" => run'[r].status \in Terminal
      PROVE  SuccInv'
  <2>1. SuccAt(r)' /\ (RetriesOf(r) # {} => Settled(r)')
    BY <1>1, <1>2, <1>4, <1>6 DEF SuccAt, FollowedOnce, Settled, EndedStays
  <2>2. RowsMove(0)
    <3>1. PICK o : RowsMove(o)
      BY CancelMoves DEF SuccInv, AdmissionInv
    <3> QED
      BY <1>6, <3>1 DEF RowsMove, SuccInv, AdmissionInv, TypeInv, TypeOK
  <2> QED
    BY <1>1, <2>1, <2>2, SuccAboutInv
<1>7. CASE CancelKill(r)
  <2>1. nRuns' = nRuns /\ run' = run /\ cancel[r] = "kill" /\ cancel'[r] = "write"
    BY <1>2, <1>3, <1>7 DEF CancelKill
  <2> QED
    BY <1>4, <1>6, <2>1
<1>8. CASE CancelWrite(r)
  <2>1. nRuns' = nRuns /\ cancel[r] = "write" /\ run'[r].status = "cancelled"
    BY <1>2, <1>3, <1>8 DEF CancelWrite, RunRow
  <2> QED
    BY <1>6, <2>1 DEF Terminal
<1>9. CASE CancelFinalize(r) \/ CancelFinalized(r) \/ CancelStart(r)
  <2>1. cancel'[r] \notin {"kill", "write", "release"} /\ run' = run /\ nRuns' = nRuns
    BY <1>2, <1>9 DEF CancelFinalize, CancelFinalized, CancelStart, FinalizeRead
  <2> QED
    BY <1>4, <1>6, <2>1
<1> QED
  BY <1>5, <1>7, <1>8, <1>9 DEF Cancels

\* The reaper keeps SuccInv: it retries a lost run or releases it, and when it
\* releases twice the agent cannot run, so neither release recovers the run.
LEMMA ReaperSucc ==
    ASSUME SuccInv, AdmissionInv', EndedStays, Reaps
    PROVE  SuccInv'
<1>1. /\ nRuns \in 0..MaxRuns /\ run \in [RunId -> RunRow] /\ reaper \in Sweep
  BY DEF SuccInv, AdmissionInv, TypeInv, TypeOK
<1>2. CASE ReapBegin
  <2>1. UNCHANGED <<run, nRuns, lock, exec, alive, cancel, starter, outer>>
    BY <1>2 DEF ReapBegin
  <2>2. RowsMove(0)
    BY <2>1, SameMoves
  <2>3. ASSUME NEW q \in RunId
        PROVE  Still(q) \/ (SuccAt(q)' /\ (RetriesOf(q) # {} => Settled(q)'))
    <3>1. CASE /\ run[q].status = "running" /\ exec[q] \notin {"claimed", "launched"}
               /\ ~Reaping(q) /\ ~Reaping(q)'
      <4>1. SuccAt(q) /\ FollowedOnce(q)
        BY DEF SuccInv
      <4> QED
        BY <2>1, <3>1, <4>1 DEF SuccAt, FollowedOnce, Settled, Terminal
    <3> QED
      BY <1>2, <3>1, BeginUntouched DEF SuccInv, AdmissionInv, Still, Untouched
  <2>4. SuccStep(0)
    BY <2>1, <2>2, <2>3 DEF SuccStep
  <2> QED
    BY <2>4, SuccStepInv
<1>3. ASSUME NEW r \in RunId, ReapsAt(r) PROVE SuccInv'
  <2>1. /\ About(r) /\ UNCHANGED <<exec, alive, cancel, starter, outer>>
        /\ reaper'.seen \subseteq reaper.seen
    BY <1>3, ReaperAbout DEF SuccInv, AdmissionInv
  <2>2. SuccAt(r) /\ FollowedOnce(r) /\ OrphanAt(r) /\ run[r] \in RunRow
    BY <1>1 DEF SuccInv, AdmissionInv, OrphanInv
  <2>3. nRuns' = nRuns => RowsMove(0)
    <3>1. PICK o : RowsMove(o)
      BY <1>3, ReaperMoves DEF SuccInv, AdmissionInv, Reaps, ReapsAt
    <3> QED
      BY <1>1, <3>1 DEF RowsMove
  <2>4. CASE /\ nRuns' = nRuns /\ run'[r].status = run[r].status
             /\ ~Reaping(r) /\ ~Reaping(r)'
    <3>1. Still(r)
      BY <2>1, <2>4 DEF Still
    <3>2. SuccAt(r)' /\ (RetriesOf(r) # {} => Settled(r)')
      BY <2>1, <3>1, StillSucc
    <3> QED
      BY <2>1, <2>3, <2>4, <3>2, SuccAboutInv
  <2>5. CASE ReapSkip(r)
    <3>1. reaper.pc = "idle" /\ reaper'.pc = "idle"
      BY <1>1, <2>5 DEF ReapSkip, ReapTurn, ReaperPast, ResetReaper, Sweep
    <3> QED
      BY <2>4, <2>5, <3>1 DEF ReapSkip, Reaping
  <2>6. CASE ReapDetached(r)
    <3>1. reaper.pc = "idle" /\ reaper'.pc = "idle"
      BY <1>1, <2>6 DEF ReapDetached, ReapTurn, ReaperPast, ResetReaper, Sweep
    <3>2. run[r].status = "running"
      BY <2>2, <2>6 DEF ReapDetached, ReapTurn, Tracked, OrphanAt, SuccAt
    <3>3. run'[r].status = "running"
      BY <1>1, <2>2, <2>6, <3>2 DEF ReapDetached, RunRow
    <3> QED
      BY <2>4, <2>6, <3>1, <3>2, <3>3 DEF ReapDetached, Reaping
  <2>7. CASE ReapFinalize(r) \/ ReapFinalized(r) \/ ReapStart(r)
    <3>1. reaper.pc \notin {"retry", "again"} /\ reaper'.pc \notin {"retry", "again"}
      <4>1. CASE ReapFinalize(r)
        BY <1>1, <4>1 DEF ReapFinalize, FinalizeRead, Sweep
      <4>2. CASE ReapFinalized(r)
        BY <1>1, <4>2 DEF ReapFinalized, Finalizing, Sweep
      <4>3. CASE ReapStart(r)
        BY <1>1, <4>3 DEF ReapStart, ResetReaper, Sweep
      <4> QED
        BY <2>7, <4>1, <4>2, <4>3
    <3> QED
      BY <2>4, <2>7, <3>1 DEF ReapFinalize, ReapFinalized, ReapStart, Reaping
  <2>8. CASE ReapLost(r)
    <3>1. run'[r].status = "failed" /\ nRuns' = nRuns
      BY <1>1, <2>2, <2>8 DEF ReapLost, RunRow
    <3>2. /\ r \notin reaper'.seen /\ r \in reaper.seen /\ exec[r] = "none"
          /\ RetriesOf(r) = {} /\ cancel[r] = "none"
      BY <1>1, <2>2, <2>8
         DEF ReapLost, ReapTurn, Tracked, Sweep, SuccAt, FollowedOnce, Settled
    <3>3. SuccAt(r)'
      BY <2>1, <2>2, <3>1, <3>2 DEF SuccAt, Terminal
    <3> QED
      BY <2>1, <2>3, <3>1, <3>2, <3>3, SuccAboutInv
  <2>9. ASSUME Reaping(r)
        PROVE  /\ run'[r].status \in Terminal /\ exec[r] = "none" /\ r \notin reaper'.seen
               /\ RetriesOf(r) = {} /\ cancel[r] = "none" /\ r <= nRuns /\ SuccAt(r)'
               /\ ~Reaping(r)' => Settled(r)'
    <3>1. /\ run'[r].status \in Terminal /\ exec[r] = "none" /\ r \notin reaper'.seen
          /\ RetriesOf(r) = {} /\ cancel[r] = "none"
      BY <2>1, <2>2, <2>9 DEF SuccAt, FollowedOnce, Settled, EndedStays
    <3>2. r <= nRuns
      BY <1>1, <2>9 DEF Reaping, SuccInv, AdmissionInv, TypeInv, References
    <3> QED
      BY <2>1, <2>2, <3>1, <3>2 DEF SuccAt, Settled
  <2>10. CASE ReapRetry(r) \/ ReapRetryExists(r)
    <3>1. Reaping(r) /\ ~Reaping(r)'
      BY <1>1, <2>10 DEF ReapRetry, ReapRetryExists, Reaping, Sweep
    <3>2. RowsMove(r) \/ RowsMove(0)
      BY <2>3, <2>10, RetryMoves DEF ReapRetryExists, SuccInv, AdmissionInv
    <3> QED
      BY <2>1, <2>9, <3>1, <3>2, SuccAboutInv
  <2>11. CASE ReapRelease(r)
    <3>1. Reaping(r)
      BY <2>11 DEF ReapRelease, Reaping
    <3>2. PICK p : ReleaseOf(r, "failed", p)
      BY <2>9, <2>11, <3>1, ReleaseMoves DEF ReapRelease, SuccInv, AdmissionInv
    <3>3. /\ RowsMove(p) /\ p \in {0, r}
          /\ p = r => Invokable(run[r].agent)
      BY <3>2 DEF ReleaseOf
    <3>4. Invokable(run[r].agent) => ~Reaping(r)'
      BY <1>1, <2>11 DEF ReapRelease, Reaping, Sweep
    <3> QED
      BY <2>1, <2>9, <3>1, <3>3, <3>4, SuccAboutInv
  <2> QED
    BY <1>3, <2>5, <2>6, <2>7, <2>8, <2>10, <2>11 DEF ReapsAt
<1> QED
  BY <1>2, <1>3 DEF Reaps, ReapsAt

\* Start activations keep SuccInv.
LEMMA StarterSucc ==
    ASSUME LockMode = "exclusive", SuccInv, AdmissionInv', EndedStays, Starts
    PROVE  SuccInv'
<1>1. /\ run \in [RunId -> RunRow] /\ exec \in [RunId -> ExecState]
      /\ cancel \in [RunId -> CancelState] /\ starter \in Activation
  BY DEF SuccInv, AdmissionInv, TypeInv, TypeOK
<1>2. RowsMove(0)
  BY StarterMoves DEF SuccInv, AdmissionInv
<1>3. CASE /\ UNCHANGED <<run, nRuns, lock, alive, cancel, reaper>>
           /\ starter.pc = "nested" => starter'.pc = "nested"
           /\ \A q \in RunId :
                 \/ Untouched(q)
                 \/ /\ exec[q] = "claimed" /\ exec'[q] = "launched"
                    /\ ~Stamping(q)' /\ ~Dropping(q)
  <2>1. ASSUME NEW q \in RunId, exec[q] = "claimed", exec'[q] = "launched"
        PROVE  SuccAt(q)' /\ (RetriesOf(q) # {} => Settled(q)')
    <3>1. SuccAt(q) /\ FollowedOnce(q) /\ (Reaping(q)' <=> Reaping(q))
      BY <1>3 DEF SuccInv, Reaping
    <3> QED
      BY <1>3, <2>1, <3>1 DEF SuccAt, FollowedOnce, Settled
  <2>2. \A q \in RunId : Untouched(q) => Still(q)
    BY DEF Untouched, Still
  <2>3. SuccStep(0)
    BY <1>2, <1>3, <2>1, <2>2 DEF SuccStep
  <2> QED
    BY <2>3, SuccStepInv
<1>4. ASSUME NEW r \in RunId, StartsAt(r) PROVE SuccInv'
  <2>1. About(r) /\ UNCHANGED <<nRuns, alive, reaper, outer>>
    BY <1>4, StarterAbout DEF SuccInv, AdmissionInv
  <2>2. /\ SuccAt(r) /\ FollowedOnce(r) /\ OrphanAt(r) /\ run[r] \in RunRow
        /\ Reaping(r)' <=> Reaping(r)
    BY <1>1, <2>1 DEF SuccInv, AdmissionInv, OrphanInv, Reaping
  <2>3. CASE UNCHANGED <<run, exec, cancel>>
    <3>1. Still(r)
      BY <2>1, <2>2, <2>3 DEF Still
    <3>2. SuccAt(r)' /\ (RetriesOf(r) # {} => Settled(r)')
      BY <2>1, <3>1, StillSucc DEF About
    <3> QED
      BY <1>2, <2>1, <3>2, SuccAboutInv
  <2>4. run[r].status = "queued" => /\ exec[r] = "none" /\ ~alive[r] /\ r \notin reaper.seen
                                    /\ ~Reaping(r) /\ RetriesOf(r) = {}
    BY <2>2 DEF SuccAt, FollowedOnce, Settled, OrphanAt, Terminal
  <2>5. CASE ClaimRefused(r)
    <3>1. CASE run[r].status \in Path
      <4>1. /\ cancel'[r] = "kill" /\ starter'.pc = "nested" /\ UNCHANGED <<run, exec>>
        BY <1>1, <2>5, <3>1 DEF ClaimRefused, Activation
      <4>2. run[r].status = "queued"
        <5>1. starter.todo \in Seq(RunId) /\ starter.todo # <<>> /\ r = Head(starter.todo)
          BY <1>1, <2>5 DEF ClaimRefused, NextCandidate, Activation
        <5>2. 1 \in DOMAIN starter.todo /\ r = starter.todo[1]
          BY <5>1
        <5>3. run[r].status # "running"
          BY <5>2 DEF SuccInv, AdmissionInv, PlanInv
        <5> QED
          BY <3>1, <5>3 DEF Path
      <4>3. SuccAt(r)'
        BY <2>1, <2>2, <2>4, <4>1, <4>2 DEF SuccAt
      <4> QED
        BY <1>2, <2>1, <2>4, <4>2, <4>3, SuccAboutInv
    <3>2. CASE run[r].status \notin Path
      BY <2>3, <2>5, <3>2 DEF ClaimRefused
    <3> QED
      BY <3>1, <3>2
  <2>6. CASE starter.at = r /\ ClaimDropped
    <3>1. run' = [run EXCEPT ![r].status = "cancelled"] /\ UNCHANGED <<exec, cancel>>
      BY <2>6 DEF ClaimDropped
    <3>2. run'[r].status = "cancelled"
      BY <1>1, <2>2, <3>1 DEF RunRow
    <3>3. cancel[r] = "none"
      BY <2>2, <2>6 DEF ClaimDropped, SuccAt
    <3>4. SuccAt(r)' /\ (RetriesOf(r) # {} => Settled(r)')
      BY <2>1, <2>2, <3>1, <3>2, <3>3 DEF SuccAt, FollowedOnce, Settled, Terminal
    <3> QED
      BY <1>2, <2>1, <3>4, SuccAboutInv
  <2>7. CASE starter.at = r /\ ClaimQueuedRun
    <3>1. CASE run[r].status = "queued"
      <4>1. /\ run' = [run EXCEPT ![r].status = "running"] /\ cancel' = cancel
            /\ exec' = [exec EXCEPT ![r] = "claimed"]
        BY <2>7, <3>1 DEF ClaimQueuedRun
      <4>2. exec'[r] = "claimed"
        BY <1>1, <4>1
      <4>3. cancel[r] = "none"
        BY <2>2, <2>7 DEF ClaimQueuedRun, SuccAt
      <4>4. SuccAt(r)'
        BY <2>1, <2>2, <2>4, <3>1, <4>1, <4>2, <4>3 DEF SuccAt
      <4> QED
        BY <1>2, <2>1, <2>4, <3>1, <4>4, SuccAboutInv
    <3>2. CASE run[r].status # "queued"
      BY <2>3, <2>7, <3>2 DEF ClaimQueuedRun
    <3> QED
      BY <3>1, <3>2
  <2> QED
    BY <1>4, <2>3, <2>5, <2>6, <2>7 DEF StartsAt, ClaimGates, DropUnlocks, StampLock
<1> QED
  BY <1>3, <1>4, StarterTouches DEF SuccInv

\* Wakes keep SuccInv: what they queue follows nothing.
LEMMA WakeSucc ==
    ASSUME SuccInv, AdmissionInv', EndedStays, Wakes
    PROVE  SuccInv'
<1>1. UNCHANGED <<issue, agentStatus, exec, alive, cancel, reaper, starter, outer>>
  BY WakesOnly
<1>2. RowsMove(0)
  BY WakeMoves DEF SuccInv, AdmissionInv
<1>3. ASSUME NEW q \in RunId, run[q].status = "queued", run'[q].status = "cancelled"
      PROVE  SuccAt(q)' /\ (RetriesOf(q) # {} => Settled(q)')
  <2>1. SuccAt(q) /\ FollowedOnce(q) /\ (Reaping(q)' <=> Reaping(q))
    BY <1>1 DEF SuccInv, Reaping
  <2> QED
    BY <1>1, <1>3, <2>1 DEF SuccAt, FollowedOnce, Settled, Terminal
<1>4. \A q \in RunId : Still(q) \/ (run[q].status = "queued" /\ run'[q].status = "cancelled")
  BY WakeUntouched DEF SuccInv, AdmissionInv, Untouched, Still
<1>5. SuccStep(0)
  BY <1>1, <1>2, <1>3, <1>4 DEF SuccStep
<1> QED
  BY <1>5, SuccStepInv

\* A crash forgets every executor, cancellation, sweep and activation.
LEMMA OutsideSucc ==
    ASSUME {"cancel", "cancel_active"} \cap Disturbance = {},
           SuccInv, AdmissionInv', EndedStays, Outside
    PROVE  SuccInv'
<1>1. UNCHANGED <<run, nRuns>>
  BY DEF Outside, CancelRun, CompleteIssue, OrphanExits, CancelActiveForAgent, PauseAgent,
         ReassignIssue, GateIssue, Crash
<1>2. CASE Crash
  <2>1. ASSUME NEW q \in RunId PROVE SuccAt(q)' /\ FollowedOnce(q)'
    <3>1. /\ exec'[q] = "none" /\ cancel'[q] = "none" /\ q \notin reaper'.seen
          /\ ~Reaping(q)' /\ RetriesOf(q)' = RetriesOf(q) /\ FollowedOnce(q)
      BY <1>1, <1>2 DEF Crash, ResetReaper, Reaping, RetriesOf, SuccInv
    <3> QED
      BY <1>1, <3>1 DEF SuccAt, FollowedOnce, Settled
  <2> QED
    BY <2>1 DEF SuccInv
<1>3. CASE ~Crash
  <2>1. UNCHANGED <<exec, cancel, reaper, starter, outer>>
    BY <1>3 DEF Outside, CancelRun, CompleteIssue, OrphanExits, CancelActiveForAgent,
                PauseAgent, ReassignIssue, GateIssue
  <2>2. \A q \in RunId : alive'[q] = alive[q] \/ exec[q] = "none"
    BY <1>3 DEF Outside, CancelRun, CompleteIssue, OrphanExits, CancelActiveForAgent,
                PauseAgent, ReassignIssue, GateIssue, SuccInv, AdmissionInv, TypeInv, TypeOK
  <2>3. ASSUME NEW q \in RunId PROVE SuccAt(q)' /\ (RetriesOf(q) # {} => Settled(q)')
    <3>1. SuccAt(q) /\ FollowedOnce(q) /\ (Reaping(q)' <=> Reaping(q))
      BY <2>1 DEF SuccInv, Reaping
    <3> QED
      BY <1>1, <2>1, <2>2, <3>1 DEF SuccAt, FollowedOnce, Settled
  <2>4. SuccStep(0)
    BY <1>1, <2>1, <2>3, SameMoves DEF SuccStep
  <2> QED
    BY <2>4, SuccStepInv
<1> QED
  BY <1>2, <1>3

\* Every step keeps SuccInv.
LEMMA NextSucc ==
    ASSUME LockMode = "exclusive",
           {"fail", "cancel", "cancel_active"} \cap Disturbance = {},
           SuccInv, [Next]_vars
    PROVE  SuccInv'
<1>1. AdmissionInv'
  BY NextAdmission DEF SuccInv
<1>2. CASE Next
  <2>1. EndedStays
    BY <1>2, NextEndedStays DEF SuccInv
  <2>2. {"cancel", "cancel_active"} \cap Disturbance = {} /\ "fail" \notin Disturbance
    OBVIOUS
  <2> QED
    BY <1>1, <1>2, <2>1, <2>2, ExecutorSucc, CancelSucc, ReaperSucc, StarterSucc, WakeSucc,
       OutsideSucc DEF Next
<1>3. CASE UNCHANGED vars
  BY <1>1, <1>3 DEF vars, SuccInv, SuccAt, FollowedOnce, Settled, Reaping, RetriesOf
<1> QED
  BY <1>2, <1>3

\* SuccInv holds at first.
LEMMA InitSucc == Init => SuccInv
<1> SUFFICES ASSUME Init PROVE SuccInv
  OBVIOUS
<1>1. AdmissionInv
  BY InitAdmission
<1>2. ASSUME NEW q \in RunId PROVE SuccAt(q)
  BY DEF Init, SuccAt, ResetReaper, Reaping
<1>3. ASSUME NEW q \in RunId PROVE FollowedOnce(q)
  <2>1. RetriesOf(q) = {}
    BY DEF Init, RetriesOf, AbsentRow
  <2> QED
    BY <2>1, FS_EmptySet DEF FollowedOnce
<1> QED
  BY <1>1, <1>2, <1>3 DEF SuccInv

\* A run that is lost or fails to be released is followed by one run at most: a
\* retry of the reaper or a recovery of the release, wherever the server crashes
\* and whatever the reaper lists again after a restart.
THEOREM OneSuccessorEach ==
    ASSUME LockMode = "exclusive",
           {"fail", "cancel", "cancel_active"} \cap Disturbance = {}
    PROVE  Spec => []OneSuccessor
<1>1. Init => SuccInv
  BY InitSucc
<1>2. SuccInv /\ [Next]_vars => SuccInv'
  BY NextSucc
<1>3. SuccInv => OneSuccessor
  BY DEF SuccInv, FollowedOnce, OneSuccessor
<1> QED
  BY <1>1, <1>2, <1>3, PTL DEF Spec
===============================================================================
