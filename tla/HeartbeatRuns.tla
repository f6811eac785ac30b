---------------------------- MODULE HeartbeatRuns ----------------------------
(***************************************************************************)
(* The run scheduler of the Paperclip server                               *)
(* (services/heartbeat.js): wake-ups queue runs, queued runs are claimed   *)
(* under the start locks and the two concurrency caps, an in-memory        *)
(* executor drives each claimed run through setup, the adapter process and *)
(* finalization, and cancellation, the orphan reaper and restarts cut      *)
(* across all of it.  One await-delimited section of the code is one step. *)
(***************************************************************************)
EXTENDS Integers, FiniteSets, Sequences

CONSTANTS
    Agent,        \* employees that can be woken
    Issue,        \* issues runs can be about
    NoAgent,      \* "no start activation holds the lock"
    NoIssue,      \* the issue of a run that is about none (timer wake)
    MaxRuns,      \* bound: rows of heartbeat_runs ever inserted
    MaxCrashes,   \* bound: server crashes
    GlobalMax,    \* PAPERCLIP_HEARTBEAT_GLOBAL_MAX_CONCURRENT_RUNS
    AgentMax,     \* runtimeConfig.heartbeat.maxConcurrentRuns
    LockMode,     \* what agent-start-lock.js does with a waiter whose holder waits
    Disturbance   \* which outside interventions a run of the model enables

ASSUME CapAssumption == GlobalMax \in Nat \ {0} /\ AgentMax \in Nat \ {0}
ASSUME BoundAssumption == MaxRuns \in Nat \ {0} /\ MaxCrashes \in Nat
ASSUME AgentAssumption == IsFiniteSet(Agent) /\ NoAgent \notin Agent
ASSUME IssueAssumption == NoIssue \notin Issue
ASSUME LockAssumption == LockMode \in {"exclusive", "takeover"}

Interventions == {"cancel", "cancel_active", "pause", "reassign", "gate", "done",
                  "comment", "timer", "fail", "release_error", "reap", "crash"}
ASSUME DisturbanceAssumption == Disturbance \subseteq Interventions

VARIABLES
    run,          \* heartbeat_runs, by id in creation order
    nRuns,        \* rows inserted so far
    lock,         \* issues.executionRunId, 0 when null
    issue,        \* issues: status, assignee, and what gates its runs
    deferred,     \* wake-ups parked as deferred_issue_execution, oldest first
    agentStatus,  \* agents.status
    exec,         \* in-memory executor of a run (executeRun)
    alive,        \* the adapter's child process exists
    cancel,       \* progress of a cancellation of the run
    reaper,       \* progress of reapOrphanedRuns
    starter,      \* the activation inside the start locks
    outer,        \* activations overtaken inside the lock ("takeover" only)
    startReq,     \* agents with a startNextQueuedRunForAgent call pending
    crashes

vars == <<run, nRuns, lock, issue, deferred, agentStatus, exec, alive, cancel,
          reaper, starter, outer, startReq, crashes>>

RunId == 1..MaxRuns
Terminal == {"succeeded", "failed", "cancelled"}
Path == {"queued", "running"}
\* "comment": an interaction wake; "commented": it still carries comment ids,
\* but its wake reason was overwritten by a retry or a merge.
Wake == {"assigned", "comment", "commented"}
RetryReason == {"none", "process_lost", "assignment_recovery", "issue_continuation_needed"}

RunRow == [status: {"absent"} \cup Path \cup Terminal,
           agent: Agent \cup {NoAgent}, issue: Issue \cup {NoIssue},
           wake: Wake, retryReason: RetryReason,
           loss: 0..1, retryOf: 0..MaxRuns, pid: BOOLEAN, detached: BOOLEAN]

AbsentRow == [status |-> "absent", agent |-> NoAgent, issue |-> NoIssue,
              wake |-> "assigned", retryReason |-> "none", loss |-> 0,
              retryOf |-> 0, pid |-> FALSE, detached |-> FALSE]

QueuedRow(a, i, w) ==
    [AbsentRow EXCEPT !.status = "queued", !.agent = a, !.issue = i, !.wake = w]

\* pc: at the loop's head, or about to drop run "at" and free its lock, or to
\* claim it and stamp the lock, or waiting inside the lock for a start call of
\* its own.
Idle == [agent |-> NoAgent, slots |-> 0, todo |-> <<>>, claimed |-> {},
         at |-> 0, pc |-> "next"]
Activation == [agent: Agent \cup {NoAgent}, slots: Nat, todo: Seq(RunId),
               claimed: SUBSET RunId, at: 0..MaxRuns,
               pc: {"next", "drop", "unlock", "claim", "stamp", "nested"}]

IssueRow == [status: {"todo", "in_progress", "blocked", "done"}, assignee: Agent,
             gate: {"open", "held", "waiting"}]
ParkedWake == [agent: Agent, wake: Wake]

Finalizing == {"to_idle", "to_running", "to_error"}

\* pc: between two rows of the sweep, or how far it is with row "at".
Sweep == [seen: SUBSET RunId, withPid: SUBSET RunId, at: 0..MaxRuns,
          pc: {"idle", "retry", "again", "finalize", "start"} \cup Finalizing]
ResetReaper == [seen |-> {}, withPid |-> {}, at |-> 0, pc |-> "idle"]

ExecState == {"none", "claimed", "launched", "setup", "aborted", "adapter", "ok", "err",
              "wrote_ok", "wrote_err", "released_ok", "released_err", "leaving"}
             \cup Finalizing
CancelState == {"none", "kill", "write", "release", "finalize", "start",
                "active_write", "active_kill", "active_release"} \cup Finalizing

TypeOK ==
    /\ run \in [RunId -> RunRow]
    /\ nRuns \in 0..MaxRuns
    /\ lock \in [Issue -> 0..MaxRuns]
    /\ issue \in [Issue -> IssueRow]
    /\ deferred \in [Issue -> Seq(ParkedWake)]
    /\ agentStatus \in [Agent -> {"idle", "running", "paused", "error"}]
    /\ exec \in [RunId -> ExecState]
    /\ alive \in [RunId -> BOOLEAN]
    /\ cancel \in [RunId -> CancelState]
    /\ reaper \in Sweep
    /\ starter \in Activation
    /\ outer \in Seq(Activation)
    /\ startReq \subseteq Agent
    /\ crashes \in 0..MaxCrashes

------------------------------------------------------------------------------
(* Queries the handlers make.                                              *)

Running == {r \in RunId : run[r].status = "running"}
RunningOf(a) == {r \in Running : run[r].agent = a}
QueuedOf(a) == {r \in RunId : run[r].status = "queued" /\ run[r].agent = a}
OnPath(i) == {r \in RunId : run[r].status \in Path /\ run[r].issue = i}

Invokable(a) == agentStatus[a] # "paused"

\* activeRunExecutions or runningProcesses holds the run.
Tracked(r) == exec[r] \notin {"none", "claimed", "launched"}

\* allowsIssueInteractionWake: may run although the issue is gated or owned by
\* another agent.
InteractionWake(w) == w = "comment"

\* mergeCoalescedContextSnapshot: the incoming reason wins, comment ids add up.
MergeWake(old, w) == IF w = "comment" THEN "comment"
                     ELSE IF old = "assigned" THEN w ELSE "commented"

Min2(x, y) == IF x <= y THEN x ELSE y
\* Mutant: the VM-wide cap is forgotten.
AvailableSlotsOfAgent(a) == AgentMax - Cardinality(RunningOf(a))

AvailableSlots(a) == Min2(AgentMax - Cardinality(RunningOf(a)),
                          GlobalMax - Cardinality(Running))

\* Queued runs go by readiness of their issue, then by age.
ReadinessRank(r) ==
    LET i == run[r].issue
    IN  IF i = NoIssue THEN 2
        ELSE IF issue[i].gate = "waiting" THEN 3
        ELSE IF issue[i].status = "in_progress" THEN 0 ELSE 1
Before(r, q) == \/ ReadinessRank(r) < ReadinessRank(q)
                \/ (ReadinessRank(r) = ReadinessRank(q) /\ r <= q)

Request(agents) == startReq' = startReq \cup agents

\* Insert a row: ids are handed out in creation order.
Room == nRuns < MaxRuns
Insert(row) == /\ run' = [run EXCEPT ![nRuns + 1] = row]
               /\ nRuns' = nRuns + 1

\* finalizeAgentStatus reads the agent and counts its running runs, leaves a
\* paused agent alone, and writes the new status in a later statement.
FinalizeRead(a, outcome, skip) ==
    IF agentStatus[a] = "paused" THEN skip
    ELSE IF RunningOf(a) # {} THEN "to_running"
    ELSE IF outcome = "failed" THEN "to_error" ELSE "to_idle"
\* Mutant: the intermediate verdict is written instead of a status.
FinalizeWriteVerdict(a, pc) == agentStatus' = [agentStatus EXCEPT ![a] = pc]

FinalizeWrite(a, pc) ==
    agentStatus' = [agentStatus EXCEPT ![a] = CASE pc = "to_running" -> "running"
                                                [] pc = "to_error" -> "error"
                                                [] pc = "to_idle" -> "idle"]

------------------------------------------------------------------------------
(* releaseIssueExecutionAndPromote(r): one transaction, given the row the   *)
(* caller holds (its status may be out of date by now).                     *)

\* Mutant: a run that ended keeps its locks.
UnlockedNever(r) == lock

Unlocked(r) == [j \in Issue |-> IF lock[j] = r THEN 0 ELSE lock[j]]

Promotable(i) ==
    {k \in DOMAIN deferred[i] :
        /\ Invokable(deferred[i][k].agent)
        /\ issue[i].gate # "held" \/ InteractionWake(deferred[i][k].wake)}

\* Deferred wakes before the promoted one could not be promoted and are closed.
PromoteDeferred(r, i, k) ==
    LET d == deferred[i][k]
    IN  /\ Room
        /\ Insert(QueuedRow(d.agent, i, d.wake))
        /\ lock' = [Unlocked(r) EXCEPT
                      ![i] = IF issue[i].assignee = d.agent THEN nRuns + 1 ELSE 0]
        /\ deferred' = [deferred EXCEPT ![i] = SubSeq(@, k + 1, Len(@))]
        /\ \E reopen \in BOOLEAN :
              /\ reopen => d.wake # "assigned" /\ issue[i].status = "done"
              /\ issue' = IF reopen THEN [issue EXCEPT ![i].status = "todo"] ELSE issue
        /\ Request({d.agent})

RecoveryReason(i) == IF issue[i].status = "todo" THEN "assignment_recovery"
                                                 ELSE "issue_continuation_needed"

NeedsImmediateRecovery(r, i, st) ==
    /\ issue[i].status \in {"todo", "in_progress"}
    /\ issue[i].assignee = run[r].agent
    /\ st \in {"failed", "cancelled"}
    /\ OnPath(i) \ {r} = {}
    /\ issue[i].gate = "open"

\* A recovery that already failed, or an agent that cannot run, blocks the issue.
RecoverIssue(r, i) ==
    LET a == run[r].agent
    IN  \/ /\ ~Invokable(a) \/ run[r].retryReason = RecoveryReason(i)
           /\ issue' = [issue EXCEPT ![i].status = "blocked"]
           /\ lock' = Unlocked(r)
           /\ UNCHANGED <<run, nRuns, startReq>>
        \/ /\ Invokable(a) /\ run[r].retryReason # RecoveryReason(i)
           /\ Room
           /\ Insert([QueuedRow(a, i, "assigned") EXCEPT
                        !.retryReason = RecoveryReason(i), !.retryOf = r])
           /\ lock' = [Unlocked(r) EXCEPT ![i] = nRuns + 1]
           /\ Request({a})
           /\ UNCHANGED issue

ReleaseIssueExecutionAndPromote(r, st) ==
    LET i == run[r].issue
    IN  \/ /\ i = NoIssue
           /\ UNCHANGED <<run, nRuns, lock, issue, deferred, startReq>>
        \/ /\ i # NoIssue
           /\ lock[i] \notin {0, r}
           /\ lock' = Unlocked(r)
           /\ UNCHANGED <<run, nRuns, issue, deferred, startReq>>
        \/ /\ i # NoIssue
           /\ lock[i] \in {0, r}
           /\ \E k \in Promotable(i) :
                 /\ \A k2 \in Promotable(i) : k <= k2
                 /\ PromoteDeferred(r, i, k)
        \/ /\ i # NoIssue
           /\ lock[i] \in {0, r}
           /\ Promotable(i) = {}
           /\ deferred' = [deferred EXCEPT ![i] = <<>>]
           /\ IF NeedsImmediateRecovery(r, i, st)
              THEN RecoverIssue(r, i)
              ELSE /\ lock' = Unlocked(r)
                   /\ UNCHANGED <<run, nRuns, issue, startReq>>

------------------------------------------------------------------------------
(* enqueueWakeup for an issue: one transaction on the issue's row.          *)

\* A queued holder of the lock whose issue now belongs to somebody else.
ReroutedHolder(i) == /\ lock[i] # 0
                     /\ run[lock[i]].status = "queued"
                     /\ run[lock[i]].agent # issue[i].assignee

RowsAfterReroute(i) ==
    IF ReroutedHolder(i) THEN [run EXCEPT ![lock[i]].status = "cancelled"] ELSE run

\* The run the wake meets: the lock's holder, else any run still on the path.
ActiveExecutionRun(i, rows) ==
    LET path == {r \in RunId : rows[r].status \in Path /\ rows[r].issue = i}
        older(r, q) == \/ (rows[r].status = "running" /\ rows[q].status = "queued")
                       \/ (rows[r].status = rows[q].status /\ r <= q)
    IN  IF lock[i] \in path THEN lock[i]
        ELSE IF path = {} THEN 0
        ELSE CHOOSE r \in path : \A q \in path : older(r, q)

\* executionAgentNameKey was read before the lock columns were repaired.
ExecutionAgent(i, active) == IF lock[i] # 0 THEN run[lock[i]].agent ELSE run[active].agent

Coalesces(a, i, w, active) ==
    /\ active # 0
    /\ ExecutionAgent(i, active) = a
    /\ run[active].status = "running" => w # "comment" /\ Tracked(active)

Defers(a, i, w, active) ==
    /\ active # 0
    /\ ~Coalesces(a, i, w, active)
    /\ ExecutionAgent(i, active) = a => run[active].status = "queued" \/ Tracked(active)

\* A wake joins the agent's parked one, or is parked behind the others.
ParkedBy(a, i) == {k \in DOMAIN deferred[i] : deferred[i][k].agent = a}
Joined(a, i, w) ==
    [k \in DOMAIN deferred[i] |->
        IF k \in ParkedBy(a, i) THEN [deferred[i][k] EXCEPT !.wake = MergeWake(@, w)]
                                ELSE deferred[i][k]]
DeferWake(a, i, w) ==
    deferred' = [deferred EXCEPT ![i] = IF ParkedBy(a, i) # {} THEN Joined(a, i, w)
                                        ELSE Append(@, [agent |-> a, wake |-> w])]

\* An assignment wakes the assignee, unless it was reassigned again meanwhile.
EnqueueWakeup(a, i, w) ==
    LET rows == RowsAfterReroute(i)
        active == ActiveExecutionRun(i, rows)
    IN  /\ w = "comment" => "comment" \in Disturbance
        /\ w = "assigned" => a = issue[i].assignee \/ "reassign" \in Disturbance
        /\ Invokable(a)
        /\ issue[i].gate = "held" => InteractionWake(w)
        /\ lock' = [lock EXCEPT ![i] = active]
        /\ \/ /\ active = 0 /\ issue[i].gate = "waiting" /\ ~InteractionWake(w)
              /\ run' = rows
              /\ UNCHANGED <<nRuns, deferred, startReq>>
           \/ /\ Coalesces(a, i, w, active)
              /\ run' = [rows EXCEPT ![active].wake = MergeWake(@, w)]
              /\ Request({a})
              /\ UNCHANGED <<nRuns, deferred>>
           \/ /\ Defers(a, i, w, active)
              /\ run' = rows
              /\ DeferWake(a, i, w)
              /\ UNCHANGED <<nRuns, startReq>>
           \/ /\ ~Coalesces(a, i, w, active) /\ ~Defers(a, i, w, active)
              /\ active = 0 => issue[i].gate # "waiting" \/ InteractionWake(w)
              /\ Room
              /\ run' = [rows EXCEPT ![nRuns + 1] = QueuedRow(a, i, w)]
              /\ nRuns' = nRuns + 1
              /\ Request({a})
              /\ UNCHANGED deferred
        /\ UNCHANGED <<issue, agentStatus, exec, alive, cancel, reaper, starter, outer,
                       crashes>>

\* A timer wake names no issue: it joins the agent's other issue-less run.
EnqueueTimerWakeup(a) ==
    /\ "timer" \in Disturbance
    /\ Invokable(a)
    /\ ~\E r \in RunId : /\ run[r].agent = a /\ run[r].issue = NoIssue
                         /\ run[r].status \in Path
                         /\ run[r].status = "running" => Tracked(r)
    /\ Room
    /\ Insert(QueuedRow(a, NoIssue, "assigned"))
    /\ Request({a})
    /\ UNCHANGED <<lock, issue, deferred, agentStatus, exec, alive, cancel, reaper,
                   starter, outer, crashes>>

------------------------------------------------------------------------------
(* startNextQueuedRunForAgent inside the global and the agent start lock.   *)

\* Mutant: agents left in "error" are not resumed.
ResumeIdleAgents ==
    /\ {a \in Agent : QueuedOf(a) # {} /\ agentStatus[a] = "idle"} \ startReq # {}
    /\ Request({a \in Agent : QueuedOf(a) # {} /\ agentStatus[a] = "idle"})
    /\ UNCHANGED <<run, nRuns, lock, issue, deferred, agentStatus, exec, alive, cancel,
                   reaper, starter, outer, crashes>>

\* resumeQueuedRuns: the periodic tick.
ResumeQueuedRuns ==
    /\ {a \in Agent : QueuedOf(a) # {}} \ startReq # {}
    /\ Request({a \in Agent : QueuedOf(a) # {}})
    /\ UNCHANGED <<run, nRuns, lock, issue, deferred, agentStatus, exec, alive, cancel,
                   reaper, starter, outer, crashes>>

Startable(a) == Invokable(a) /\ AvailableSlots(a) > 0 /\ QueuedOf(a) # {}

\* The holder is itself waiting for the lock, and waiters do not wait for ever.
Overtakable == LockMode = "takeover" /\ starter.pc = "nested"

\* Count, fix the number of slots, list the queued runs in their order.
StartBegin(a) ==
    /\ a \in startReq /\ Startable(a)
    /\ \/ /\ starter.agent = NoAgent
          /\ outer' = outer
       \/ /\ Overtakable
          /\ outer' = Append(outer, starter)
    /\ startReq' = startReq \ {a}
    /\ \E order \in [1..Cardinality(QueuedOf(a)) -> QueuedOf(a)] :
          /\ \A j, k \in DOMAIN order :
                j < k => order[j] # order[k] /\ Before(order[j], order[k])
          /\ starter' = [Idle EXCEPT !.agent = a, !.slots = AvailableSlots(a), !.todo = order]
    /\ UNCHANGED <<run, nRuns, lock, issue, deferred, agentStatus, exec, alive, cancel,
                   reaper, crashes>>

\* The holder's cancelRunInternal, its own start call included, has returned.
Resumed(holder) == IF cancel[holder.at] = "none" THEN [holder EXCEPT !.pc = "next"] ELSE holder

\* Nothing to start; a holder that waited for this very call goes on.  Whether
\* a paused agent's runs are first cancelled here (8933-8937) is decided outside
\* the repository; that cancellation is CancelActiveForAgent, without the locks.
StartNothing(a) ==
    /\ a \in startReq /\ ~Startable(a)
    /\ starter.agent = NoAgent \/ Overtakable
    /\ startReq' = startReq \ {a}
    /\ starter' = IF starter.agent = a THEN Resumed(starter) ELSE starter
    /\ UNCHANGED <<run, nRuns, lock, issue, deferred, agentStatus, exec, alive, cancel,
                   reaper, outer, crashes>>

Held(r) == LET i == run[r].issue
           IN  i # NoIssue /\ issue[i].gate = "held" /\ ~InteractionWake(run[r].wake)
Blocked(r) == LET i == run[r].issue
              IN  i # NoIssue /\ issue[i].gate = "waiting" /\ ~InteractionWake(run[r].wake)
Stale(r) ==
    LET i == run[r].issue
    IN  /\ i # NoIssue
        /\ \/ (issue[i].assignee # run[r].agent /\ ~InteractionWake(run[r].wake))
           \/ (issue[i].status = "done" /\ run[r].wake = "assigned")
Refused(r) == ~Invokable(run[r].agent) \/ Held(r)

\* Mutant: one run more than there are slots.
NextCandidateOneTooMany(r) ==
    /\ starter.agent # NoAgent /\ starter.pc = "next"
    /\ Cardinality(starter.claimed) <= starter.slots
    /\ starter.todo # <<>> /\ r = Head(starter.todo)

\* claimQueuedRun for the next run of the list: every gate is read before the
\* row is written.
NextCandidate(r) ==
    /\ starter.agent # NoAgent /\ starter.pc = "next"
    /\ Cardinality(starter.claimed) < starter.slots
    /\ starter.todo # <<>> /\ r = Head(starter.todo)

ClaimGates(r) ==
    /\ NextCandidate(r) /\ ~Refused(r)
    /\ starter' = [starter EXCEPT !.todo = Tail(@), !.at = r,
                     !.pc = IF Blocked(r) \/ Stale(r) THEN "drop" ELSE "claim"]
    /\ UNCHANGED <<run, nRuns, lock, issue, deferred, agentStatus, exec, alive, cancel,
                   reaper, outer, startReq, crashes>>

\* claimQueuedRun calls cancelRunInternal and awaits it, and that awaits
\* startNextQueuedRunForAgent, all inside the lock.
ClaimRefused(r) ==
    /\ NextCandidate(r) /\ Refused(r)
    /\ IF run[r].status \in Path
       THEN /\ cancel[r] = "none"
            /\ cancel' = [cancel EXCEPT ![r] = "kill"]
            /\ starter' = [starter EXCEPT !.todo = Tail(@), !.at = r, !.pc = "nested"]
       ELSE /\ starter' = [starter EXCEPT !.todo = Tail(@)]
            /\ UNCHANGED cancel
    /\ UNCHANGED <<run, nRuns, lock, issue, deferred, agentStatus, exec, alive, reaper,
                   outer, startReq, crashes>>

\* cancelQueuedRunForBlockedDependencies, cancelQueuedRunForStaleIssue: the run
\* is cancelled, then its lock dropped; deferred wakes are not looked at.
ClaimDropped ==
    /\ starter.pc = "drop"
    /\ run' = [run EXCEPT ![starter.at].status = "cancelled"]
    /\ starter' = [starter EXCEPT !.pc = "unlock"]
    /\ UNCHANGED <<nRuns, lock, issue, deferred, agentStatus, exec, alive, cancel, reaper,
                   outer, startReq, crashes>>

DropUnlocks ==
    /\ starter.pc = "unlock"
    /\ LET r == starter.at
       IN  lock' = [lock EXCEPT ![run[r].issue] = IF @ = r THEN 0 ELSE @]
    /\ starter' = [starter EXCEPT !.pc = "next"]
    /\ UNCHANGED <<run, nRuns, issue, deferred, agentStatus, exec, alive, cancel, reaper,
                   outer, startReq, crashes>>

\* Mutant: the UPDATE has no WHERE status = 'queued'.
ClaimAnyRun ==
    /\ starter.pc = "claim"
    /\ run' = [run EXCEPT ![starter.at].status = "running"]
    /\ exec' = [exec EXCEPT ![starter.at] = "claimed"]
    /\ starter' = [starter EXCEPT !.claimed = @ \cup {starter.at}, !.pc = "stamp"]
    /\ UNCHANGED <<nRuns, lock, issue, deferred, agentStatus, alive, cancel, reaper, outer,
                   startReq, crashes>>

\* UPDATE ... SET status = 'running' WHERE id = r AND status = 'queued'.
ClaimQueuedRun ==
    /\ starter.pc = "claim"
    /\ LET r == starter.at
       IN  IF run[r].status = "queued"
           THEN /\ run' = [run EXCEPT ![r].status = "running"]
                /\ exec' = [exec EXCEPT ![r] = "claimed"]
                /\ starter' = [starter EXCEPT !.claimed = @ \cup {r}, !.pc = "stamp"]
           ELSE /\ starter' = [starter EXCEPT !.pc = "next"]
                /\ UNCHANGED <<run, exec>>
    /\ UNCHANGED <<nRuns, lock, issue, deferred, agentStatus, alive, cancel, reaper, outer,
                   startReq, crashes>>

\* Lazy locking: the assignee's run takes a free execution lock.
StampLock ==
    /\ starter.pc = "stamp"
    /\ LET r == starter.at
           i == run[r].issue
       IN  lock' = IF /\ i # NoIssue
                      /\ issue[i].assignee = run[r].agent
                      /\ lock[i] \in {0, r}
                   THEN [lock EXCEPT ![i] = r] ELSE lock
    /\ starter' = [starter EXCEPT !.pc = "next"]
    /\ UNCHANGED <<run, nRuns, issue, deferred, agentStatus, exec, alive, cancel, reaper,
                   outer, startReq, crashes>>

\* The loop is over: launch what was claimed and leave the lock.
StartEnd ==
    /\ starter.agent # NoAgent /\ starter.pc = "next"
    /\ starter.todo = <<>> \/ Cardinality(starter.claimed) >= starter.slots
    /\ exec' = [r \in RunId |-> IF r \in starter.claimed THEN "launched" ELSE exec[r]]
    /\ IF outer = <<>>
       THEN starter' = Idle /\ outer' = outer
       ELSE LET back == outer[Len(outer)]
            IN  /\ starter' = IF back.agent = starter.agent /\ back.agent \notin startReq
                              THEN Resumed(back) ELSE back
                /\ outer' = SubSeq(outer, 1, Len(outer) - 1)
    /\ UNCHANGED <<run, nRuns, lock, issue, deferred, agentStatus, alive, cancel, reaper,
                   startReq, crashes>>

------------------------------------------------------------------------------
(* executeRun.                                                              *)

\* Up to the checkout of the issue; a run that left the path is not executed.
ExecEnter(r) ==
    /\ exec[r] = "launched"
    /\ IF run[r].status = "running"
       THEN /\ exec' = [exec EXCEPT ![r] = "setup"]
            /\ LET i == run[r].issue
               IN  issue' = IF /\ i # NoIssue
                               /\ issue[i].assignee = run[r].agent
                               /\ issue[i].gate # "waiting"
                               /\ issue[i].status \in {"todo", "blocked"}
                            THEN [issue EXCEPT ![i].status = "in_progress"] ELSE issue
       ELSE exec' = [exec EXCEPT ![r] = "none"] /\ UNCHANGED issue
    /\ UNCHANGED <<run, nRuns, lock, deferred, agentStatus, alive, cancel, reaper, starter,
                   outer, startReq, crashes>>

\* The agent's status is the only gate re-read before the child is spawned.
ExecSpawn(r) ==
    /\ exec[r] = "setup"
    /\ Invokable(run[r].agent)
    /\ agentStatus' = [agentStatus EXCEPT ![run[r].agent] = "running"]
    /\ alive' = [alive EXCEPT ![r] = TRUE]
    /\ run' = [run EXCEPT ![r].pid = TRUE]
    /\ exec' = [exec EXCEPT ![r] = "adapter"]
    /\ UNCHANGED <<nRuns, lock, issue, deferred, cancel, reaper, starter, outer, startReq,
                   crashes>>

ExecAbort(r) ==
    /\ exec[r] = "setup"
    /\ ~Invokable(run[r].agent)
    /\ run' = [run EXCEPT ![r].status = "cancelled"]
    /\ exec' = [exec EXCEPT ![r] = "aborted"]
    /\ UNCHANGED <<nRuns, lock, issue, deferred, agentStatus, alive, cancel, reaper,
                   starter, outer, startReq, crashes>>

\* Setup throws, or the adapter returns; a killed child is a failure.
ExecReturn(r) ==
    /\ \/ /\ exec[r] = "setup" /\ "fail" \in Disturbance
          /\ exec' = [exec EXCEPT ![r] = "err"]
       \/ /\ exec[r] = "adapter"
          /\ \E res \in {"ok", "err"} :
                /\ res = "ok" => alive[r]
                /\ res = "err" => ~alive[r] \/ "fail" \in Disturbance
                /\ exec' = [exec EXCEPT ![r] = res]
    /\ alive' = [alive EXCEPT ![r] = FALSE]
    /\ UNCHANGED <<run, nRuns, lock, issue, deferred, agentStatus, cancel, reaper, starter,
                   outer, startReq, crashes>>

\* Mutant: the success path does not release the issue.
ExecPersistUnreleased(r) ==
    /\ exec[r] \in {"ok", "err"}
    /\ IF run[r].status = "running"
       THEN /\ run' = [run EXCEPT ![r].status =
                          IF exec[r] = "ok" THEN "succeeded" ELSE "failed"]
            /\ exec' = [exec EXCEPT ![r] = IF @ = "ok" THEN "released_ok" ELSE "wrote_err"]
       ELSE exec' = [exec EXCEPT ![r] = "leaving"] /\ UNCHANGED run
    /\ UNCHANGED <<nRuns, lock, issue, deferred, agentStatus, alive, cancel, reaper,
                   starter, outer, startReq, crashes>>

\* setRunStatusIfRunning: a run that already left "running" keeps its status
\* and the executor goes straight to its finally block.
ExecPersist(r) ==
    /\ exec[r] \in {"ok", "err"}
    /\ IF run[r].status = "running"
       THEN /\ run' = [run EXCEPT ![r].status =
                          IF exec[r] = "ok" THEN "succeeded" ELSE "failed"]
            /\ exec' = [exec EXCEPT ![r] = IF @ = "ok" THEN "wrote_ok" ELSE "wrote_err"]
       ELSE /\ exec' = [exec EXCEPT ![r] = "leaving"]
            /\ UNCHANGED run
    /\ UNCHANGED <<nRuns, lock, issue, deferred, agentStatus, alive, cancel, reaper,
                   starter, outer, startReq, crashes>>

\* The row handed over after an abort still says "running".
ExecRelease(r) ==
    /\ exec[r] \in {"wrote_ok", "wrote_err", "aborted"}
    /\ ReleaseIssueExecutionAndPromote(r,
           CASE exec[r] = "wrote_ok" -> "succeeded"
             [] exec[r] = "wrote_err" -> "failed"
             [] exec[r] = "aborted" -> "running")
    /\ exec' = [exec EXCEPT ![r] =
           CASE @ = "wrote_ok" -> "released_ok"
             [] @ = "wrote_err" -> "released_err"
             [] @ = "aborted" -> "leaving"]
    /\ UNCHANGED <<agentStatus, alive, cancel, reaper, starter, outer, crashes>>

\* The release throws (no responsible user for the follow-up run): the catch
\* blocks find the run no longer running and return, except after a failed
\* setup, where the error is logged and the agent still finalized.
ExecReleaseThrows(r) ==
    /\ "release_error" \in Disturbance
    /\ exec[r] \in {"wrote_ok", "wrote_err"}
    /\ exec' = [exec EXCEPT ![r] =
                   IF @ = "wrote_err" /\ ~run[r].pid THEN "released_err" ELSE "leaving"]
    /\ UNCHANGED <<run, nRuns, lock, issue, deferred, agentStatus, alive, cancel, reaper,
                   starter, outer, startReq, crashes>>

ExecFinalize(r) ==
    /\ exec[r] \in {"released_ok", "released_err"}
    /\ exec' = [exec EXCEPT ![r] = FinalizeRead(run[r].agent,
                   IF @ = "released_ok" THEN "succeeded" ELSE "failed", "leaving")]
    /\ UNCHANGED <<run, nRuns, lock, issue, deferred, agentStatus, alive, cancel, reaper,
                   starter, outer, startReq, crashes>>

ExecFinalized(r) ==
    /\ exec[r] \in Finalizing
    /\ FinalizeWrite(run[r].agent, exec[r])
    /\ exec' = [exec EXCEPT ![r] = "leaving"]
    /\ UNCHANGED <<run, nRuns, lock, issue, deferred, alive, cancel, reaper, starter, outer,
                   startReq, crashes>>

\* finally: forget the run and start the same agent's next one.
ExecLeave(r) ==
    /\ exec[r] = "leaving"
    /\ exec' = [exec EXCEPT ![r] = "none"]
    /\ Request({run[r].agent})
    /\ UNCHANGED <<run, nRuns, lock, issue, deferred, agentStatus, alive, cancel, reaper,
                   starter, outer, crashes>>

------------------------------------------------------------------------------
(* Cancellation: cancelRunInternal kills first, then writes, whatever the   *)
(* status has become meanwhile; cancelActiveForAgentInternal writes first.  *)

\* Mutant: the row is written while the child is still alive.
CancelRunWithoutKill(r) ==
    /\ "cancel" \in Disturbance
    /\ run[r].status \in Path
    /\ cancel[r] = "none"
    /\ cancel' = [cancel EXCEPT ![r] = "write"]
    /\ UNCHANGED <<run, nRuns, lock, issue, deferred, agentStatus, exec, alive, reaper,
                   starter, outer, startReq, crashes>>

CancelRun(r) ==
    /\ "cancel" \in Disturbance
    /\ run[r].status \in Path
    /\ cancel[r] = "none"
    /\ cancel' = [cancel EXCEPT ![r] = "kill"]
    /\ UNCHANGED <<run, nRuns, lock, issue, deferred, agentStatus, exec, alive, reaper,
                   starter, outer, startReq, crashes>>

CancelActiveForAgent(a) ==
    /\ "cancel_active" \in Disturbance
    /\ LET hit == {r \in RunId : run[r].status \in Path /\ run[r].agent = a}
       IN  /\ hit # {}
           /\ \A r \in hit : cancel[r] = "none"
           /\ cancel' = [r \in RunId |-> IF r \in hit THEN "active_write" ELSE cancel[r]]
    /\ UNCHANGED <<run, nRuns, lock, issue, deferred, agentStatus, exec, alive, reaper,
                   starter, outer, startReq, crashes>>

CancelKill(r) ==
    /\ cancel[r] \in {"kill", "active_kill"}
    /\ alive' = [alive EXCEPT ![r] = FALSE]
    /\ cancel' = [cancel EXCEPT ![r] = IF @ = "kill" THEN "write" ELSE "active_release"]
    /\ UNCHANGED <<run, nRuns, lock, issue, deferred, agentStatus, exec, reaper, starter,
                   outer, startReq, crashes>>

\* One run of the agent at a time in cancelActiveForAgentInternal's loop.
CancelWrite(r) ==
    /\ \/ cancel[r] = "write"
       \/ /\ cancel[r] = "active_write"
          /\ \A q \in RunId : run[q].agent = run[r].agent =>
                cancel[q] \notin {"active_kill", "active_release"}
    /\ run' = [run EXCEPT ![r].status = "cancelled"]
    /\ cancel' = [cancel EXCEPT ![r] = IF @ = "write" THEN "release" ELSE "active_kill"]
    /\ UNCHANGED <<nRuns, lock, issue, deferred, agentStatus, exec, alive, reaper, starter,
                   outer, startReq, crashes>>

\* cancelActiveForAgentInternal releases with the row it read at the start.
CancelRelease(r) ==
    /\ cancel[r] \in {"release", "active_release"}
    /\ ReleaseIssueExecutionAndPromote(r,
           IF cancel[r] = "release" THEN "cancelled" ELSE "running")
    /\ cancel' = [cancel EXCEPT ![r] = IF @ = "release" THEN "finalize" ELSE "none"]
    /\ UNCHANGED <<agentStatus, exec, alive, reaper, starter, outer, crashes>>

CancelFinalize(r) ==
    /\ cancel[r] = "finalize"
    /\ cancel' = [cancel EXCEPT ![r] = FinalizeRead(run[r].agent, "cancelled", "start")]
    /\ UNCHANGED <<run, nRuns, lock, issue, deferred, agentStatus, exec, alive, reaper,
                   starter, outer, startReq, crashes>>

CancelFinalized(r) ==
    /\ cancel[r] \in Finalizing
    /\ FinalizeWrite(run[r].agent, cancel[r])
    /\ cancel' = [cancel EXCEPT ![r] = "start"]
    /\ UNCHANGED <<run, nRuns, lock, issue, deferred, exec, alive, reaper, starter, outer,
                   startReq, crashes>>

CancelStart(r) ==
    /\ cancel[r] = "start"
    /\ cancel' = [cancel EXCEPT ![r] = "none"]
    /\ Request({run[r].agent})
    /\ UNCHANGED <<run, nRuns, lock, issue, deferred, agentStatus, exec, alive, reaper,
                   starter, outer, crashes>>

------------------------------------------------------------------------------
(* reapOrphanedRuns: the running rows are listed once, then taken one by    *)
(* one; in between the loop awaits.                                         *)

\* Mutant: only rows with a recorded child are looked at.
ReapBeginWithChild ==
    /\ "reap" \in Disturbance
    /\ reaper = ResetReaper
    /\ LET stale == {r \in Running : exec[r] \notin {"claimed", "launched"} /\ run[r].pid}
       IN  stale # {} /\ reaper' = [reaper EXCEPT !.seen = stale, !.withPid = stale]
    /\ UNCHANGED <<run, nRuns, lock, issue, deferred, agentStatus, exec, alive, cancel,
                   starter, outer, startReq, crashes>>

\* Rows in their launch window are younger than the staleness threshold.
ReapBegin ==
    /\ "reap" \in Disturbance
    /\ reaper = ResetReaper
    /\ LET stale == {r \in Running : exec[r] \notin {"claimed", "launched"}}
       IN  /\ stale # {}
           /\ reaper' = [reaper EXCEPT !.seen = stale,
                                       !.withPid = {r \in stale : run[r].pid}]
    /\ UNCHANGED <<run, nRuns, lock, issue, deferred, agentStatus, exec, alive, cancel,
                   starter, outer, startReq, crashes>>

ReapTurn(r) == /\ reaper.pc = "idle"
               /\ r \in reaper.seen
               /\ \A q \in reaper.seen : r <= q

ReaperPast(r) == IF reaper.seen = {r} THEN ResetReaper ELSE [reaper EXCEPT !.seen = @ \ {r}]

ReapSkip(r) ==
    /\ ReapTurn(r)
    /\ Tracked(r)
    /\ reaper' = ReaperPast(r)
    /\ UNCHANGED <<run, nRuns, lock, issue, deferred, agentStatus, exec, alive, cancel,
                   starter, outer, startReq, crashes>>

\* The child outlived the server: setRunStatus(id, "running", detached), once.
ReapDetached(r) ==
    /\ ReapTurn(r)
    /\ ~Tracked(r) /\ alive[r]
    /\ run' = IF run[r].detached THEN run
              ELSE [run EXCEPT ![r].status = "running", ![r].detached = TRUE]
    /\ reaper' = ReaperPast(r)
    /\ UNCHANGED <<nRuns, lock, issue, deferred, agentStatus, exec, alive, cancel, starter,
                   outer, startReq, crashes>>

\* setRunStatus(id, "failed", process_lost), whatever the status is by now.
ReapLost(r) ==
    /\ ReapTurn(r)
    /\ ~Tracked(r) /\ ~alive[r]
    /\ run' = [run EXCEPT ![r].status = "failed"]
    /\ reaper' = [reaper EXCEPT !.seen = @ \ {r}, !.at = r, !.pc = "retry"]
    /\ UNCHANGED <<nRuns, lock, issue, deferred, agentStatus, exec, alive, cancel, starter,
                   outer, startReq, crashes>>

\* Judged by the row as it was listed.
ShouldRetry(r) == run[r].loss = 0 /\ r \in reaper.withPid
RetriesOf(r) == {q \in RunId : run[q].status # "absent" /\ run[q].retryOf = r}

\* Mutant: the issue is released although a retry was queued.
ReapRetryThenRelease(r) ==
    /\ reaper.pc = "retry" /\ reaper.at = r
    /\ ShouldRetry(r) /\ RetriesOf(r) = {} /\ Invokable(run[r].agent)
    /\ Room
    /\ Insert([QueuedRow(run[r].agent, run[r].issue, run[r].wake)
                 EXCEPT !.retryReason = "process_lost", !.loss = 1, !.retryOf = r])
    /\ lock' = [i \in Issue |-> IF lock[i] = r THEN nRuns + 1 ELSE lock[i]]
    /\ reaper' = [reaper EXCEPT !.pc = "again"]
    /\ UNCHANGED <<issue, deferred, agentStatus, exec, alive, cancel, starter, outer,
                   startReq, crashes>>

\* enqueueProcessLossRetry, when the agent can run: the retry inherits the
\* wake's context and the lock.
ReapRetry(r) ==
    /\ reaper.pc = "retry" /\ reaper.at = r
    /\ ShouldRetry(r) /\ RetriesOf(r) = {} /\ Invokable(run[r].agent)
    /\ Room
    /\ Insert([QueuedRow(run[r].agent, run[r].issue, MergeWake(run[r].wake, "assigned"))
                 EXCEPT !.retryReason = "process_lost", !.loss = 1, !.retryOf = r])
    /\ lock' = [i \in Issue |->
                  IF i = run[r].issue /\ lock[i] = r THEN nRuns + 1 ELSE lock[i]]
    /\ reaper' = [reaper EXCEPT !.pc = "finalize"]
    /\ UNCHANGED <<issue, deferred, agentStatus, exec, alive, cancel, starter, outer,
                   startReq, crashes>>

ReapRetryExists(r) ==
    /\ reaper.pc = "retry" /\ reaper.at = r
    /\ ShouldRetry(r) /\ RetriesOf(r) # {}
    /\ reaper' = [reaper EXCEPT !.pc = "finalize"]
    /\ UNCHANGED <<run, nRuns, lock, issue, deferred, agentStatus, exec, alive, cancel,
                   starter, outer, startReq, crashes>>

\* Without a retry the issue is released; twice when the retry was refused
\* because the agent cannot run (once by enqueueProcessLossRetry itself).
ReapRelease(r) ==
    /\ reaper.at = r
    /\ \/ /\ reaper.pc = "retry"
          /\ ~ShouldRetry(r) \/ (RetriesOf(r) = {} /\ ~Invokable(run[r].agent))
       \/ reaper.pc = "again"
    /\ ReleaseIssueExecutionAndPromote(r, "failed")
    /\ reaper' = [reaper EXCEPT !.pc =
                    IF @ = "retry" /\ ShouldRetry(r) THEN "again" ELSE "finalize"]
    /\ UNCHANGED <<agentStatus, exec, alive, cancel, starter, outer, crashes>>

ReapFinalize(r) ==
    /\ reaper.pc = "finalize" /\ reaper.at = r
    /\ reaper' = [reaper EXCEPT !.pc = FinalizeRead(run[r].agent, "failed", "start")]
    /\ UNCHANGED <<run, nRuns, lock, issue, deferred, agentStatus, exec, alive, cancel,
                   starter, outer, startReq, crashes>>

ReapFinalized(r) ==
    /\ reaper.pc \in Finalizing /\ reaper.at = r
    /\ FinalizeWrite(run[r].agent, reaper.pc)
    /\ reaper' = [reaper EXCEPT !.pc = "start"]
    /\ UNCHANGED <<run, nRuns, lock, issue, deferred, exec, alive, cancel, starter, outer,
                   startReq, crashes>>

ReapStart(r) ==
    /\ reaper.pc = "start" /\ reaper.at = r
    /\ Request({run[r].agent})
    /\ reaper' = IF reaper.seen = {} THEN ResetReaper
                 ELSE [reaper EXCEPT !.at = 0, !.pc = "idle"]
    /\ UNCHANGED <<run, nRuns, lock, issue, deferred, agentStatus, exec, alive, cancel,
                   starter, outer, crashes>>

------------------------------------------------------------------------------
(* The outside: operators, agents' own API calls, and the machine.          *)

\* PATCH /agents: pausing does not go through the scheduler.
PauseAgent(a) ==
    /\ "pause" \in Disturbance
    /\ agentStatus' = [agentStatus EXCEPT ![a] = IF @ = "paused" THEN "idle" ELSE "paused"]
    /\ UNCHANGED <<run, nRuns, lock, issue, deferred, exec, alive, cancel, reaper, starter,
                   outer, startReq, crashes>>

ReassignIssue(i, a) ==
    /\ "reassign" \in Disturbance
    /\ issue[i].assignee # a
    /\ issue' = [issue EXCEPT ![i].assignee = a]
    /\ UNCHANGED <<run, nRuns, lock, deferred, agentStatus, exec, alive, cancel, reaper,
                   starter, outer, startReq, crashes>>

\* A subtree pause hold, or a dependency, comes or goes.
GateIssue(i, g) ==
    /\ "gate" \in Disturbance
    /\ issue[i].gate # g
    /\ issue' = [issue EXCEPT ![i].gate = g]
    /\ UNCHANGED <<run, nRuns, lock, deferred, agentStatus, exec, alive, cancel, reaper,
                   starter, outer, startReq, crashes>>

\* The running agent closes its issue.
CompleteIssue(r) ==
    /\ "done" \in Disturbance
    /\ exec[r] = "adapter" /\ alive[r]
    /\ run[r].issue # NoIssue
    /\ issue[run[r].issue].status # "done"
    /\ issue' = [issue EXCEPT ![run[r].issue].status = "done"]
    /\ UNCHANGED <<run, nRuns, lock, deferred, agentStatus, exec, alive, cancel, reaper,
                   starter, outer, startReq, crashes>>

\* Everything in memory is gone; children may outlive the server.
Crash ==
    /\ "crash" \in Disturbance
    /\ crashes < MaxCrashes
    /\ crashes' = crashes + 1
    /\ exec' = [r \in RunId |-> "none"]
    /\ cancel' = [r \in RunId |-> "none"]
    /\ reaper' = ResetReaper
    /\ starter' = Idle
    /\ outer' = <<>>
    /\ startReq' = {}
    /\ \E survivors \in SUBSET {r \in RunId : alive[r]} :
          alive' = [r \in RunId |-> r \in survivors]
    /\ UNCHANGED <<run, nRuns, lock, issue, deferred, agentStatus>>

OrphanExits(r) ==
    /\ exec[r] = "none" /\ alive[r]
    /\ alive' = [alive EXCEPT ![r] = FALSE]
    /\ UNCHANGED <<run, nRuns, lock, issue, deferred, agentStatus, exec, cancel, reaper,
                   starter, outer, startReq, crashes>>

------------------------------------------------------------------------------
Init ==
    /\ run = [r \in RunId |-> AbsentRow]
    /\ nRuns = 0
    /\ lock = [i \in Issue |-> 0]
    /\ \E owner \in [Issue -> Agent] :
          issue = [i \in Issue |-> [status |-> "todo", assignee |-> owner[i],
                                    gate |-> "open"]]
    /\ deferred = [i \in Issue |-> <<>>]
    /\ agentStatus = [a \in Agent |-> "idle"]
    /\ exec = [r \in RunId |-> "none"]
    /\ alive = [r \in RunId |-> FALSE]
    /\ cancel = [r \in RunId |-> "none"]
    /\ reaper = ResetReaper
    /\ starter = Idle
    /\ outer = <<>>
    /\ startReq = {}
    /\ crashes = 0

Wakes == \/ \E a \in Agent, i \in Issue, w \in {"assigned", "comment"} : EnqueueWakeup(a, i, w)
         \/ \E a \in Agent : EnqueueTimerWakeup(a)

Starts == \/ ResumeQueuedRuns
          \/ \E a \in Agent : StartBegin(a) \/ StartNothing(a)
          \/ \E r \in RunId : ClaimGates(r) \/ ClaimRefused(r)
          \/ ClaimDropped \/ DropUnlocks \/ ClaimQueuedRun \/ StampLock
          \/ StartEnd

Executes(r) == \/ ExecEnter(r) \/ ExecSpawn(r) \/ ExecAbort(r) \/ ExecReturn(r)
               \/ ExecPersist(r) \/ ExecRelease(r) \/ ExecReleaseThrows(r)
               \/ ExecFinalize(r) \/ ExecFinalized(r) \/ ExecLeave(r)

Cancels(r) == \/ CancelKill(r) \/ CancelWrite(r) \/ CancelRelease(r) \/ CancelFinalize(r)
              \/ CancelFinalized(r) \/ CancelStart(r)

Reaps == \/ ReapBegin
         \/ \E r \in RunId : \/ ReapSkip(r) \/ ReapDetached(r) \/ ReapLost(r) \/ ReapRetry(r)
                             \/ ReapRetryExists(r) \/ ReapRelease(r) \/ ReapFinalize(r)
                             \/ ReapFinalized(r) \/ ReapStart(r)

Outside == \/ \E r \in RunId : CancelRun(r) \/ CompleteIssue(r) \/ OrphanExits(r)
           \/ \E a \in Agent : CancelActiveForAgent(a) \/ PauseAgent(a)
           \/ \E i \in Issue, a \in Agent : ReassignIssue(i, a)
           \/ \E i \in Issue, g \in {"open", "held", "waiting"} : GateIssue(i, g)
           \/ Crash

Next == \/ Wakes \/ Starts \/ Reaps \/ Outside
        \/ \E r \in RunId : Executes(r) \/ Cancels(r)

Spec == Init /\ [][Next]_vars

------------------------------------------------------------------------------
(* Fairness.  Lock waiters queue first come first served, so a start call   *)
(* that can get the lock again and again gets it; everything else is the    *)
(* event loop running what is ready, and the two periodic ticks             *)
(* (resumeQueuedRuns, reapOrphanedRuns).  Adapters and orphaned children    *)
(* end by themselves: both have a time limit.                               *)

Fairness ==
    /\ WF_vars(ResumeQueuedRuns)
    /\ \A a \in Agent : SF_vars(StartBegin(a) \/ StartNothing(a))
    /\ WF_vars(\E r \in RunId : ClaimGates(r) \/ ClaimRefused(r))
    /\ WF_vars(ClaimDropped \/ DropUnlocks \/ ClaimQueuedRun \/ StampLock \/ StartEnd)
    /\ \A r \in RunId : WF_vars(Executes(r)) /\ WF_vars(Cancels(r)) /\ WF_vars(OrphanExits(r))
    /\ WF_vars(Reaps)

FairSpec == Spec /\ Fairness

------------------------------------------------------------------------------
(* Properties.                                                             *)

\* Never more rows "running" than the VM-wide cap, nor than the agent's own:
\* what startNextQueuedRunForAgent counts, claims and releases amounts to this
\* whatever cancels, crashes and reaps in between.
AdmissionCap == /\ Cardinality(Running) <= GlobalMax
                /\ \A a \in Agent : Cardinality(RunningOf(a)) <= AgentMax

\* The argument behind it: the slots an activation fixed at its start and has
\* not used are still free while it holds the lock.
Left == starter.slots - Cardinality(starter.claimed)
SlotsCovered ==
    starter.agent # NoAgent =>
        /\ Left >= 0
        /\ Cardinality(Running) + Left <= GlobalMax
        /\ Cardinality(RunningOf(starter.agent)) + Left <= AgentMax

\* A run the reaper listed, that no executor owns and whose child lives, is
\* still running: marking it detached brings no ended run back.
SeenOrphanRuns ==
    \A r \in reaper.seen : alive[r] /\ exec[r] = "none" => run[r].status = "running"

\* The scheduler as a whole does no more than RunAdmission allows: rows are
\* submitted once, admitted once and within the caps, and never come back.
Admission == INSTANCE RunAdmission WITH
    Run <- RunId,
    state <- [r \in RunId |-> IF run[r].status \in Terminal THEN "ended" ELSE run[r].status],
    owner <- [r \in RunId |-> run[r].agent]
ImplementsAdmission == Admission!Spec

\* A row is executed at most once: no two start activations both get its child
\* spawned, not even when one overtakes the other inside the lock.
SpawnOnce == [][\A r \in RunId : ~alive[r] /\ alive'[r] => ~run[r].pid]_vars

\* Somebody is between ending a run of the issue and releasing the issue.
Releasing(i) ==
    \E r \in RunId :
        /\ run[r].issue = i
        /\ \/ exec[r] \in {"wrote_ok", "wrote_err", "aborted"}
           \/ cancel[r] \in {"kill", "write", "release",
                             "active_write", "active_kill", "active_release"}
           \/ reaper.at = r /\ reaper.pc \in {"retry", "again"}
           \/ starter.at = r /\ starter.pc = "unlock"

\* An execution lock belongs to a run that is queued or running, or somebody
\* is about to release it (the comment at heartbeat.js:11341-11353 tells what a
\* lock left behind costs: checkouts fail with 409, the issue stays blocked).
LockHasOwner ==
    \A i \in Issue : lock[i] # 0 => run[lock[i]].status \in Path \/ Releasing(i)

\* A parked wake-up waits for something: a run of the issue that is still to
\* end, or a release under way.  Otherwise it waits "forever", in the words of
\* the comment at heartbeat.js:12388-12394.
DeferredHasPath ==
    \A i \in Issue : deferred[i] # <<>> => OnPath(i) # {} \/ Releasing(i)

\* Restarts alone never give a lost run two successors: the process-loss retry
\* of the reaper and the automatic recovery of the release do not both follow
\* the same run, wherever the server crashes.
OneSuccessor == \A r \in RunId : Cardinality(RetriesOf(r)) <= 1

\* Every queued run is claimed or dropped in the end, also when the slot it
\* waits for is freed by another agent's run.
QueuedLeaves == \A r \in RunId : run[r].status = "queued" ~> run[r].status # "queued"

\* Every running row ends, whatever crashes: the executor ends it, or the
\* reaper does once nothing owns it.  (A reaper that cannot insert its retry
\* because the bound is reached waits for ever; hence the disjunct.)
RunningEnds ==
    \A r \in RunId : run[r].status = "running" ~> run[r].status \in Terminal \/ ~Room

\* A parked follow-up is promoted or closed in the end.
DeferredServed == \A i \in Issue : deferred[i] # <<>> ~> deferred[i] = <<>> \/ ~Room

------------------------------------------------------------------------------
(* What the repository says and the code does not do.                      *)

\* docs/core-role-activation.md:34-35: "the appliance admits at most two Hermes
\* runs across the VM".  Counted in adapter processes.
AdapterCap == Cardinality({r \in RunId : alive[r]}) <= GlobalMax

\* heartbeat.js:12237-12239: "a second agent cannot start on the same issue
\* workspace while the assignee already has a live run".
OneAgentPerIssue ==
    \A r, q \in Running :
        run[r].issue = run[q].issue /\ run[r].issue # NoIssue => run[r].agent = run[q].agent

\* heartbeat.js:10239-10240, "Pause Durability": only the operator ends a pause.
PauseDurable ==
    [][\A a \in Agent : agentStatus[a] = "paused" =>
           agentStatus'[a] = "paused" \/ PauseAgent(a)]_vars
=============================================================================
