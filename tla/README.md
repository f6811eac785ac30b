# Verification of the Paperclip/Hermes appliance

This directory holds TLA+ specifications of the code in this repository, the TLC
configurations that model-check them on small instances, and theorems about them
that TLAPS checks. Everything is translated from the source; the line numbers
below are those of the files under `src/`. `heartbeat.js` stands for
`src/overlays/paperclip/node_modules/@paperclipai/server/dist/services/heartbeat.js`.

`PROJECT.json` lists, for every definition, the lines it stands for (`map`), the
runs, the mutants that show each property can fail, the hazards and the findings.

## 1. Inventory

The repository builds one virtual machine: a Paperclip server that hands work to
Hermes agents, each agent run being a child process with its tools in a Docker
container, and the shell scripts that install, operate, back up and stop it all.

| component | state it keeps | operations |
|---|---|---|
| **Heartbeat run scheduler** (`heartbeat.js`) | rows of `heartbeat_runs`, `issues.executionRunId` (the issue's lock), parked wake-ups, `agents.status`; in memory `activeRunExecutions`, `runningProcesses`, the start locks | enqueueWakeup, startNextQueuedRunForAgent, claimQueuedRun, executeRun, releaseIssueExecutionAndPromote, cancelRun, cancelActiveForAgent, reapOrphanedRuns, resumeQueuedRuns |
| **Core role transition** (`scripts/core-role-transition`) | status file, core and legacy ids, identity map, reconcile snapshot, agents' statuses, ERR/signal traps | activate, reconcile, rollback, status |
| **Emergency control** (`files/ops/paperclip-emergency-control`) | `state.json` (armed, agents and their previous status) | stop, resume, status |
| **Tool execution and interrupts** (`agent/tool_executor.py`, `run_agent.py`) | results, futures, `_tool_worker_threads`, interrupt flag and per-thread bits, `_pending_steer` | concurrent, sequential and segmented execution, interrupt, clear_interrupt, steer |
| **Session store** (`run_agent.py`) | the live message list, `_db_persisted` markers, rows, JSON snapshot, `_session_persist_lock` | _persist_session, _flush_messages_to_session_db, _save_session_log, rewind of scaffolding |
| **Model calls** (`run_agent.py`) | `_client_kwargs`, shared and request clients, stream writer token, streamed text | ensure, replace, refresh, swap, abort, claim, deliver |
| **Delegation** (`tools/delegate_tool.py`) | `_active_children`, the registry and leases, `_last_resolved_tool_names`, futures | delegate_task, _run_single_child, time limit, interrupt, background batch |
| **File tools** (`tools/file_tools.py`) | read tracker: dedup, hit counters, stamps; path locks; sandboxes per task | read, write, patch, search, cache resets, _get_file_ops |
| **Tool containers** (`tools/environments/docker.py`) | container id, labels, session snapshot, cleanup thread | create or reuse, execute with recovery, kill, cleanup, orphan reaping |
| **Web tools** (`tools/web_tools.py`) | clients made once | search, extract, crawl by a configured provider |
| **Hermes adapter** (`hermes-paperclip-adapter/.../execute.js`) | none | builds a prompt and a command, runs one child |
| **Run configuration fingerprints** | none | a pure function of the configuration |
| **Bootstrap, initialization, overlays** (`bootstrap.sh`, `scripts/initialize-*`, `scripts/apply-overlays`, ...) | installed files, markers | sequential, partly resumable steps |
| **Backup and off-site sync** (`files/ops/paperclip-backup.sh`, `-offsite-sync.sh`) | encrypted artefacts, off-host copies, key escrow, `last-success.json` | backup, verify, sync, retention |
| **Network policy** (`files/ops/paperclip-network-*`) | two iptables chains and their hooks | apply, reapply after Tailscale, verify |
| **Agency OS activation and acceptance**, **operator clients** (`files/ops/*`) | none of their own | HTTP calls, probes, reports |

**How they interact.** The scheduler is the hub. Issues, comments, timers and the
recovery code call `enqueueWakeup`; the event loop of one Node process runs all
its handlers interleaved at every `await`, over one PostgreSQL database. It calls
the adapter, which runs a Hermes child; the child calls back over HTTP and closes
or comments on issues. The core role transition and the emergency control are
clients of the same API: they pause agents with PATCH (which does not go through
the scheduler), read live runs and cancel them. Bootstrap and activation run
before the server has work. Backup reads the database and the state directory
beside it, and the off-site sync reads what the backup writes. Tool containers
outlive the child that created them.

Inside a Hermes child, the conversation loop (not in the repository) calls the model
through the clients of `run_agent.py`, executes what it asks for through the tool
executor, and persists each message. The executor's workers call the file tools, which
share one container per task and the tracker and locks of all agents of the process,
and `delegate_task`, whose children are agents of the same process with executors and
sessions of their own. Interrupts travel the other way: to the thread, its workers, and
the lists of children.

**What is hard.**

* Interleaving at `await`. A claim reads six gates one by one; the slots it may
  use were counted before; the lock is stamped in a later statement; the executor
  awaits dozens of times between the claim and the child. Cancels, pauses,
  reassignments and the reaper fit in each of these gaps.
* Writes without a condition. `setRunStatus` (5569-5598) overwrites whatever status
  is there; only `executeRun` and the claim use conditional updates.
* Rows, executors and processes are three separate things. A crash loses the
  executors, keeps the rows and perhaps the processes; a cancel ends the row first
  or the process first, depending on which of two functions is called.
* Liveness by hand-over. A parked wake-up depends on the release of one particular
  run; a freed slot is offered to one agent only.
* Threads in one Python process. A batch waits for workers that may hang, an interrupt
  copies sets while threads join and leave them, thread ids are used again, clients are
  closed by whoever replaces them, and abandoned threads run on beside their successors.
* Containers that other processes, an idle sweep and a reaper stop and remove between
  any two docker calls.
* Scripts with traps: a signal between two writes, an activation killed and rolled
  back, a stop that fails after it armed itself.

**What makes each component correct.**

| component | properties |
|---|---|
| scheduler | the caps hold; nothing is admitted twice or brought back; the lock belongs to somebody; a parked wake is served; a queued run leaves the queue; a lost run ends and has one successor; one agent at a time works on an issue |
| core role transition | after any interruption and a rerun the agents are either all legacy or all core; a rollback restores exactly the statuses the activation found; no cutover while runs are live |
| emergency control | after a stop no run starts; a stop that failed can be completed; a resume restores exactly what the stop paused |
| tool execution | one answer per call, in order; "no effect" only of what never ran; an interrupt reaches every worker; a steer arrives once; a batch is always left |
| session store | rows in order, none twice, none lost; a mark means a row |
| model calls | nobody but its thread closes the connection of a request's client; no client is lost; a superseded stream falls silent; an aborted one ends |
| delegation | one entry per task; a call that returns; children said to be interrupted were; a batch in the background is left alone; tool names restored |
| file tools | "unchanged" only of what was shown; a change after somebody else's is announced; no edit is lost; no deadlock |
| tool containers | one sandbox per task is made at a time (the code keeps this for first constructions, not for recoveries); no command is started twice; an interrupted command stops; nothing in use is removed |
| backup | what is published can be verified; the sync converges |
| network policy | no packet of the subnet reaches a forbidden network, also while the policy is reapplied |

## 2. Plan

Most important first. Every module takes its parameters as CONSTANTS with named
assumptions, has one action per operation or await-delimited section, states its
invariants as conjunctions of named parts and declares no RECURSIVE operator.

| step | module | what for | state |
|---|---|---|---|
| 1 | `HeartbeatRuns` | the scheduler: wake, claim, execute, release, cancel, reap, crash | done |
| 2 | `RunAdmission` | what the scheduler promises about admission, refined by 1 | done |
| 3 | `HeartbeatRunsProofs`, `RunAdmissionProofs` | the caps and the refinement for all constants | done |
| 4 | `ToolBatch`, `SessionStore`, `ModelCall` | the threads of one agent: tools, interrupts, the store, the model's clients | done |
| 5 | `FileTools`, `ToolContainers`, `Delegation` | what several agents of one process share | done |
| 6 | `ToolContainersProofs`, `ModelCallProofs`, `ToolBatchProofs`, `SessionStoreProofs`, `DelegationProofs`, `FileToolsProofs` | their safety for all constants | done |
| 7 | `HeartbeatRestarts` | hot restart, graceful drain (6571-6893), scheduled and transient retries and their promotion (6896-7950): its own module over the same row type | planned |
| 8 | `CoreRoleTransition` | activate, reconcile, rollback with failing calls, signals and SIGKILL; abstract specification: legacy or core, never mixed, once quiet | planned |
| 9 | `EmergencyControl` | stop and resume over an abstract scheduler that promotes what a cancel releases | planned |
| 10 | `BackupOffsite`, `NetworkPolicy` | backup and sync as two processes, with crashes; chains as sequences, first match | planned |

Further theorems worth proving: for step 8, that every script's end state is one the
abstract specification allows; and whether `cancel_active` can give a run two successors,
which is open (section 5).

## 3. What is modelled

### HeartbeatRuns

| variable | in the code |
|---|---|
| `run`, `nRuns` | `heartbeat_runs` in creation order: status, agent, issue, `wake` (what of the context snapshot the claim looks at: an assignment, an interaction, or an interaction whose wake reason was overwritten), `retryReason`, `loss` (processLossRetryCount), `retryOf`, `pid` (a child was recorded), `detached` |
| `lock` | `issues.executionRunId` |
| `issue` | status, assignee, and `gate`: open, held by a subtree pause hold, or waiting for a blocker |
| `deferred` | wake-up requests with status `deferred_issue_execution`, oldest first |
| `agentStatus` | `agents.status` |
| `exec` | how far `executeRun` of the run has come; `none` also after a crash |
| `alive` | the adapter's child process exists |
| `cancel` | how far a cancellation of the run has come |
| `reaper` | the rows one sweep listed, which of them had a pid then, and how far it is |
| `starter`, `outer`, `startReq` | the activation of `startNextQueuedRunForAgent` inside the start locks, those it overtook, and the agents whose calls wait |
| `crashes` | counts crashes up to the bound |

One step is what happens between two awaits that matter: everything a transaction
does is one step, and read-then-write sequences are two.

* *Wake-ups* (`EnqueueWakeup`, 11971-12893): the transaction on the issue cancels a
  queued holder of a reassigned issue, looks for the run the wake meets (the lock's
  holder or else a run still on the path, which is stamped into the lock), and merges
  the wake into that run, parks it, drops it or queues a run. A claimed run that has
  not entered `executeRun` looks like a zombie here, as in the code.
  `EnqueueTimerWakeup` is the branch without an issue.
* *Starts* (8924-9004, 8100-8441): `StartBegin` counts slots and lists queued runs in
  the code's order; for each, `ClaimGates` reads the gates and `ClaimQueuedRun`
  updates the row if it is still queued; `StampLock` is the statement after it.
  A refused run goes through `cancelRunInternal` *inside* the locks
  (`ClaimRefused`), a stale or blocked one is cancelled and then unlocked in two
  steps (`ClaimDropped`, `DropUnlocks`). `StartEnd` launches the executors.
* *Execution* (9005-11298): `ExecEnter` up to the checkout, `ExecSpawn` or
  `ExecAbort`, `ExecReturn`, `ExecPersist` (only over `running`), `ExecRelease` or
  `ExecReleaseThrows`, `ExecFinalize`/`ExecFinalized` (finalizeAgentStatus as a read
  and a later write) and `ExecLeave` (the finally block).
* *Release* (11329-11970): one transaction: leave a foreign lock alone, promote the
  first promotable parked wake, or else close what is parked and, for a failed or
  cancelled run of an issue with no other run, queue the automatic recovery or block
  the issue.
* *Cancels* (13084-13187): `cancelRunInternal` kills, writes, releases, finalizes,
  starts; `cancelActiveForAgentInternal` writes, kills, releases, run by run.
* *Reaper* (8648-8821, 6429-6560): lists running rows once, then skips, detaches, or
  fails each, with the process-loss retry or the release (twice when the retry is
  refused), finalization and a start call.
* *Outside* (external): pauses, reassignments, gates, completions, crashes that let
  any set of children survive, and orphans that exit. `Disturbance` says which
  interventions a run enables, so that each question can be asked in a state space
  TLC exhausts.

`agent-start-lock.js` is not in the repository. From its use (8928) its locks are
mutual exclusion around the callback; whether a waiter may go on beside a holder
that itself waits cannot be seen, so `LockMode` has both readings: `exclusive` and
`takeover`.

### RunAdmission

What the scheduler owes its callers, without any mechanism: a run is submitted once
with an owner, admitted once while both caps have room, and ends; it never comes
back. `HeartbeatRuns` implements it with `state` read off the rows' statuses.

### ToolBatch

One turn's tool calls and the thread that interrupts or steers meanwhile. The constant
`Turns` is the planner's output (external): segments, parallel or sequential.

| variable | in the code |
|---|---|
| `pc`, `turn`, `seg`, `left` | the agent's own thread in `execute_tool_calls_*` |
| `worker`, `tid`, `result`, `timedOut` | futures, their threads, `results`, `timed_out_indices` |
| `tracked`, `bits`, `requested` | `_tool_worker_threads`, `_interrupted_threads`, `_interrupt_requested` |
| `ipc`, `snap`, `mfan` | interrupt() between its flag, its copy of the tids and its signals; the same copy at the deadline |
| `pendingSteer`, `dropped`, `messages` | steers accepted, discarded, delivered; tool messages with the row saved of each |
| `invoked` | history: tools that ever began |

`PreflightSkip`, `Submit` (rejections, and a pool that refuses), `WaitDone`,
`WaitDeadline`/`DeadlineSignal`, `WaitInterrupt`, `Collect` are the parallel path of
the agent's thread; `WorkerPick` (the pool takes a future, which can no longer be
cancelled), `WorkerRegister`, `WorkerStart`, `WorkerReturn` or
`WorkerKeyboard`, `WorkerUnregister`, `WorkerClear` the six steps of a worker; `Seq*` the
sequential path; `Finalize`, `ClearFlag`, `ClearBits` the end of the turn;
`InterruptFlag`, `InterruptSnapshot`, `InterruptSignal` and `Steer` the other thread.
The interrupt() that a `KeyboardInterrupt` triggers on a worker is one step; one that is
raised in the agent's own thread while it waits (752-753, 869-878) is not modelled. The
code's answer for a call whose worker left no result (`thread_missing_result`) is in
`CollectedKind`, and never given: every way a worker ends leaves one.

### SessionStore

A message is the number of its creation; `marked` is the set whose dict has
`_db_persisted`, `log` the set the last JSON snapshot shows. The turn's thread and the closing thread each go through `Acquire`,
the passes of the rewind (`DropTest` looks at the last message, `DropPop` pops the one that is last by then; a
flagged message opens the way to tool results and their call), `PersistLog`, then message by message `FlushSkip`, `FlushTest`, `FlushAppend`, `FlushMark`,
and `FlushDone` or `FlushFails`; `Crash` loses the list and the markers and resumes from the
rows. `history` is the caller's `conversation_history`, whose members are stamped without
a row being written. The ids a caller may seed for the flush (1890-1904) are empty: nothing in the
repository fills them.

### ModelCall

`wire` says whose client it is: OpenAI's, `moa`, or Anthropic's. `cl` is every client ever built
with the generation of its key and base URL (`kwargs`); `client` the shared one, `lock`
`_openai_client_lock`; `main` the thread that starts attempts, watches them, aborts and refreshes; `w` the
attempts' threads. An attempt ensures the shared client (`Ensure`, `Recreate`, `CloseOld`) or, on
Anthropic's wire, refreshes it (`Refresh`, `Rebuild`, `Rekey`); builds a client of its own (`Build`) or is
lent the shared one (`Borrow`: with moa, 4257-4260, or for a direct Anthropic call, 4831-4846);
then `Connect`, `Claim`, `Chunk`, `Deliver`, `Note`, `AppendText`, `StreamEnds` and `CloseRequest`.

An abort (`Abort`) shuts the connections the attempt's client has at that moment. With no client yet, no
connection, or a shutdown that raises it does nothing, the attempt goes on by itself, and the main
thread goes on beside it: the credentials (`SetKey`, `SetBase` in two steps, without the lock), the
replacement of the shared client (`Replace`, `Make`, `CloseReplaced`) or its exchange on Anthropic's wire
(`CloseForSwap`, `SwapBuild`), and the next attempt. `Reconnect` is the SDK's own retry, which is only switched
off for OpenAI's request clients (4263-4273). A read whose sockets are open may hang for ever.

The order in which the loop calls these handlers is external (`chat_completion_helpers` is not in the
repository): an attempt, then an abort or an answer, then refreshes and a retry. The tails of the scrubbers
that `_reset_stream_delivery_tracking` flushes before it clears the text (4881-4919) are left out, as is
`_rebuild_anthropic_client` (4848-4872), which nothing here calls.

### Delegation

A call of `delegate_task` (`call`) builds children one by one (`Build`, `BuildFails`), detaches
and dispatches them if it goes to the background (`Detach`, `Dispatch`), runs each in
two threads (`run`: the waiting one, `work`: the conversation, which may hang), and collects
(`Collect`, `Abandon`, `Answer`). `Flag` and `FanOut` are interrupt() travelling down `active`.
Entries have the code's statuses: a conversation that ended gives "completed" or "failed", one that
raised "error" or "timeout" (its own TimeoutError counts as the limit's), one that saw its flag "interrupted",
and making the entry may itself raise ("error"). A lease that is refused raises before the `try`
(`LeaseFails`): the child stays attached and unclosed, and a task that runs alone takes its call down.
The entry of a child not waited for says "interrupted" too, whatever became of the child; it stays in the
answer although the join at the end of the pool waited for the child's real one.

### FileTools

A file is the number of its last change, which is also its mtime, and the patches that are in it. `tracker` is the
task's `_read_tracker` entry with its three dicts in insertion order, `registry`
and `locks` are `file_state` (external), `call` the concurrent calls. Reads go through
lookup, stat, read, track, record; changes through the locks, the checks, load, store,
stamp and note for one name after the other, unlock. A call knows its names and what they
resolved to (`names`, `at`), the paths it locks and still has to lock (`mine`, `todo`, the next of which
`First` takes in the order of their names) and the name it stamps (`next`).

*Two resolutions.* The tools resolve a name with the session's recorded directory (`ResolvePath`); locks,
stamps and the dedup are of that path. The shell of the one environment resolves what it is given
against its own directory (`ShellPath`), and it is given the raw name by `read_file` (1273) and by
V4A patches (1780), the resolved one by `write_file` and the replace mode (1770-1776): `Target`. A command of any agent moves
the shell and records its own agent's directory (`OtherTool`).

*The host.* `getmtime` is asked on the host: `host` says whether it has the environment's files, none
(every `getmtime` raises OSError), or others of its own. *Failures.* A read may return an error, which is
tracked like content (`ReadFails`), a write or patch may fail (`StoreFails`), and a V4A patch after some of its files
(`StorePart`). *Calls given up* (`GiveUp`): the executor's deadline passes, the call goes on beside later calls
of its agent, on the same paths if need be, and what it read is shown to nobody.

`seen`, `kept` and `stray` are history variables: what an agent was shown, the patches a file must still
have, and the files some call wrote without having locked them, or from another file's content.

### ToolContainers

Threads of one process and task go through `_get_file_ops` (`Look`, `Verify`, `Forget`,
`CreateOrJoin`), the construction of an environment (`Probe`, `Attach`, `AttachRefused`,
`Run`, `Snapshot`, `Register`, `Cache`) and execute (`Exec`, `Finish`, `Lookalike`, `Recover`, `Kill`). The idle
sweep, the reaper and `Outside` (siblings, prune, the daemon) act between any two of
these. `Snapshot` is `init_session`: when it raises, a construction raises with it, and a recovery gives up
but leaves the container it found with the environment (1211-1217). A recovery takes no lock, and the sweep
may take an environment a call is using, for which the next call constructs another: `OneSandbox` is about
constructions under the creation lock, `OneContainer` about the rest. Container and environment
numbers nobody refers to are used again.

### MC modules

`MCHeartbeatRuns` has the symmetry set, `MCToolBatch` the turns, `MCFileTools` the tasks,
directories and inputs (and `NamedInputs`, for three counterexamples) and a symmetry set (one agent's two calls have the same inputs), `MCToolContainers` the thread names.

## 4. Runs

| run | asks | instance |
|---|---|---|
| `ownership` | types; `AdmissionCap`; `SlotsCovered`, the argument behind the caps; `LockHasOwner`: an execution lock belongs to a run on the path or somebody is about to release it | 2 agents, 1 issue, 2 runs, 1 slot; pauses, reassignment, completion, failure, timers |
| `orphans` | `SeenOrphanRuns`: what the reaper is about to mark detached still runs; `ImplementsAdmission` | 1 agent, 2 runs, 1 crash; cancel, reaper, throwing release |
| `restart` | `OneSuccessor`: retry or recovery, not both; `RunningEnds` under fairness | 1 agent, 3 runs, 2 crashes; reaper |
| `takeover` | `SpawnOnce`: no row gets a second child, even with activations overtaking one another | 1 agent, 2 runs, `takeover`; gates, timers, cancel-all |
| `followup` | `DeferredServed`, `QueuedLeaves`: parked wakes and queued runs are served | 2 agents, 1 issue, 2 runs, 1 slot; comments, failures |
| `tool_batch` | `OneResultPerCall`, `NoneMeansNotRun`, `InterruptDelivered`, `SteerOnce`; `BatchEnds` although no tool need return | 2 turns, 4 calls, 2 thread ids; 1 interrupt, 1 steer, a deadline |
| `session_store` | `RowsInOrder`, `MarkIsRow`, `NothingLost` | 2 threads, 6 messages, 1 failed append, 1 crash |
| `file_tools` | `EditsKept`, `NoDeadlock` | 2 agents, one with 2 concurrent calls, 2 files, caches of 1 entry; 3 calls, 1 failed, given-up or compressed one, 1 change and 1 command by others |
| `delegation` | `OneEntryPerTask`, `NamesRestored`; `CallsReturn` although conversations hang | 2 calls, 2 children, 1 interrupt, 1 failure (of a build, a lease or an entry), a time limit |
| `containers` | `OneSandbox`, `StartedOnce`; `LockFreed` under fairness | 2 threads, 4 containers, 3 environments, 1 trouble, 1 sweep |
| `model_call` | `OwnConnection`, `NoClientLost`, `LateAtMostOnce`; `AbortedEnds` | 3 wires, 2 attempts, 2 chunks in all, 1 refresh, 1 client that cannot be built or shutdown that raises |

One run shows where the code departs from what it says of itself:

| run | says | shows |
|---|---|---|
| `background_cut` | "the batch's lifecycle is owned by the async registry now, not the parent turn" (delegate_tool.py:2973-2975) | `BackgroundUnaffected`: the loop that collects the batch polls the parent's interrupt flag all the same (2675): interrupting a later turn writes "interrupted" entries for children nobody interrupted |

**Further counterexamples.** TLC finds each of these properties, which the modules state,
violated; they are not kept as runs. Constants not named are those of the module's run.

*Scheduler* (`MCHeartbeatRuns`, 1 issue, `exclusive`, no crash unless said):

* `AdapterCap`, "at most two Hermes runs across the VM" (core-role-activation.md:34): 1 agent,
  2 runs, `{"cancel"}`. A run cancelled during its setup spawns its child anyway (10239-10247
  re-reads the agent's status only), beside the child of the run that took its slot.
* `DeferredHasPath`, "the new owner will be woken instead" (8345): 2 agents, 2 runs,
  `{"reassign"}`. The new owner's wake was parked behind the stale run; the drop (8403-8441)
  clears the lock and promotes nothing.
* `LockHasOwner`, against 11341-11353: 2 agents, 2 runs, `{"cancel"}`. A cancel between the
  claim (8190) and the stamp (8218) leaves the lock with an ended run.
* `OneAgentPerIssue`, "a second agent cannot start on the same issue workspace" (12237-12239):
  2 agents, 3 runs, 2 slots, `{"comment"}`. A parked mention is promoted although the
  assignee has another run of the issue.
* `PauseDurable`, "Pause Durability" (10239-10240): 1 agent, 2 runs, `{"pause"}`.
  finalizeAgentStatus reads, awaits and overwrites a pause (8450-8475).
* `AdmissionCap`, "is enforced" (versions-patches.md:20): 1 agent, 2 runs, 1 crash,
  `{"cancel_active", "reap", "crash", "comment"}`. A row ended by cancelActiveForAgentInternal
  (13153) before its kill is set back to running by the reaper (8702).
* `QueuedLeaves`: 1 agent, 2 issues, 2 runs, `{"gate"}`, FairSpec. The claim of a held run
  awaits `cancelRunInternal` (8145), which awaits a start call (13143) for the same locks. The
  other reading, `takeover` with 2 agents, 3 runs, `{"gate", "timer"}`, breaks `AdmissionCap`: the
  overtaken holder goes on with the slots it had counted. Which of the two the appliance
  has depends on a file that is not here.
* With `{"cancel"}` alone a succeeded run becomes cancelled (13122), against 11231-11233; with
  `fail` or `cancel` added to `restart` a row gets two successors; a lost automatic recovery is
  retried under `process_lost` and then recovered again (6463-6479).

*Tool execution* (`MCToolBatch`):

* `NoStaleInterrupt` (two turns of two parallel calls each, so `MCTurns` is another): interrupt() may signal a tid from its copy (2851-2856) after that worker
  ended and the id was given to another thread, which then starts interrupted.
* `SavedAsSent`: the row of a tool message is written before the steer joins its text
  (tool_executor.py:1002-1068), so the store has less than the model is sent.
* `SteerNeverCut`: the turn budget may replace a text that already holds a steer.
* `SegmentsInOrder`: a worker abandoned by a parallel segment still runs while the calls
  of the next segment do.

*Session store*: `StampIsRow` - a message whose append raised stays unmarked "for the next
flush" (2050), but the next turn passes the same dicts as its history and stamps them durable.
`AnswersKept` - the closing thread looks at the last message (1766-1777) and pops what is last a
moment later: an answer appended in between is gone, from the list and from the store.
`ResumeMatches` - the rewind past an empty answer (1756-1807) pops tool results that were
flushed one by one.

*Model calls*:

* `FencedOut` and `NewestWrites`, against "the sink fences its late chunks out" (5133-5142):
  who writes is looked at before the callbacks run, and an aborted attempt whose response had
  come claims the sink after its successor.
* `RecordedKept` (4922-4934): a superseded stream writes back the text it had read.
* `AbortStops`: an abort that comes before there is a client or a connection is a no-op
  (4293-4299, 4393-4394), and the attempt may stream, or hang, for ever.
* `SharedConnection`: `OwnConnection` of the streams on the shared client too. A moa stream's or
  a direct Anthropic call's client is closed by a refresh, a swap or another request's end.
* `BuiltWhole`: an aborted attempt that has no client yet may build one with the new key and the
  old base URL, which are written without the lock (4490-4491) it copies them under (4261-4262).

*File tools*, the first three with `Inputs <- NamedInputs`, `MaxOther = 0`:

* `UnchangedMeansSeen`, against "The content from the earlier read_file result in this
  conversation is still current" (796-800): "Real read succeeded" (1345) is taken for granted, so a
  failed read is tracked and deduplicated like content (1336-1368).
* `StaleWarned`, against "warn on write/patch if the file changed since the agent last read it"
  (1357-1358): the mtime kept is the one after the read (1360), so a change in between counts as
  read; and a write that failed restamps too (1642-1645).
  Both also fail where the host has files of its own under the container's paths (`Hosts = {"other"}`);
  where it has none (`{"none"}`) neither the stub nor the warning is ever given.
* `StrayKept` (`MaxCalls = 2`, `MaxEdits = 0`), against "Serialize the read→modify→write region
  per-path" (1626-1628): a V4A patch locks its resolved headers and edits the raw ones (1780),
  which the shell may resolve elsewhere, beside whoever has the lock of that file.
* `BlockedMeansSeen`, "The content has NOT changed" (1383-1391): `Slots = {a1}`, `MaxCalls = 4`,
  `MaxEdits = 3`, `MaxOther = 0`. The counter of repeated reads is not reset when the file changes.

*Delegation* (constants of `background_cut`): `GivenUpWereTold`, against "Children already received
the interrupt signal" (2676-2678). interrupt() sets the flag first and copies the list of children
later (run_agent.py:2788-2864); a child attached after the copy (1436-1443) is never signalled, yet
its entry says "interrupted" (2697-2707), while it works on and the pool's end waits for it (2652).

*Containers*: `OneContainer`, against "ONE long-lived container shared across sessions" (903-908,
1355-1357) - recoveries take no lock (1140-1221): two threads that lost the same container both find
none and start one each. `NeverReapsRunning`, "running containers are NEVER reaped" (165-172) - the listing
(223-236) is older than the removal. `KilledStops` (1107-1124) - the container stopped is the
environment's present one. `OpsAlive` (file_tools.py:961-965) - the check asks whether there is an
active environment, not whether it is the cached operations' own.

**Seen while reading**, and in the modules where they are modelled: when the registry is
full the batch runs inline with its children already detached, although the comment at
delegate_tool.py:3053-3055 says they are still attached; leaving the executor's `with` block
(2652) joins the threads an abandonment gave up, so `CallsReturn` rests on the time limit, whose
default is none; a failing build leaves its earlier siblings attached and never closed, and a
refused lease the child it was for; the
global of tool names is overwritten by nested orchestrators; `_invalidate_dedup_for_path`
resolves a relative path for the task "default"; a recovery whose `docker run` fails leaves a
created container, and a recovery does not look at the network mode.

### Bounds

`MaxRuns` bounds the rows ever inserted; an insertion that finds no room is disabled.
Two runs suffice for a race between a run and its successor or competitor, three for
a lost run, its retry and the recovery of the retry. The liveness properties that a
blocked insertion could starve have `~Room` as an alternative, which is said beside
them; `QueuedLeaves` does not need it. `MaxCrashes` bounds crashes: two allow a crash
during the handling of the first. One agent suffices where the race is between the
actors around one run; two are needed for the VM-wide cap and for parked wakes of
somebody else. `GlobalMax` and `AgentMax` are not bounds but the configured caps; the
appliance uses 2 and 1, and instances with fewer agents use 1 so that the cap is reached.

In the Python modules each actor appears twice where a race needs a second: two workers and
two thread ids with two turns (so that an id and a late result meet the next batch), two
persisting threads, two agents with two files in opposite orders and a cache of one entry
(so that eviction happens), two children of which one may be the other's parent, two
threads with three environments and four containers (one more of each than they can have in use
at a time, for what the sweep or a loss leaves behind), two attempts with two chunks between them
(a stream delivers late twice, or two streams interleave, with two). Troubles, failures, sweeps, interrupts, edits and
crashes come once or twice: every property here is about one disturbance meeting an
operation, and the operations repeat.

Deadlock is checked in `tool_batch`, whose batch must come to an end. Everywhere else the
system may rest: a scheduler that nobody wakes, a store when the bounded conversation is
over, calls that are used up.

### Fairness

`FairSpec` of the scheduler assumes what Node and the server give: whatever is ready in
the event loop runs (weak fairness of each executor, cancel, claim step and of the reaper);
lock waiters are served in order, so an agent's start call that finds the lock free again
and again gets it (strong fairness of `StartBegin`/`StartNothing` per agent); the
periodic tick runs `resumeQueuedRuns` and `reapOrphanedRuns` (weak fairness, where the
configuration enables the reaper); adapters return, being under a time limit, and
orphaned children exit. No fairness is assumed of operators, agents, crashes or wakes.

In the Python modules threads that can go on do, and nothing that waits for somebody
else's work is assumed to end. `ToolBatch`: the agent's thread and the workers step, no tool
returns. `Delegation`: the waiting thread of a child steps and its time limit fires; its conversation
may hang. `ToolContainers`: docker calls end, which their time limits justify; commands need
not. `ModelCall`: what a thread does with a chunk or its client it does, and a read returns once its
connection is shut; nothing is assumed of a read whose sockets are open, nor of the main thread.

## 5. Proofs

All theorems hold for every value of the constants: sets of agents, issues or threads,
bounds and caps.

* `HeartbeatRunsProofs`, first part: `TypeCorrect` (`Spec => []TypeOK`). `TypeOK` is not
  inductive: a cancel, an executor or a claim writes the row it is working on, which must have
  been inserted, or a row above `nRuns` would come to life. `TypeInv` adds that rows
  are dense (absent exactly above `nRuns`), that every inserted row has an agent and
  that everything under way names inserted rows (`TypeInvariant`).

  `SpawnedOnce` (`Spec => SpawnOnce`), for either lock mode. `SpawnInv` says that a row
  has a recorded child only behind its spawn, and that the rows activations are about to
  execute, an overtaken activation's included, are different and not executed yet. A
  claim takes a queued row, and every step is shown to make no row queued again
  (`RowsMove`), so no second activation comes by the row.
* `HeartbeatRunsProofs`, second part: under `LockMode = "exclusive"` and
  `"cancel_active" \notin Disturbance`, `CapsHold`, `SlotsAreCovered`,
  `DetachedStillRunning` and `Refinement` (`Spec => ImplementsAdmission`).
  The inductive invariant `AdmissionInv` is the conjunction of
  * `TypeInv`;
  * `PlanInv`: the list an activation works through has no repetition and only the
    agent's own runs, and `SlotsCovered`: the slots it has left are free. Only a claim
    raises the number of running rows, only the holder of the locks claims, and it has
    one slot fewer afterwards; everything else lowers the number or leaves it.
  * `OrphanInv`: a row the reaper listed whose child lives and which no executor owns
    is still running. The reaper's write of `running` is the only other step that
    could bring a row back, and this makes it a stutter. It needs to know where a
    child without an executor can come from (a crash), and that every path that ends
    a row first kills its child.

  Both hypotheses are needed. The counterexamples to `AdmissionCap` above refute
  the cap with `cancel_active` and with `takeover`.

  `LocksHaveOwners` (`Spec => []LockHasOwner`), for `exclusive` locks and every other
  intervention than `cancel`, `cancel_active`, `crash` and `release_error`. `OwnInv` adds to
  `AdmissionInv` that the holder of an issue's lock is a run of that issue, on the path or
  being ended by somebody who will release it; that what is being released has ended;
  that only a running row gets the lock in a claim; that a run with a successor has ended
  and holds no lock; and that a start activation which cancels a run waits for a start of
  its own, so that nothing is claimed beside it.

  `OneSuccessorEach` (`Spec => []OneSuccessor`), for `exclusive` locks and every other
  intervention than `fail`, `cancel` and `cancel_active`; the server may crash anywhere.
  In `SuccInv` a run with a successor is *settled*: it has ended, nobody executes,
  cancels or lists it, and nobody will release it in a way that recovers it. A retry and a
  recovery are both made at the end of such a run, so the second would need the run to come
  back. Executors that end a run end it well, and where the reaper releases a run twice
  its agent cannot run, so neither release recovers it.

  TLC refutes `LockHasOwner` with each of the four interventions excluded (2 agents, 2 runs,
  one crash for `crash`), and `OneSuccessor` with `fail` or `cancel` (1 agent, 3 runs, one
  crash, `reap`). `cancel_active` is excluded from the latter because `AdmissionInv` needs
  it: whether it gives a run two successors is open. TLC has found no such behaviour with
  3 runs, in a search it could not complete.
* `RunAdmissionProofs`: `WithinCapsAlways`, that the abstract specification keeps both
  caps; with `Refinement` the caps follow for the rows a second way.

Constants are assumed to be what the module's named assumptions say: positive caps and
bounds, a finite set of agents, null values outside the sets they complete.

* `ToolContainersProofs`: `TypeCorrect`, `OneSandboxAlways` (`Spec => []OneSandbox`, which is about
  constructions under the creation lock) and
  `StartedOnceAlways` (`Spec => []StartedOnce`), for any threads, containers and
  environments and any number of troubles and sweeps. The inductive invariant `SandboxInv`
  types the threads' records and says of each: it holds the creation lock exactly while it
  constructs; while it does, no environment is active (registering one needs the lock, the
  sweep and a cleanup only take away); a thread that executes has an environment, one that
  attaches a container; and its count of starts is positive only behind the step that
  starts, unless an output was mistaken for docker's complaint. `OneSandbox` alone is not
  inductive: who holds the lock must be part of it.
* `ModelCallProofs`: `TypeCorrect`, `OwnConnectionAlways`, `NoClientLostEver` and
  `LateAtMostOnceEver`, for any number of attempts, chunks, refreshes and failures, wherever an
  attempt was when it was aborted. The inductive invariant `CallInv` has three parts.
  *Ownership* (`Owns`): the client a stream built for itself is open, is neither the shared one nor
  the one the main thread remembers, and no other thread streams on it or remembers it. A request
  client is the newest of all when it is built, and what any other thread closes is a client
  that was shared. Streams that were lent the shared client are not spoken of
  (`SharedConnection` is false). *The lock*: the main thread between `Replace` and `Make`, and an
  attempt between `Ensure` and `Recreate`, hold it, and what they remember is the shared client. So
  an aborted attempt that recreates the client while the main thread replaces it finds the new one or comes
  before, and neither loses what the other built. *Superseded for good*: tokens only grow, so a stream that
  delivered late is behind the check of the next chunk.

* `ToolBatchProofs`: `BatchTypes`, `EachCallAnswered`, `PromisesHold`, `InterruptsArrive` and
  `SteersArrive`, for every plan of the turns, any number of workers, threads, interrupts and
  steers. `BatchInv` adds to the types
  * `PlaceOK`: the calls answered so far, followed by those of the segment still to answer,
    are the calls the model emitted up to the end of that segment. Each answer moves one call
    over; `OneResultPerCall` is the case where nothing is left.
  * `CallOK`: of a call the turns have not come to, no worker, result or message exists; a
    blocked call was never given a worker; and what a message of no effect is about has not
    been invoked and its worker is new or cancelled, states no worker leaves any more.
  * `WorkerOK`: live workers have threads of their own, tracked from registration to
    unregistration, and when an interrupt stands while a tool runs, its thread's bit is set or
    the interrupting thread is still before its copy of the tracked threads or holds the
    thread in that copy. The property says the last part; it needs the first two.
  * `SteersOK`: the steers accepted so far are pending, dropped or in exactly one message.

  Of the plans it is assumed what the planner and its caller guarantee
  (`TurnsAssumption`: `tool_executor.py:1799-1850`): segments are not empty and each call has
  one place in one of them. What a list of lists flattens to is defined by recursion; as no
  induction theorem can be used, `Counting` derives the step from the least number at which a
  claim would fail, whose existence the library proves (`WFMin`, `NatLessThanWellFounded`).
* `SessionStoreProofs`: `StoreTypes`, `StoreInOrder`, `MarksAreRows` and `TranscriptStored`, for
  any number of messages, failing appends and crashes. In `StoreInv` the list and the rows are
  sorted by creation, and *a listed message that has no mark comes after every row*: this is
  what makes an append keep the order and never repeat. Three states are excepted, in which a
  row stands without its mark: the message about to be marked, a resumed conversation until
  its first persist, and the history that persist is stamping. The rest says where each thread
  is in its flush (everything before its position is dealt with), who holds the lock, and that
  a turn's history is the beginning of its list. `MarkIsRow` is about messages that are in the list:
  one that the rewind popped may have a mark and no row. Only the holder of the lock pops.
* `DelegationProofs`: `DelegationTypes`, `OneEntryEach` and `NamesAreRestored`, for any tree of agents,
  any size of batch, any interrupts, time limits, refused leases and failing builds.
  `DelegationInv` says of a call that its children are its caller's and as many
  as its tasks once it has built them, that its results are about different children and repeat
  what the child's run returned, unless it was given up; of a child that its registration, its thread and
  its entry agree. Finally, as long as only the top-level agent delegates, the process-wide tool names are its
  own or a build for it is under way, and those a call saved are its own: with that the
  restore is right however the calls overlap. The number of entries follows by counting the
  children (`FS_Injection` and its relatives), not by induction.

* `FileToolsProofs`: `FileTypes`, `FilesNoDeadlock` and `NoEditLost`, for any agents, concurrent
  calls, files, names, directories, cache caps, and any number of changes by others. The proofs rest on what
  `Put`, `Drop` and `Capped` do to a dict kept as a sequence: keys stay unique, an eviction adds nothing, a key
  is mapped to what was put last. Two invariants extend the types:
  * `LockInv`: the holder of a lock is a change that has taken it and not released it, and what a
    change holds comes before what it has still to take. Of the waiting calls, the one that waits for the
    last file waits for a holder that waits for none: hence no deadlock, also among calls of one
    agent on the same paths. With two files TLC only looks at circles of two.
  * `EditInv`: what a patch has loaded contains every edit the file must keep, unless it comes
    from a file the call does not lock (`stray`). It needs that the patch holds the lock of the file it stores
    from before the load until after the store. The exemption is as narrow as the code allows:
    without it the claim is `StrayKept`.

**Only model-checked**: the liveness properties `RunningEnds`, `DeferredServed`,
`QueuedLeaves`, `BatchEnds`, `CallsReturn`, `LockFreed` and `AbortedEnds`. Liveness under
fairness and ENABLED are out of the prover's reach. Every safety property of a passing run
is a theorem. What the scheduler's theorems leave out by their hypotheses is mostly false
rather than unproved, as said above and in section 4.

## 6. Not modelled

Inside the scheduler: scheduled and transient retries and their promotion (6896-7950),
hot restart and graceful drain (6571-6893), review participants, the rewake throttle,
daily and budget caps, the suppression and worktree cut-offs, the status of wake-up
requests, and a `timed_out` run (it is a failed one). A run has at most one
cancellation at a time, a release never throws in the cancel and reaper paths, and
start calls made inside a release are not waited for. A start call for an agent that is not
invokable (`StartNothing`) does nothing: whether it also cancels the agent's running rows
(8933-8937) is decided by `agent-invokability.js`, which is not in the repository; that cancellation
is the code of `CancelActiveForAgent`, which the model has without the start locks. The gates of a claim are read
in one step, and so is the setup between the update of `agents.status` (10241) and the
spawn. `enqueueWakeup`'s checks before its transaction are made in the transaction's
state.

Inside the Hermes child: the conversation loop, the planner of segments, `file_state`, the
async registry, the terminal tool and docker itself are not in the repository and appear as
far as the code here uses them. Of `run_agent.py`, the construction of the agent, prompts,
titles, headers, reasoning options, the interim-message filter and the many one-line
accessors are left out: they keep no state that two actors share. Of `delegate_tool.py`,
how a child's toolset, model and credentials are chosen, its progress display, and the roll-up of costs
(2851-2864, unsynchronised: two calls answering at once can lose an amount). Of
`file_tools.py`, redaction, path and binary guards, structured documents, the text of answers, the sweep that
makes a new shell, and V4A patches that add, delete or move files (a header counts as an update). Of `docker.py`, the
assembly of arguments and the probes of the host.

`web_tools.py` chooses a provider and calls it; between calls it keeps clients that are made
once and nothing else, so there is no behaviour over time to state. `paperclip-network-probe.py`
makes one connection and prints how it ended. The adapter, the operator clients and
the acceptance scripts keep no state between calls either, and will stay out, apart from
what other modules need of them. The core role transition, emergency control, backup and
network policy are planned (section 2).
