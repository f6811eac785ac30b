--------------------------- MODULE ToolContainers ----------------------------
(***************************************************************************)
(* The Docker sandbox of the tools (tools/environments/docker.py) and the  *)
(* look-up that shares one among the threads of a process (tools/          *)
(* file_tools.py, _get_file_ops).  Threads run commands in the container   *)
(* of their environment, recreate it when it is gone, and stop it when the *)
(* command is interrupted; an idle sweep gives environments up; sibling    *)
(* processes and the orphan reaper touch the same labelled containers.     *)
(***************************************************************************)
EXTENDS Naturals, FiniteSets

CONSTANTS
  Threads,       \* of one process, all of one task and profile
  None,
  MaxContainers, MaxEnvs,  \* bounds: containers and environments at a time
  MaxTroubles,   \* bound: docker calls that fail or time out, commands that fail
                 \* and print "is not running", runs of the reaper, containers
                 \* stopped, started or removed by others
  MaxSweeps      \* bound: environments found idle

ASSUME ContainersAssumption ==
  /\ None \notin Nat \cup Threads
  /\ {MaxContainers, MaxEnvs, MaxTroubles, MaxSweeps} \subseteq Nat

VARIABLES
  persist,   \* persist_across_processes
  ctr,       \* container -> its state
  inside,    \* container -> threads whose command runs in it
  handle,    \* environment -> _container_id
  active,    \* _active_environments[task]
  cached,    \* _file_ops_cache[task]: the environment its operations use
  lock,      \* holder of _creation_locks[task]
  th,        \* thread -> where its tool call is
  sweep,     \* the idle sweep
  reap,      \* containers the orphan reaper listed
  troubles, lookalikes, sweeps

vars == <<persist, ctr, inside, handle, active, cached, lock, th, sweep, reap,
          troubles, lookalikes, sweeps>>
docker == <<ctr, inside>>
shared == <<active, cached, lock>>
bounds == <<troubles, lookalikes, sweeps>>

Containers == 1..MaxContainers
Envs == 1..MaxEnvs
Idle == [pc |-> "idle", ops |-> None, env |-> None, found |-> None, up |-> FALSE,
         at |-> None, init |-> FALSE, starts |-> 0, retried |-> FALSE]

Swept == [pc |-> "idle", env |-> None, cid |-> None]

Labelled == {c \in Containers : ctr[c] # "gone"}

(* Identifiers nothing refers to any more are used again, the least first. *)
Least(S) == {x \in S : \A y \in S : x <= y}
EnvsInUse == Envs \cap ({active, cached, sweep.env} \cup {th[t].env : t \in Threads}
                                                  \cup {th[t].ops : t \in Threads})
FreshEnv == Least(Envs \ EnvsInUse)
InUse == reap \cup {sweep.cid} \cup {handle[e] : e \in EnvsInUse}
         \cup {th[t].found : t \in Threads} \cup {th[t].at : t \in Threads}
Fresh == Least({c \in Containers \ InUse : ctr[c] = "gone"})

Up(c) == IF c = None THEN FALSE ELSE ctr[c] = "running"

(* What a container that stops or goes takes with it.                      *)
Put(c, s) ==
  /\ ctr' = [ctr EXCEPT ![c] = s]
  /\ inside' = IF s = "running" THEN inside ELSE [inside EXCEPT ![c] = {}]

Trouble == troubles < MaxTroubles /\ troubles' = troubles + 1
Fails == Trouble
Works == troubles' = troubles

Step(t, r) == th' = [th EXCEPT ![t] = r]
To(t, pc) == Step(t, [th[t] EXCEPT !.pc = pc])
Ends(t) == Step(t, [Idle EXCEPT !.pc = "over"])

-----------------------------------------------------------------------------
(* _get_file_ops: the cached operations, under one lock ...                *)
Look(t) ==
  /\ th[t].pc = "idle"
  /\ Step(t, [Idle EXCEPT !.pc = IF cached = None THEN "lock" ELSE "verify", !.ops = cached])
  /\ UNCHANGED <<persist, docker, handle, shared, sweep, reap, bounds>>

(* ... are good if the task has an active environment, seen under another. *)
Verify(t) ==
  /\ th[t].pc = "verify"
  /\ IF active # None
       THEN Step(t, [th[t] EXCEPT !.pc = "exec", !.env = th[t].ops, !.ops = None])
       ELSE Step(t, [th[t] EXCEPT !.pc = "forget", !.ops = None])
  /\ UNCHANGED <<persist, docker, handle, shared, sweep, reap, bounds>>

(* Otherwise whatever is cached by now is dropped.                         *)
Forget(t) ==
  /\ th[t].pc = "forget"
  /\ cached' = None
  /\ To(t, "lock")
  /\ UNCHANGED <<persist, docker, handle, active, lock, sweep, reap, bounds>>

Create(t) ==
  /\ lock' = t
  /\ \E e \in FreshEnv :
       /\ Step(t, [th[t] EXCEPT !.pc = "probe", !.env = e, !.init = TRUE])
       /\ handle' = [handle EXCEPT ![e] = None]

(* Mutant: no second look at the active environments under the lock.       *)
CreateBlind(t) ==
  /\ th[t].pc = "lock" /\ lock = None
  /\ Create(t)
  /\ UNCHANGED <<persist, docker, active, cached, sweep, reap, bounds>>

(* The creation lock, and the second look under it.                        *)
CreateOrJoin(t) ==
  /\ th[t].pc = "lock" /\ lock = None
  /\ IF active = None
       THEN Create(t)
       ELSE Step(t, [th[t] EXCEPT !.pc = "cache", !.env = active]) /\ UNCHANGED <<lock, handle>>
  /\ UNCHANGED <<persist, docker, active, cached, sweep, reap, bounds>>

-----------------------------------------------------------------------------
(* DockerEnvironment.__init__ and _recreate_container get a container.     *)

(* _find_reusable_container: a running one first; nothing if ps fails.     *)
Reusable ==
  LET up == {c \in Labelled : ctr[c] = "running"} IN
  IF up # {} THEN up ELSE IF Labelled # {} THEN Labelled ELSE {None}

Probe(t) ==
  /\ th[t].pc = "probe"
  /\ \/ /\ th[t].init /\ ~persist
        /\ To(t, "run") /\ Works
     \/ /\ persist
        /\ \E c \in Reusable :
             Step(t, [th[t] EXCEPT !.pc = IF c = None THEN "run" ELSE "attach",
                                   !.found = c, !.up = Up(c)])
        /\ Works
     \/ persist /\ To(t, "run") /\ Fails
  /\ UNCHANGED <<persist, docker, handle, shared, sweep, reap, lookalikes, sweeps>>

(* docker start, unless the listing said it is running; that it is still   *)
(* there is not looked at.                                                 *)
Attach(t) ==
  LET c == th[t].found IN
  /\ th[t].pc = "attach"
  /\ \/ /\ th[t].up \/ ctr[c] # "gone"
        /\ IF th[t].up THEN UNCHANGED docker ELSE Put(c, "running")
        /\ Works
        /\ handle' = [handle EXCEPT ![th[t].env] = c]
        /\ Step(t, [th[t] EXCEPT !.pc = "snapshot", !.found = None, !.up = FALSE])
     \/ /\ ~th[t].up
        /\ IF ctr[c] = "gone" THEN Works ELSE Fails
        /\ Step(t, [th[t] EXCEPT !.pc = "run", !.found = None])
        /\ UNCHANGED <<docker, handle>>
  /\ UNCHANGED <<persist, shared, sweep, reap, lookalikes, sweeps>>

(* At start a container of the wrong network mode is removed, not reused.  *)
AttachRefused(t) ==
  /\ th[t].pc = "attach" /\ th[t].init
  /\ \/ Put(th[t].found, "gone") /\ Works
     \/ UNCHANGED docker /\ Fails
  /\ Step(t, [th[t] EXCEPT !.pc = "run", !.found = None, !.up = FALSE])
  /\ UNCHANGED <<persist, handle, shared, sweep, reap, lookalikes, sweeps>>

(* Mutant: the creation lock is not released when docker run raises.       *)
RunKeepsLock(t) ==
  /\ th[t].pc = "run"
  /\ \E c \in Fresh :
       \/ /\ Put(c, "running") /\ Works
          /\ handle' = [handle EXCEPT ![th[t].env] = c]
          /\ To(t, "snapshot")
       \/ /\ Fails /\ Put(c, "gone")
          /\ Ends(t) /\ handle' = handle
  /\ UNCHANGED <<persist, shared, sweep, reap, lookalikes, sweeps>>

(* docker run.  What it created before it failed is removed by __init__,   *)
(* which raises, and left by a recovery, which gives up.                   *)
Run(t) ==
  /\ th[t].pc = "run"
  /\ \E c \in Fresh :
       \/ /\ Put(c, "running") /\ Works
          /\ handle' = [handle EXCEPT ![th[t].env] = c]
          /\ To(t, "snapshot") /\ lock' = lock
       \/ /\ Fails
          /\ Put(c, IF th[t].init THEN "gone" ELSE "created")
          /\ Ends(t) /\ lock' = IF th[t].init THEN None ELSE lock
          /\ handle' = handle
  /\ UNCHANGED <<persist, active, cached, sweep, reap, lookalikes, sweeps>>

(* init_session in the container, which may be gone again.  When it raises *)
(* a construction raises with it and leaves the container to nobody; a     *)
(* recovery gives up, but the environment keeps the container it found.    *)
Snapshot(t) ==
  /\ th[t].pc = "snapshot"
  /\ \/ /\ Works
        /\ To(t, IF th[t].init THEN "register" ELSE "exec") /\ lock' = lock
     \/ /\ IF Up(handle[th[t].env]) THEN Fails ELSE Works
        /\ Ends(t) /\ lock' = IF th[t].init THEN None ELSE lock
  /\ UNCHANGED <<persist, docker, handle, active, cached, sweep, reap, lookalikes, sweeps>>

(* _active_environments, still under the creation lock.                    *)
Register(t) ==
  /\ th[t].pc = "register"
  /\ active' = th[t].env /\ lock' = None
  /\ To(t, "cache")
  /\ UNCHANGED <<persist, docker, handle, cached, sweep, reap, bounds>>

(* _file_ops_cache, after the creation lock.                               *)
Cache(t) ==
  /\ th[t].pc = "cache"
  /\ cached' = th[t].env
  /\ To(t, "exec")
  /\ UNCHANGED <<persist, docker, handle, active, lock, sweep, reap, bounds>>

-----------------------------------------------------------------------------
(* execute: the command, and once more after a recovery.                   *)

(* _run_bash: docker exec in the container the environment has by now.     *)
Exec(t) ==
  LET c == handle[th[t].env] IN
  /\ th[t].pc = "exec"
  /\ IF Up(c)
       THEN /\ inside' = [inside EXCEPT ![c] = @ \cup {t}]
            /\ Step(t, [th[t] EXCEPT !.pc = "running", !.at = c, !.starts = @ + 1])
       ELSE /\ IF c = None THEN Ends(t) ELSE To(t, "lost")
            /\ inside' = inside
  /\ UNCHANGED <<persist, ctr, handle, shared, sweep, reap, bounds>>

(* Mutant: whatever fails is taken for a lost container.                   *)
FinishLost(t) ==
  /\ th[t].pc = "running"
  /\ inside' = [inside EXCEPT ![th[t].at] = @ \ {t}]
  /\ Ends(t) \/ To(t, "lost")
  /\ UNCHANGED <<persist, ctr, handle, shared, sweep, reap, bounds>>

(* The command ends, or its container ended under it.                      *)
Finish(t) ==
  /\ th[t].pc = "running"
  /\ inside' = [inside EXCEPT ![th[t].at] = @ \ {t}]
  /\ Ends(t)
  /\ UNCHANGED <<persist, ctr, handle, shared, sweep, reap, bounds>>

(* It fails with an output that reads like docker's own complaint.         *)
Lookalike(t) ==
  /\ th[t].pc = "running" /\ t \in inside[th[t].at]
  /\ Trouble /\ lookalikes' = lookalikes + 1
  /\ inside' = [inside EXCEPT ![th[t].at] = @ \ {t}]
  /\ To(t, "lost")
  /\ UNCHANGED <<persist, ctr, handle, shared, sweep, reap, sweeps>>

(* _is_container_gone, in persist mode, the first time.                    *)
Recover(t) ==
  /\ th[t].pc = "lost"
  /\ IF persist /\ ~th[t].retried
       THEN /\ handle' = [handle EXCEPT ![th[t].env] = None]
            /\ Step(t, [th[t] EXCEPT !.pc = "probe", !.init = FALSE, !.retried = TRUE])
       ELSE Ends(t) /\ handle' = handle
  /\ UNCHANGED <<persist, docker, shared, sweep, reap, bounds>>

(* _kill_process on a timeout or an interrupt: the environment's present   *)
(* container is stopped (or docker stop fails), then the client killed.    *)
Kill(t) ==
  LET c == handle[th[t].env] IN
  /\ th[t].pc = "running"
  /\ \/ Up(c) /\ Put(c, "exited") /\ Works
     \/ ~Up(c) /\ Works /\ UNCHANGED docker
     \/ c # None /\ Fails /\ UNCHANGED docker
  /\ To(t, IF troubles' > troubles THEN "unstopped" ELSE "killed")
  /\ UNCHANGED <<persist, handle, shared, sweep, reap, lookalikes, sweeps>>

(* The call has answered; the next one.  A command nobody stopped goes on. *)
Again(t) ==
  /\ th[t].pc \in {"over", "killed", "unstopped"}
  /\ \A c \in Containers : t \notin inside[c]
  /\ Step(t, Idle)
  /\ UNCHANGED <<persist, docker, handle, shared, sweep, reap, bounds>>

-----------------------------------------------------------------------------
(* The idle sweep (external) takes an environment no call is setting up,   *)
(* drops the cached operations, and calls cleanup.                         *)
SweepTake ==
  /\ sweep.pc = "idle" /\ active # None /\ sweeps < MaxSweeps
  /\ \A t \in Threads : th[t].pc \in {"idle", "running", "over", "killed", "unstopped"}
  /\ sweeps' = sweeps + 1
  /\ sweep' = [pc |-> "forget", env |-> active, cid |-> None]
  /\ active' = None
  /\ UNCHANGED <<persist, docker, handle, cached, lock, th, reap, troubles,
                 lookalikes>>

(* clear_file_ops_cache.                                                   *)
SweepForget ==
  /\ sweep.pc = "forget"
  /\ cached' = None
  /\ sweep' = [sweep EXCEPT !.pc = "clean"]
  /\ UNCHANGED <<persist, docker, handle, active, lock, th, reap, bounds>>

(* cleanup: the handle is dropped, and unless it persists a thread stops   *)
(* and removes the container.                                              *)
SweepClean ==
  LET c == handle[sweep.env] IN
  /\ sweep.pc = "clean"
  /\ handle' = [handle EXCEPT ![sweep.env] = None]
  /\ sweep' = IF persist \/ c = None THEN Swept ELSE [pc |-> "stop", env |-> None, cid |-> c]
  /\ UNCHANGED <<persist, docker, shared, th, reap, bounds>>

SweepStop ==
  /\ sweep.pc = "stop"
  /\ \/ ctr[sweep.cid] = "running" /\ Put(sweep.cid, "exited") /\ Works
     \/ ctr[sweep.cid] # "running" /\ UNCHANGED docker /\ Works
     \/ UNCHANGED docker /\ Fails
  /\ sweep' = [sweep EXCEPT !.pc = "remove"]
  /\ UNCHANGED <<persist, handle, shared, th, reap, lookalikes, sweeps>>

SweepRemove ==
  /\ sweep.pc = "remove"
  /\ \/ Put(sweep.cid, "gone") /\ Works
     \/ UNCHANGED docker /\ Fails
  /\ sweep' = Swept
  /\ UNCHANGED <<persist, handle, shared, th, reap, lookalikes, sweeps>>

-----------------------------------------------------------------------------
(* reap_orphan_containers, by this process or a sibling at its start: what *)
(* is exited is listed; one after the other is inspected, and removed if   *)
(* it finished long ago, which a restart since the listing does not hide.  *)
ReapList ==
  /\ reap = {} /\ Trouble
  /\ reap' = {c \in Containers : ctr[c] = "exited"}
  /\ UNCHANGED <<persist, docker, handle, shared, th, sweep, lookalikes, sweeps>>

ReapOne ==
  /\ \E c \in reap :
       /\ reap' = reap \ {c}
       /\ UNCHANGED docker \/ (ctr[c] # "gone" /\ Put(c, "gone"))
  /\ UNCHANGED <<persist, handle, shared, th, sweep, bounds>>

(* Sibling processes, prune, a daemon that restarts.                       *)
Outside ==
  /\ Trouble
  /\ \E c \in Labelled, s \in {"running", "exited", "gone"} : s # ctr[c] /\ Put(c, s)
  /\ UNCHANGED <<persist, handle, shared, th, sweep, reap, lookalikes, sweeps>>

-----------------------------------------------------------------------------
Init ==
  /\ persist \in BOOLEAN
  /\ \E st \in {"gone", "running", "exited"} :    \* what an earlier process left
       ctr = [c \in Containers |-> IF c = 1 THEN st ELSE "gone"]
  /\ inside = [c \in Containers |-> {}]
  /\ handle = [e \in Envs |-> None]
  /\ active = None /\ cached = None /\ lock = None
  /\ th = [t \in Threads |-> Idle]
  /\ sweep = Swept
  /\ reap = {}
  /\ troubles = 0 /\ lookalikes = 0 /\ sweeps = 0

Go(t) ==
  \/ Verify(t) \/ Forget(t) \/ CreateOrJoin(t) \/ Probe(t) \/ Attach(t) \/ Run(t) \/ Snapshot(t)
  \/ Register(t) \/ Cache(t) \/ Exec(t) \/ Recover(t)

Next ==
  \/ \E t \in Threads :
       Look(t) \/ AttachRefused(t) \/ Finish(t) \/ Lookalike(t) \/ Kill(t) \/ Again(t) \/ Go(t)
  \/ SweepTake \/ SweepForget \/ SweepClean \/ SweepStop \/ SweepRemove
  \/ ReapList \/ ReapOne \/ Outside

(* A thread that can go on does: every docker call has a time limit.       *)
Fairness == \A t \in Threads : WF_vars(Go(t))

Spec == Init /\ [][Next]_vars /\ Fairness

-----------------------------------------------------------------------------
Making == {"probe", "attach", "run", "snapshot", "register"}
Constructs(t) == th[t].init /\ th[t].pc \in Making

(* Types; a command only runs in a container that runs, and the creation   *)
(* lock is held by exactly the call that constructs an environment.        *)
TypeOK ==
  /\ persist \in BOOLEAN
  /\ ctr \in [Containers -> {"created", "running", "exited", "gone"}]
  /\ handle \in [Envs -> Containers \cup {None}]
  /\ {active, cached} \subseteq Envs \cup {None} /\ lock \in Threads \cup {None}
  /\ reap \subseteq Containers
  /\ \A t \in Threads :
       /\ th[t].pc \in Making \cup {"idle", "verify", "forget", "lock", "cache", "exec", "running",
                                   "lost", "killed", "unstopped", "over"}
       /\ th[t].env \in Envs \cup {None}
  /\ \A c \in Containers : inside[c] # {} => ctr[c] = "running"
  /\ \A t \in Threads : lock = t <=> Constructs(t)

(* Of the calls that find the task without an environment, one constructs  *)
(* it and the others join it: none is constructed while another is, or     *)
(* while the task has one.  It says nothing of recoveries, which take no   *)
(* lock, nor of an environment that the sweep gave up with a call in it.   *)
OneSandbox ==
  \A t \in Threads : Constructs(t) => active = None /\ \A u \in Threads \ {t} : ~Constructs(u)

(* The commands an environment has running share one long-lived container. *)
(* It fails: threads that lost the container recover without a lock, each  *)
(* finds none to reuse, and each starts its own.                           *)
OneContainer ==
  \A t, u \in Threads : \A c, d \in Containers :
    persist /\ t \in inside[c] /\ u \in inside[d] /\ th[t].env = th[u].env => c = d

(* A command that began to run is not started again, unless its own output *)
(* was mistaken for docker's.                                              *)
StartedOnce == \A t \in Threads : th[t].starts > 1 => lookalikes > 0

(* Whoever takes the creation lock gives it back, whatever docker, the     *)
(* sweep, the reaper and other processes do to the containers meanwhile.   *)
LockFreed == \A t \in Threads : lock = t ~> lock # t

(* An interrupted command does not go on in its container.  It fails: the  *)
(* environment's container may have changed since the command began.       *)
KilledStops ==
  \A t \in Threads : th[t].pc = "killed" => \A c \in Containers : t \notin inside[c]

(* The orphan reaper never removes a running container.  It fails: that it *)
(* is exited is seen in the listing, and another process may start it.     *)
NeverReapsRunning ==
  [][\A c \in reap \ reap' : ctr[c] = "running" => ctr'[c] = "running"]_vars

(* The cached operations a call gets are of the task's active environment. *)
(* It fails: the check asks whether there is one, not whether it is theirs.*)
OpsAlive ==
  [][\A t \in Threads : th[t].pc = "verify" /\ th'[t].pc = "exec" => th'[t].env = active]_vars
=============================================================================
