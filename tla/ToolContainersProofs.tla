------------------------ MODULE ToolContainersProofs -------------------------
(***************************************************************************)
(* The sandboxes of ToolContainers, for every number of threads, of        *)
(* containers and of environments, and of every kind of trouble: one       *)
(* construction at a time, and no command started twice.                   *)
(***************************************************************************)
EXTENDS ToolContainers, TLAPS

Pcs == Making \cup {"idle", "verify", "forget", "lock", "cache", "exec", "running", "lost",
                    "killed", "unstopped", "over"}
Threading == [pc : Pcs, ops : Envs \cup {None}, env : Envs \cup {None},
              found : Containers \cup {None}, up : BOOLEAN, at : Containers \cup {None},
              init : BOOLEAN, starts : Nat, retried : BOOLEAN]
HasEnv == Making \cup {"cache", "exec", "running", "lost"}

\* What the proof needs to know of the state the threads share.
SharedOK ==
  /\ persist \in BOOLEAN
  /\ ctr \in [Containers -> {"created", "running", "exited", "gone"}]
  /\ inside \in [Containers -> SUBSET Threads]
  /\ \A c \in Containers : inside[c] # {} => ctr[c] = "running"
  /\ handle \in [Envs -> Containers \cup {None}]
  /\ {active, cached} \subseteq Envs \cup {None} /\ lock \in Threads \cup {None}
  /\ reap \subseteq Containers /\ lookalikes \in Nat

\* What it needs to know of a thread: the lock is held by who constructs, which
\* a recovery (init is false) is not taken for; who constructs found no active
\* environment; and only an output that misled execute brings a thread whose
\* command has begun back to where commands begin.
ThreadOK(t) ==
  /\ th[t] \in Threading
  /\ th[t].pc \in HasEnv => th[t].env \in Envs
  /\ th[t].pc = "verify" => th[t].ops \in Envs
  /\ th[t].pc = "attach" => th[t].found \in Containers
  /\ th[t].pc = "register" => th[t].init
  /\ lock = t <=> th[t].init /\ th[t].pc \in Making
  /\ th[t].init /\ th[t].pc \in Making => active = None
  /\ \/ th[t].starts = 0
     \/ th[t].starts = 1 /\ th[t].pc \in {"running", "over", "killed", "unstopped"}
     \/ lookalikes > 0

Same(q, r) == q.env = r.env /\ q.init = r.init /\ q.starts = r.starts

SandboxInv ==
  /\ SharedOK
  /\ th \in [Threads -> Threading]
  /\ \A t \in Threads : ThreadOK(t)

-------------------------------------------------------------------------------
\* What the steps of a thread make of its record.

LEMMA OverShape ==
    ASSUME NEW q,
           q = [Idle EXCEPT !.pc = "over"]
    PROVE  q \in Threading /\ q.pc = "over" /\ ~q.init /\ q.starts = 0
  BY DEF Idle, Threading, Pcs

LEMMA PcShape ==
    ASSUME NEW r \in Threading, NEW p \in Pcs, NEW q,
           q = [r EXCEPT !.pc = p]
    PROVE  q \in Threading /\ q.pc = p /\ Same(q, r) /\ q.found = r.found
  BY DEF Threading, Same

LEMMA NoOpsShape ==
    ASSUME NEW r \in Threading, NEW p \in Pcs, NEW q,
           q = [r EXCEPT !.pc = p, !.ops = None]
    PROVE  q \in Threading /\ q.pc = p /\ Same(q, r)
  BY DEF Threading, Same

-------------------------------------------------------------------------------
LEMMA StepAt ==
    ASSUME SandboxInv, NEW t \in Threads, NEW r, Step(t, r)
    PROVE  th'[t] = r
  BY DEF SandboxInv, Step

\* A step of one thread leaves the others as they were, unless it takes the
\* creation lock from them or registers an environment while they construct.
LEMMA OthersKept ==
    ASSUME SandboxInv, NEW t \in Threads, NEW r, Step(t, r), SharedOK',
           lock' = lock \/ (lock = None /\ lock' = t) \/ (lock = t /\ lock' = None),
           active' = active \/ lock = t,
           lookalikes' = lookalikes \/ lookalikes' = lookalikes + 1,
           ThreadOK(t)'
    PROVE  SandboxInv'
<1>1. th' \in [Threads -> Threading] /\ \A u \in Threads \ {t} : th'[u] = th[u]
  BY DEF SandboxInv, Step, ThreadOK
<1>2. ASSUME NEW u \in Threads \ {t} PROVE ThreadOK(u)'
  <2>1. ThreadOK(u) /\ lookalikes \in Nat /\ u # None
    BY ContainersAssumption DEF SandboxInv, SharedOK
  <2>2. (lock' = u) <=> (lock = u)
    BY <2>1, ContainersAssumption
  <2>3. active' = active \/ lock # u
    OBVIOUS
  <2> QED
    BY <1>1, <2>1, <2>2, <2>3 DEF ThreadOK
<1> QED
  BY <1>1, <1>2 DEF SandboxInv

\* What docker does to a container keeps the shared state typed,
\* and a container that does not run has no command in it.
LEMMA PutKeeps ==
    ASSUME SandboxInv, NEW c,
           NEW s \in {"created", "running", "exited", "gone"}, Put(c, s)
    PROVE  /\ ctr' \in [Containers -> {"created", "running", "exited", "gone"}]
           /\ inside' \in [Containers -> SUBSET Threads]
           /\ \A d \in Containers : inside'[d] # {} => ctr'[d] = "running"
  BY DEF SandboxInv, SharedOK, Put

-------------------------------------------------------------------------------
\* A call begins without an environment.
LEMMA LookKeeps == ASSUME SandboxInv, NEW t \in Threads, Look(t) PROVE SandboxInv'
<1>1. SharedOK /\ ThreadOK(t) /\ th \in [Threads -> Threading]
  BY DEF SandboxInv
<1>2. SharedOK'
  BY <1>1 DEF Look, SharedOK, docker, shared, bounds
<1>3. Step(t, th'[t]) /\ ThreadOK(t)'
  BY <1>1, ContainersAssumption
  DEF Look, Step, Idle, SharedOK, ThreadOK, Threading, Pcs, HasEnv, Making, shared, bounds
<1> QED
  BY <1>2, <1>3, OthersKept DEF Look, shared, bounds

\* The cached operations' environment becomes the call's.
LEMMA VerifyKeeps == ASSUME SandboxInv, NEW t \in Threads, Verify(t) PROVE SandboxInv'
<1>1. SharedOK /\ ThreadOK(t)
  BY DEF SandboxInv
<1>2. SharedOK'
  BY <1>1 DEF Verify, SharedOK, docker, shared, bounds
<1>3. CASE active # None
  <2>1. Step(t, th'[t]) /\ th'[t] = [th[t] EXCEPT !.pc = "exec", !.env = th[t].ops, !.ops = None]
    BY <1>3, StepAt DEF Verify
  <2>2. th'[t] \in Threading /\ th'[t].pc = "exec" /\ th'[t].env \in Envs
        /\ th'[t].init = th[t].init /\ th'[t].starts = th[t].starts
    <3>1. th[t] \in Threading /\ th[t].ops \in Envs /\ "exec" \in Pcs
      BY <1>1 DEF ThreadOK, Verify, Pcs
    <3> QED
      BY <2>1, <3>1 DEF Threading
  <2>3. ThreadOK(t)'
    BY <1>1, <2>2 DEF ThreadOK, Verify, HasEnv, Making, shared, bounds
  <2> QED
    BY <1>2, <2>1, <2>3, OthersKept DEF Verify, shared, bounds
<1>4. CASE active = None
  <2>1. Step(t, th'[t]) /\ th'[t] = [th[t] EXCEPT !.pc = "forget", !.ops = None]
    BY <1>4, StepAt DEF Verify
  <2>2. th'[t] \in Threading /\ th'[t].pc = "forget" /\ Same(th'[t], th[t])
    BY <1>1, <2>1, NoOpsShape DEF ThreadOK, Pcs
  <2>3. ThreadOK(t)'
    BY <1>1, <2>2 DEF ThreadOK, Same, Verify, HasEnv, Making, shared, bounds
  <2> QED
    BY <1>2, <2>1, <2>3, OthersKept DEF Verify, shared, bounds
<1> QED
  BY <1>3, <1>4

\* Under the creation lock, and with no active environment, one is constructed;
\* otherwise the active one is taken.
LEMMA CreateOrJoinKeeps ==
    ASSUME SandboxInv, NEW t \in Threads, CreateOrJoin(t) PROVE SandboxInv'
<1>1. SharedOK /\ ThreadOK(t)
  BY DEF SandboxInv
<1>2. CASE active = None
  <2>1. PICK e \in Envs : /\ Step(t, [th[t] EXCEPT !.pc = "probe", !.env = e, !.init = TRUE])
                          /\ handle' = [handle EXCEPT ![e] = None]
    BY <1>2 DEF CreateOrJoin, Create, FreshEnv, Least
  <2>2. lock = None /\ lock' = t /\ active' = None /\ lookalikes' = lookalikes
    BY <1>2 DEF CreateOrJoin, Create, bounds
  <2>3. SharedOK'
    BY <1>1, <2>1, <2>2 DEF CreateOrJoin, SharedOK, docker
  <2>4. th'[t] = [th[t] EXCEPT !.pc = "probe", !.env = e, !.init = TRUE]
    BY <2>1, StepAt
  <2>5. th'[t] \in Threading /\ th'[t].pc = "probe" /\ th'[t].env = e /\ th'[t].init
        /\ th'[t].starts = th[t].starts
    <3>1. th[t] \in Threading /\ "probe" \in Pcs
      BY <1>1 DEF ThreadOK, Pcs, Making
    <3> QED
      BY <2>4, <3>1 DEF Threading
  <2>6. ThreadOK(t)'
    BY <1>1, <2>2, <2>5 DEF ThreadOK, CreateOrJoin, HasEnv, Making
  <2> QED
    BY <1>2, <2>1, <2>2, <2>3, <2>4, <2>6, OthersKept
<1>3. CASE active # None
  <2>1. Step(t, [th[t] EXCEPT !.pc = "cache", !.env = active]) /\ lock' = lock /\ active' = active
        /\ lookalikes' = lookalikes
    BY <1>3 DEF CreateOrJoin, bounds
  <2>2. SharedOK'
    BY <1>1, <1>3 DEF CreateOrJoin, SharedOK, docker, bounds
  <2>3. th'[t] = [th[t] EXCEPT !.pc = "cache", !.env = active] /\ active \in Envs
    BY <1>1, <1>3, <2>1, StepAt DEF SharedOK
  <2>4. th'[t] \in Threading /\ th'[t].pc = "cache" /\ th'[t].env = active
        /\ th'[t].init = th[t].init /\ th'[t].starts = th[t].starts
    <3>1. th[t] \in Threading /\ "cache" \in Pcs
      BY <1>1 DEF ThreadOK, Pcs
    <3> QED
      BY <2>3, <3>1 DEF Threading
  <2>5. ThreadOK(t)'
    BY <1>1, <2>1, <2>3, <2>4 DEF ThreadOK, CreateOrJoin, HasEnv, Making
  <2> QED
    BY <2>1, <2>2, <2>5, OthersKept
<1> QED
  BY <1>2, <1>3

\* A container is looked for, and found or not.
LEMMA ProbeKeeps == ASSUME SandboxInv, NEW t \in Threads, Probe(t) PROVE SandboxInv'
<1>1. SharedOK /\ ThreadOK(t)
  BY DEF SandboxInv
<1>2. SharedOK' /\ lock' = lock /\ active' = active /\ lookalikes' = lookalikes
  BY <1>1 DEF Probe, SharedOK, docker, shared
<1>3. CASE To(t, "run")
  <2>1. Step(t, th'[t]) /\ th'[t] = [th[t] EXCEPT !.pc = "run"]
    BY <1>3, StepAt DEF To
  <2>2. th'[t] \in Threading /\ th'[t].pc = "run" /\ Same(th'[t], th[t])
    BY <1>1, <2>1, PcShape DEF ThreadOK, Pcs, Making
  <2>3. ThreadOK(t)'
    BY <1>1, <1>2, <2>2 DEF ThreadOK, Same, Probe, HasEnv, Making
  <2> QED
    BY <1>2, <2>1, <2>3, OthersKept
<1>4. ASSUME NEW c \in Reusable,
             Step(t, [th[t] EXCEPT !.pc = IF c = None THEN "run" ELSE "attach",
                                   !.found = c, !.up = Up(c)])
      PROVE  SandboxInv'
  <2>1. c \in Containers \cup {None} /\ Up(c) \in BOOLEAN
    BY DEF Reusable, Labelled, Up
  <2> DEFINE p == IF c = None THEN "run" ELSE "attach"
  <2>2. p \in Pcs /\ Step(t, [th[t] EXCEPT !.pc = p, !.found = c, !.up = Up(c)])
    BY <1>4 DEF Pcs, Making
  <2> HIDE DEF p
  <2>3. Step(t, th'[t]) /\ th'[t] = [th[t] EXCEPT !.pc = p, !.found = c, !.up = Up(c)]
    BY <2>2, StepAt
  <2>4. th'[t] \in Threading /\ th'[t].pc = p /\ Same(th'[t], th[t]) /\ th'[t].found = c
    <3>1. th[t] \in Threading
      BY <1>1 DEF ThreadOK
    <3> QED
      BY <2>1, <2>2, <2>3, <3>1 DEF Threading, Same
  <2>5. ThreadOK(t)'
    BY <1>1, <1>2, <2>1, <2>4, ContainersAssumption DEF p, ThreadOK, Same, Probe, HasEnv, Making
  <2> QED
    BY <1>2, <2>3, <2>5, OthersKept
<1> QED
  BY <1>3, <1>4 DEF Probe

\* The cache is dropped.
LEMMA ForgetKeeps == ASSUME SandboxInv, NEW t \in Threads, Forget(t) PROVE SandboxInv'
<1>1. SharedOK /\ ThreadOK(t)
  BY DEF SandboxInv
<1>2. SharedOK' /\ lock' = lock /\ active' = active /\ lookalikes' = lookalikes
  BY <1>1 DEF Forget, SharedOK, docker, bounds
<1>3. Step(t, th'[t]) /\ th'[t] = [th[t] EXCEPT !.pc = "lock"]
  BY StepAt DEF Forget, To
<1>4. th'[t] \in Threading /\ th'[t].pc = "lock" /\ Same(th'[t], th[t])
  BY <1>1, <1>3, PcShape DEF ThreadOK, Pcs
<1>5. ThreadOK(t)'
  BY <1>1, <1>2, <1>4 DEF ThreadOK, Same, Forget, HasEnv, Making
<1> QED
  BY <1>2, <1>3, <1>5, OthersKept

\* A container found is started and taken, or is gone.
LEMMA AttachKeeps == ASSUME SandboxInv, NEW t \in Threads, Attach(t) PROVE SandboxInv'
<1>1. SharedOK /\ ThreadOK(t)
  BY DEF SandboxInv
<1>2. th[t] \in Threading /\ th[t].found \in Containers /\ th[t].env \in Envs
      /\ th[t].pc = "attach" /\ {"run", "snapshot"} \subseteq Pcs
  BY <1>1 DEF ThreadOK, Attach, HasEnv, Pcs, Making
<1>3. lock' = lock /\ active' = active /\ lookalikes' = lookalikes
  BY DEF Attach, shared
<1>4. CASE /\ handle' = [handle EXCEPT ![th[t].env] = th[t].found]
           /\ UNCHANGED docker \/ Put(th[t].found, "running")
           /\ Step(t, [th[t] EXCEPT !.pc = "snapshot", !.found = None, !.up = FALSE])
  <2>1. SharedOK'
    BY <1>1, <1>2, <1>3, <1>4, PutKeeps DEF Attach, SharedOK, docker, shared
  <2>3. Step(t, th'[t])
        /\ th'[t] = [th[t] EXCEPT !.pc = "snapshot", !.found = None, !.up = FALSE]
    BY <1>4, StepAt
  <2>4. th'[t] \in Threading /\ th'[t].pc = "snapshot" /\ Same(th'[t], th[t])
    BY <1>2, <2>3 DEF Threading, Same
  <2>5. ThreadOK(t)'
    BY <1>1, <1>2, <1>3, <2>4 DEF ThreadOK, Same, HasEnv, Making
  <2> QED
    BY <1>3, <2>1, <2>3, <2>5, OthersKept
<1>5. CASE UNCHANGED <<docker, handle>> /\ Step(t, [th[t] EXCEPT !.pc = "run", !.found = None])
  <2>1. SharedOK'
    BY <1>1, <1>3, <1>5 DEF Attach, SharedOK, docker, shared
  <2>2. Step(t, th'[t]) /\ th'[t] = [th[t] EXCEPT !.pc = "run", !.found = None]
    BY <1>5, StepAt
  <2>3. th'[t] \in Threading /\ th'[t].pc = "run" /\ Same(th'[t], th[t])
    BY <1>2, <2>2 DEF Threading, Same
  <2>4. ThreadOK(t)'
    BY <1>1, <1>2, <1>3, <2>3 DEF ThreadOK, Same, HasEnv, Making
  <2> QED
    BY <1>3, <2>1, <2>2, <2>4, OthersKept
<1> QED
  BY <1>4, <1>5 DEF Attach

\* A container of the wrong network mode is not reused.
LEMMA AttachRefusedKeeps ==
    ASSUME SandboxInv, NEW t \in Threads, AttachRefused(t) PROVE SandboxInv'
<1>1. SharedOK /\ ThreadOK(t)
  BY DEF SandboxInv
<1>2. th[t] \in Threading /\ th[t].found \in Containers /\ "run" \in Pcs
  BY <1>1 DEF ThreadOK, AttachRefused, Pcs, Making
<1>3. lock' = lock /\ active' = active /\ lookalikes' = lookalikes
  BY DEF AttachRefused, shared
<1>4. SharedOK'
  BY <1>1, <1>2, PutKeeps DEF AttachRefused, SharedOK, docker, shared
<1>5. Step(t, th'[t]) /\ th'[t] = [th[t] EXCEPT !.pc = "run", !.found = None, !.up = FALSE]
  BY StepAt DEF AttachRefused
<1>6. th'[t] \in Threading /\ th'[t].pc = "run" /\ Same(th'[t], th[t])
  BY <1>2, <1>5 DEF Threading, Same
<1>7. ThreadOK(t)'
  BY <1>1, <1>3, <1>6 DEF ThreadOK, AttachRefused, Same, HasEnv, Making
<1> QED
  BY <1>3, <1>4, <1>5, <1>7, OthersKept

\* A container is created, or the construction fails and gives the lock back.
LEMMA RunKeeps == ASSUME SandboxInv, NEW t \in Threads, Run(t) PROVE SandboxInv'
<1>1. SharedOK /\ ThreadOK(t)
  BY DEF SandboxInv
<1>2. th[t] \in Threading /\ th[t].env \in Envs /\ th[t].pc = "run" /\ "snapshot" \in Pcs
  BY <1>1 DEF ThreadOK, Run, HasEnv, Pcs, Making
<1>3. active' = active /\ lookalikes' = lookalikes /\ lock' \in Threads \cup {None}
  BY <1>1 DEF Run, SharedOK
<1>4. ASSUME NEW c \in Containers, Put(c, "running"), To(t, "snapshot"), lock' = lock,
             handle' = [handle EXCEPT ![th[t].env] = c]
      PROVE  SandboxInv'
  <2>1. SharedOK'
    BY <1>1, <1>2, <1>3, <1>4, PutKeeps DEF Run, SharedOK
  <2>3. Step(t, th'[t]) /\ th'[t] = [th[t] EXCEPT !.pc = "snapshot"]
    BY <1>4, StepAt DEF To
  <2>4. th'[t] \in Threading /\ th'[t].pc = "snapshot" /\ Same(th'[t], th[t])
    BY <1>2, <2>3, PcShape
  <2>5. ThreadOK(t)'
    BY <1>1, <1>2, <1>3, <1>4, <2>4 DEF ThreadOK, Same, HasEnv, Making
  <2> QED
    BY <1>3, <1>4, <2>1, <2>3, <2>5, OthersKept
<1>5. ASSUME NEW c \in Containers, Put(c, IF th[t].init THEN "gone" ELSE "created"), Ends(t),
             lock' = (IF th[t].init THEN None ELSE lock), handle' = handle
      PROVE  SandboxInv'
  <2>1. (IF th[t].init THEN "gone" ELSE "created") \in {"created", "running", "exited", "gone"}
    OBVIOUS
  <2>2. SharedOK'
    BY <1>1, <1>3, <1>5, <2>1, PutKeeps DEF Run, SharedOK
  <2>3. Step(t, th'[t]) /\ th'[t] = [Idle EXCEPT !.pc = "over"]
    BY <1>5, StepAt DEF Ends
  <2>4. th'[t] \in Threading /\ th'[t].pc = "over" /\ ~th'[t].init /\ th'[t].starts = 0
    BY <2>3, OverShape
  <2>5. lock' # t /\ (lock' = lock \/ (lock = t /\ lock' = None))
    BY <1>1, <1>2, <1>5, ContainersAssumption DEF ThreadOK, Making
  <2>6. ThreadOK(t)'
    BY <2>4, <2>5 DEF ThreadOK, HasEnv, Making
  <2> QED
    BY <1>3, <2>2, <2>3, <2>5, <2>6, OthersKept
<1>6. Fresh \subseteq Containers
  BY DEF Fresh, Least
<1> QED
  BY <1>4, <1>5, <1>6 DEF Run

\* The session of the container is set up, or the call gives up.
LEMMA SnapshotKeeps == ASSUME SandboxInv, NEW t \in Threads, Snapshot(t) PROVE SandboxInv'
<1>1. SharedOK /\ ThreadOK(t)
  BY DEF SandboxInv
<1>2. /\ th[t] \in Threading /\ th[t].env \in Envs /\ th[t].pc = "snapshot"
      /\ {"register", "exec"} \subseteq Pcs
  BY <1>1 DEF ThreadOK, Snapshot, HasEnv, Pcs, Making
<1>3. active' = active /\ lookalikes' = lookalikes /\ lock' \in Threads \cup {None}
  BY <1>1 DEF Snapshot, SharedOK
<1>4. SharedOK'
  BY <1>1, <1>3 DEF Snapshot, SharedOK, docker
<1> DEFINE p == IF th[t].init THEN "register" ELSE "exec"
<1>5. CASE To(t, p) /\ lock' = lock
  <2>1. p \in Pcs
    BY <1>2
  <2>2. p \in {"register", "exec"} /\ (p = "register" <=> th[t].init)
    OBVIOUS
  <2> HIDE DEF p
  <2>3. Step(t, th'[t]) /\ th'[t] = [th[t] EXCEPT !.pc = p]
    BY <1>5, StepAt DEF To
  <2>4. th'[t] \in Threading /\ th'[t].pc = p /\ Same(th'[t], th[t])
    BY <1>2, <2>1, <2>3, PcShape
  <2>5. ThreadOK(t)'
    BY <1>1, <1>2, <1>3, <1>5, <2>2, <2>4 DEF ThreadOK, Same, HasEnv, Making
  <2> QED
    BY <1>3, <1>4, <1>5, <2>3, <2>5, OthersKept
<1>6. CASE Ends(t) /\ lock' = (IF th[t].init THEN None ELSE lock)
  <2>1. Step(t, th'[t]) /\ th'[t] = [Idle EXCEPT !.pc = "over"]
    BY <1>6, StepAt DEF Ends
  <2>2. th'[t] \in Threading /\ th'[t].pc = "over" /\ ~th'[t].init /\ th'[t].starts = 0
    BY <2>1, OverShape
  <2>3. lock' # t /\ (lock' = lock \/ (lock = t /\ lock' = None))
    BY <1>1, <1>2, <1>6, ContainersAssumption DEF ThreadOK, Making
  <2>4. ThreadOK(t)'
    BY <2>2, <2>3 DEF ThreadOK, HasEnv, Making
  <2> QED
    BY <1>3, <1>4, <2>1, <2>3, <2>4, OthersKept
<1> QED
  BY <1>5, <1>6 DEF Snapshot

\* The environment is the task's, and the creation lock is given back.
LEMMA RegisterKeeps == ASSUME SandboxInv, NEW t \in Threads, Register(t) PROVE SandboxInv'
<1>1. SharedOK /\ ThreadOK(t)
  BY DEF SandboxInv
<1>2. th[t] \in Threading /\ th[t].env \in Envs /\ lock = t /\ lock' = None /\ "cache" \in Pcs
  BY <1>1 DEF ThreadOK, Register, HasEnv, Pcs, Making
<1>3. SharedOK' /\ lookalikes' = lookalikes
  BY <1>1, <1>2 DEF Register, SharedOK, docker, bounds
<1>4. Step(t, th'[t]) /\ th'[t] = [th[t] EXCEPT !.pc = "cache"]
  BY StepAt DEF Register, To
<1>5. th'[t] \in Threading /\ th'[t].pc = "cache" /\ Same(th'[t], th[t])
  BY <1>2, <1>4, PcShape
<1>6. ThreadOK(t)'
  BY <1>1, <1>2, <1>3, <1>5, ContainersAssumption DEF ThreadOK, Same, Register, HasEnv, Making
<1> QED
  BY <1>2, <1>3, <1>4, <1>6, OthersKept

\* The environment is cached.
LEMMA CacheKeeps == ASSUME SandboxInv, NEW t \in Threads, Cache(t) PROVE SandboxInv'
<1>1. SharedOK /\ ThreadOK(t)
  BY DEF SandboxInv
<1>2. th[t] \in Threading /\ th[t].env \in Envs /\ "exec" \in Pcs
  BY <1>1 DEF ThreadOK, Cache, HasEnv, Pcs
<1>3. SharedOK' /\ lock' = lock /\ active' = active /\ lookalikes' = lookalikes
  BY <1>1, <1>2 DEF Cache, SharedOK, docker, bounds
<1>4. Step(t, th'[t]) /\ th'[t] = [th[t] EXCEPT !.pc = "exec"]
  BY StepAt DEF Cache, To
<1>5. th'[t] \in Threading /\ th'[t].pc = "exec" /\ Same(th'[t], th[t])
  BY <1>2, <1>4, PcShape
<1>6. ThreadOK(t)'
  BY <1>1, <1>2, <1>3, <1>5 DEF ThreadOK, Same, Cache, HasEnv, Making
<1> QED
  BY <1>3, <1>4, <1>6, OthersKept

\* A command begins, its container is found gone, or the environment has none.
LEMMA ExecKeeps == ASSUME SandboxInv, NEW t \in Threads, Exec(t) PROVE SandboxInv'
<1> DEFINE c == handle[th[t].env]
<1>1. SharedOK /\ ThreadOK(t)
  BY DEF SandboxInv
<1>2. th[t] \in Threading /\ th[t].env \in Envs /\ th[t].pc = "exec" /\ {"running", "lost"} \subseteq Pcs
  BY <1>1 DEF ThreadOK, Exec, HasEnv, Pcs
<1>3. lock' = lock /\ active' = active /\ lookalikes' = lookalikes
  BY DEF Exec, shared, bounds
<1>4. c \in Containers \cup {None}
  BY <1>1, <1>2 DEF SharedOK
<1>5. CASE Up(c)
  <2>1. c \in Containers /\ ctr[c] = "running"
    BY <1>4, <1>5 DEF Up
  <2>2. /\ inside' = [inside EXCEPT ![c] = inside[c] \cup {t}]
        /\ Step(t, [th[t] EXCEPT !.pc = "running", !.at = c, !.starts = @ + 1])
    BY <1>5 DEF Exec
  <2>3. SharedOK'
    BY <1>1, <2>1, <2>2 DEF Exec, SharedOK, shared, bounds
  <2>4. Step(t, th'[t])
        /\ th'[t] = [th[t] EXCEPT !.pc = "running", !.at = c, !.starts = @ + 1]
    BY <2>2, StepAt
  <2>5. th[t].starts + 1 \in Nat
    BY <1>2 DEF Threading
  <2> HIDE DEF c
  <2>6. th'[t] \in Threading /\ th'[t].pc = "running" /\ th'[t].env = th[t].env
        /\ th'[t].init = th[t].init /\ th'[t].starts = th[t].starts + 1
    BY <1>2, <2>1, <2>4, <2>5 DEF Threading
  <2>7. th'[t].starts = 1 \/ lookalikes' > 0
    BY <1>1, <1>2, <1>3, <2>6 DEF ThreadOK
  <2>8. ThreadOK(t)'
    BY <1>1, <1>2, <1>3, <2>6, <2>7 DEF ThreadOK, HasEnv, Making
  <2> QED
    BY <1>3, <2>3, <2>4, <2>8, OthersKept
<1>6. CASE ~Up(c) /\ c = None
  <2>1. SharedOK'
    BY <1>1, <1>6 DEF Exec, SharedOK, shared, bounds
  <2>2. Step(t, th'[t]) /\ th'[t] = [Idle EXCEPT !.pc = "over"]
    BY <1>6, StepAt DEF Exec, Ends
  <2>3. th'[t] \in Threading /\ th'[t].pc = "over" /\ ~th'[t].init /\ th'[t].starts = 0
    BY <2>2, OverShape
  <2>4. ThreadOK(t)'
    BY <1>1, <1>2, <1>3, <2>3 DEF ThreadOK, HasEnv, Making
  <2> QED
    BY <1>3, <2>1, <2>2, <2>4, OthersKept
<1>7. CASE ~Up(c) /\ c # None
  <2>1. SharedOK'
    BY <1>1, <1>7 DEF Exec, SharedOK, shared, bounds
  <2>2. Step(t, th'[t]) /\ th'[t] = [th[t] EXCEPT !.pc = "lost"]
    BY <1>7, StepAt DEF Exec, To
  <2>3. th'[t] \in Threading /\ th'[t].pc = "lost" /\ Same(th'[t], th[t])
    BY <1>2, <2>2, PcShape
  <2>4. ThreadOK(t)'
    BY <1>1, <1>2, <1>3, <2>3 DEF ThreadOK, Same, HasEnv, Making
  <2> QED
    BY <1>3, <2>1, <2>2, <2>4, OthersKept
<1> QED
  BY <1>5, <1>6, <1>7

\* The command ends.
LEMMA FinishKeeps == ASSUME SandboxInv, NEW t \in Threads, Finish(t) PROVE SandboxInv'
<1>1. SharedOK /\ ThreadOK(t)
  BY DEF SandboxInv
<1>2. SharedOK' /\ lock' = lock /\ active' = active /\ lookalikes' = lookalikes
  BY <1>1 DEF Finish, SharedOK, shared, bounds
<1>3. Step(t, th'[t]) /\ th'[t] = [Idle EXCEPT !.pc = "over"]
  BY StepAt DEF Finish, Ends
<1>4. th'[t] \in Threading /\ th'[t].pc = "over" /\ ~th'[t].init /\ th'[t].starts = 0
  BY <1>3, OverShape
<1>5. ThreadOK(t)'
  BY <1>1, <1>2, <1>4 DEF Finish, ThreadOK, HasEnv, Making
<1> QED
  BY <1>2, <1>3, <1>5, OthersKept

\* The output misleads execute.
LEMMA LookalikeKeeps ==
    ASSUME SandboxInv, NEW t \in Threads, Lookalike(t) PROVE SandboxInv'
<1>1. SharedOK /\ ThreadOK(t)
  BY DEF SandboxInv
<1>2. lock' = lock /\ active' = active /\ lookalikes' = lookalikes + 1 /\ lookalikes \in Nat
      /\ lookalikes' > 0 /\ lookalikes' \in Nat
  BY <1>1 DEF Lookalike, SharedOK, shared
<1>3. SharedOK'
  BY <1>1, <1>2 DEF Lookalike, SharedOK, shared
<1>4. th[t] \in Threading /\ th[t].env \in Envs /\ th[t].pc = "running" /\ "lost" \in Pcs
  BY <1>1 DEF Lookalike, ThreadOK, HasEnv, Pcs
<1>5. Step(t, th'[t]) /\ th'[t] = [th[t] EXCEPT !.pc = "lost"]
  BY StepAt DEF Lookalike, To
<1>6. th'[t] \in Threading /\ th'[t].pc = "lost" /\ Same(th'[t], th[t])
  BY <1>4, <1>5, PcShape
<1>7. ThreadOK(t)'
  BY <1>1, <1>2, <1>4, <1>6 DEF ThreadOK, Same, HasEnv, Making
<1> QED
  BY <1>2, <1>3, <1>5, <1>7, OthersKept

\* The handle is dropped and a container looked for, once; or the call ends.
LEMMA RecoverKeeps == ASSUME SandboxInv, NEW t \in Threads, Recover(t) PROVE SandboxInv'
<1>1. SharedOK /\ ThreadOK(t)
  BY DEF SandboxInv
<1>2. th[t] \in Threading /\ th[t].env \in Envs /\ th[t].pc = "lost" /\ "probe" \in Pcs
  BY <1>1 DEF Recover, ThreadOK, HasEnv, Pcs, Making
<1>3. SharedOK' /\ lock' = lock /\ active' = active /\ lookalikes' = lookalikes
  BY <1>1, <1>2 DEF Recover, SharedOK, docker, shared, bounds
<1>4. CASE persist /\ ~th[t].retried
  <2>1. Step(t, th'[t]) /\ th'[t] = [th[t] EXCEPT !.pc = "probe", !.init = FALSE, !.retried = TRUE]
    BY <1>4, StepAt DEF Recover
  <2>2. th'[t] \in Threading /\ th'[t].pc = "probe" /\ th'[t].env = th[t].env /\ ~th'[t].init
        /\ th'[t].starts = th[t].starts
    BY <1>2, <2>1 DEF Threading
  <2>3. ThreadOK(t)'
    BY <1>1, <1>2, <1>3, <2>2 DEF ThreadOK, HasEnv, Making
  <2> QED
    BY <1>3, <2>1, <2>3, OthersKept
<1>5. CASE ~(persist /\ ~th[t].retried)
  <2>1. Step(t, th'[t]) /\ th'[t] = [Idle EXCEPT !.pc = "over"]
    BY <1>5, StepAt DEF Recover, Ends
  <2>2. th'[t] \in Threading /\ th'[t].pc = "over" /\ ~th'[t].init /\ th'[t].starts = 0
    BY <2>1, OverShape
  <2>3. ThreadOK(t)'
    BY <1>1, <1>2, <1>3, <2>2 DEF ThreadOK, HasEnv, Making
  <2> QED
    BY <1>3, <2>1, <2>3, OthersKept
<1> QED
  BY <1>4, <1>5

\* The command is interrupted.
LEMMA KillKeeps == ASSUME SandboxInv, NEW t \in Threads, Kill(t) PROVE SandboxInv'
<1>1. SharedOK /\ ThreadOK(t)
  BY DEF SandboxInv
<1>2. th[t] \in Threading /\ th[t].env \in Envs /\ th[t].pc = "running"
      /\ {"killed", "unstopped"} \subseteq Pcs
  BY <1>1 DEF Kill, ThreadOK, HasEnv, Pcs
<1>3. lock' = lock /\ active' = active /\ lookalikes' = lookalikes
  BY DEF Kill, shared
<1>4. Up(handle[th[t].env]) => handle[th[t].env] \in Containers
  BY <1>1, <1>2 DEF Up, SharedOK
<1>5. SharedOK'
  BY <1>1, <1>3, <1>4, PutKeeps DEF Kill, SharedOK, docker, shared
<1>6. PICK p \in {"killed", "unstopped"} : To(t, p)
  BY DEF Kill
<1>7. Step(t, th'[t]) /\ th'[t] = [th[t] EXCEPT !.pc = p]
  BY <1>6, StepAt DEF To
<1>8. th'[t] \in Threading /\ th'[t].pc = p /\ Same(th'[t], th[t])
  BY <1>2, <1>6, <1>7, PcShape
<1>9. ThreadOK(t)'
  BY <1>1, <1>2, <1>3, <1>6, <1>8 DEF ThreadOK, Same, HasEnv, Making
<1> QED
  BY <1>3, <1>5, <1>7, <1>9, OthersKept

\* The next call begins.
LEMMA AgainKeeps == ASSUME SandboxInv, NEW t \in Threads, Again(t) PROVE SandboxInv'
<1>1. SharedOK /\ ThreadOK(t)
  BY DEF SandboxInv
<1>2. SharedOK' /\ lock' = lock /\ active' = active /\ lookalikes' = lookalikes
  BY <1>1 DEF Again, SharedOK, docker, shared, bounds
<1>3. Step(t, th'[t]) /\ th'[t] = Idle
  BY StepAt DEF Again
<1>4. ThreadOK(t)'
  BY <1>1, <1>2, <1>3 DEF Again, Idle, Threading, Pcs, ThreadOK, HasEnv, Making
<1> QED
  BY <1>2, <1>3, <1>4, OthersKept

-------------------------------------------------------------------------------
\* The sweep, the reaper and other processes change no thread, and at most take
\* the active environment away.
LEMMA NoThreadMoves ==
    ASSUME SandboxInv, SharedOK', th' = th, lock' = lock, lookalikes' = lookalikes,
           active' = active \/ active' = None
    PROVE  SandboxInv'
  BY DEF SandboxInv, ThreadOK

LEMMA SweepKeeps ==
    ASSUME SandboxInv, SweepTake \/ SweepForget \/ SweepClean PROVE SandboxInv'
<1>1. SharedOK
  BY DEF SandboxInv
<1>2. CASE SweepTake
  <2>1. SharedOK'
    BY <1>1, <1>2 DEF SweepTake, SharedOK, docker
  <2> QED
    BY <1>2, <2>1, NoThreadMoves DEF SweepTake
<1>3. CASE SweepForget
  <2>1. SharedOK'
    BY <1>1, <1>3 DEF SweepForget, SharedOK, docker, bounds
  <2> QED
    BY <1>3, <2>1, NoThreadMoves DEF SweepForget, bounds
<1>4. CASE SweepClean
  <2>1. SharedOK'
    BY <1>1, <1>4 DEF SweepClean, SharedOK, docker, shared, bounds
  <2> QED
    BY <1>4, <2>1, NoThreadMoves DEF SweepClean, shared, bounds
<1> QED
  BY <1>2, <1>3, <1>4

\* What other calls of docker do to a container is what PutKeeps says.
LEMMA DockerKeeps ==
    ASSUME SandboxInv, SweepStop \/ SweepRemove \/ ReapList \/ ReapOne \/ Outside
    PROVE  SandboxInv'
<1>1. SharedOK
  BY DEF SandboxInv
<1>2. \/ UNCHANGED docker
      \/ \E c, s : s \in {"created", "running", "exited", "gone"} /\ Put(c, s)
  BY DEF SweepStop, SweepRemove, ReapList, ReapOne, Outside
<1>3. /\ th' = th /\ lock' = lock /\ active' = active /\ lookalikes' = lookalikes
      /\ UNCHANGED <<persist, handle, cached>> /\ reap' \subseteq Containers
  BY <1>1 DEF SweepStop, SweepRemove, ReapList, ReapOne, Outside, shared, bounds, SharedOK
<1>4. /\ ctr' \in [Containers -> {"created", "running", "exited", "gone"}]
      /\ inside' \in [Containers -> SUBSET Threads]
      /\ \A d \in Containers : inside'[d] # {} => ctr'[d] = "running"
  BY <1>1, <1>2, PutKeeps DEF SharedOK, docker
<1>5. SharedOK'
  BY <1>1, <1>3, <1>4 DEF SharedOK
<1> QED
  BY <1>3, <1>5, NoThreadMoves

-------------------------------------------------------------------------------
LEMMA InitSandbox == Init => SandboxInv
<1> SUFFICES ASSUME Init PROVE SandboxInv
  OBVIOUS
<1>1. \A t \in Threads : th[t] = Idle
  BY DEF Init
<1>2. Idle \in Threading /\ Idle.pc = "idle" /\ ~Idle.init /\ Idle.starts = 0
  BY DEF Idle, Threading, Pcs
<1>3. th \in [Threads -> Threading]
  BY <1>2 DEF Init
<1>4. SharedOK
  BY DEF Init, SharedOK
<1>5. ASSUME NEW t \in Threads PROVE ThreadOK(t)
  <2>1. lock # t
    BY ContainersAssumption DEF Init
  <2> QED
    BY <1>1, <1>2, <2>1 DEF ThreadOK, HasEnv, Making
<1> QED
  BY <1>3, <1>4, <1>5 DEF SandboxInv

LEMMA NextSandbox == SandboxInv /\ [Next]_vars => SandboxInv'
<1> SUFFICES ASSUME SandboxInv, [Next]_vars PROVE SandboxInv'
  OBVIOUS
<1>1. ASSUME NEW t \in Threads, Go(t) PROVE SandboxInv'
  BY <1>1, VerifyKeeps, ForgetKeeps, CreateOrJoinKeeps, ProbeKeeps, AttachKeeps, RunKeeps,
     SnapshotKeeps, RegisterKeeps, CacheKeeps, ExecKeeps, RecoverKeeps
  DEF Go
<1>2. ASSUME NEW t \in Threads,
             Look(t) \/ AttachRefused(t) \/ Finish(t) \/ Lookalike(t) \/ Kill(t) \/ Again(t)
      PROVE  SandboxInv'
  BY <1>2, LookKeeps, AttachRefusedKeeps, FinishKeeps, LookalikeKeeps, KillKeeps, AgainKeeps
<1>3. CASE UNCHANGED vars
  BY <1>3 DEF vars, SandboxInv, SharedOK, ThreadOK
<1> QED
  BY <1>1, <1>2, <1>3, SweepKeeps, DockerKeeps DEF Next

LEMMA InvariantlySandbox == Spec => []SandboxInv
  BY InitSandbox, NextSandbox, PTL DEF Spec

\* Types, for every number of threads and containers; no command runs in a
\* container that does not; and the creation lock is held by exactly the thread
\* that constructs an environment.
THEOREM TypeCorrect == Spec => []TypeOK
<1>1. SandboxInv => TypeOK
  <2> SUFFICES ASSUME SandboxInv PROVE TypeOK
    OBVIOUS
  <2>1. \A t \in Threads : th[t].pc \in Pcs /\ th[t].env \in Envs \cup {None}
    BY DEF SandboxInv, Threading
  <2> QED
    BY <2>1 DEF SandboxInv, SharedOK, ThreadOK, TypeOK, Pcs, Constructs
<1> QED
  BY <1>1, InvariantlySandbox, PTL

\* Of any number of calls that find the task without an environment, one at a
\* time constructs one, and none while the task has one: the second look at the
\* active environments happens under the creation lock, and only its holder
\* registers. What a recovery starts, without the lock, is not spoken of.
THEOREM OneSandboxAlways == Spec => []OneSandbox
<1>1. ASSUME SandboxInv, NEW t \in Threads, Constructs(t)
      PROVE  active = None /\ \A u \in Threads \ {t} : ~Constructs(u)
  <2>1. active = None /\ lock = t
    BY <1>1 DEF SandboxInv, ThreadOK, Constructs
  <2>2. ASSUME NEW u \in Threads \ {t} PROVE ~Constructs(u)
    <3>1. ThreadOK(u)
      BY <1>1 DEF SandboxInv
    <3>2. lock = u <=> Constructs(u)
      BY <3>1 DEF ThreadOK, Constructs
    <3> QED
      BY <2>1, <3>2
  <2> QED
    BY <2>1, <2>2
<1>2. SandboxInv => OneSandbox
  BY <1>1 DEF OneSandbox
<1> QED
  BY <1>2, InvariantlySandbox, PTL

\* No command that began is started again, for any number of recoveries and
\* troubles, as long as no output was mistaken for docker's own complaint.
THEOREM StartedOnceAlways == Spec => []StartedOnce
<1>1. SandboxInv => StartedOnce
  <2> SUFFICES ASSUME SandboxInv, NEW t \in Threads, th[t].starts > 1 PROVE lookalikes > 0
    BY DEF StartedOnce
  <2> QED
    BY DEF SandboxInv, ThreadOK
<1> QED
  BY <1>1, InvariantlySandbox, PTL
===============================================================================
