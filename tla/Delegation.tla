----------------------------- MODULE Delegation ------------------------------
(***************************************************************************)
(* delegate_task (tools/delegate_tool.py): an agent builds child agents,   *)
(* runs them in threads, alone, as a batch, or as a batch in the           *)
(* background, and answers with one entry per task; interrupts travel down *)
(* the lists of attached children (run_agent.py, interrupt).               *)
(*                                                                         *)
(* A child has two threads: the one of _run_single_child, which waits for  *)
(* the other, which runs the conversation and may hang for ever.           *)
(***************************************************************************)
EXTENDS Naturals, Sequences, FiniteSets, SequencesExt

CONSTANTS
  MaxKids,       \* bound: children ever built, numbered as they are built
  MaxCalls,      \* bound: delegate_task calls, numbered as they are made
  Nobody,
  MaxDepth,      \* delegation.max_spawn_depth
  MaxChildren,   \* delegation.max_concurrent_children, both caps
  HasTimeout,    \* delegation.child_timeout_seconds is set
  MaxInterrupts, \* bound: interrupts by people and by the async registry
  MaxFailures    \* bound: builds, leases and readings of a result that raise

ASSUME DelegationAssumption ==
  /\ MaxKids \in Nat /\ MaxCalls \in Nat /\ Nobody \notin Nat
  /\ MaxDepth \in Nat \ {0} /\ MaxChildren \in Nat \ {0}
  /\ HasTimeout \in BOOLEAN /\ MaxInterrupts \in Nat /\ MaxFailures \in Nat

VARIABLES
  syncOnly,   \* HERMES_FORCE_SYNC_DELEGATION, or no way to deliver later
  call,       \* delegate_task calls
  parent, depth,  \* of a built child
  run,        \* child -> what its _run_single_child is doing
  work,       \* child -> its conversation thread
  entry,      \* child -> status of the entry _run_single_child returns
  active,     \* agent -> _active_children
  registered, \* children in the registry, their credential leased
  flag,       \* agents with _interrupt_requested
  due, fan,   \* interrupts on their way: to be flagged, to be passed on
  names,      \* whose tools _last_resolved_tool_names lists
  interrupts, failures

vars == <<syncOnly, call, parent, depth, run, work, entry, active,
          registered, flag, due, fan, names, interrupts, failures>>
Statuses == {"completed", "failed", "error", "interrupted", "timeout"}
tree == <<syncOnly, parent, depth>>
life == <<run, work, entry, registered>>
signals == <<flag, due, fan>>
bounds == <<interrupts, failures>>

Root == 0       \* the top-level agent
Kids == 1..MaxKids
Calls == 1..MaxCalls
Agents == Kids \cup {Root}
NoCall == [pc |-> "idle", by |-> Nobody, size |-> 0, kids |-> {}, async |-> FALSE,
           saved |-> Root, results |-> <<>>]
Unbuilt == {c \in Kids : parent[c] = Nobody}
Promised ==     \* children that calls still have to build
  {x \in Calls \X (1..MaxChildren) : /\ call[x[1]].pc = "build"
                                     /\ x[2] \in (Cardinality(call[x[1]].kids) + 1)..call[x[1]].size}
Remaining(d) == call[d].kids \ {call[d].results[i][1] : i \in DOMAIN call[d].results}
DepthOf(a) == IF a = Root THEN 0 ELSE depth[a]

(* An agent waits in its own call unless the call was sent to background.  *)
Waits(a) ==
  \E d \in Calls :
    /\ call[d].pc \notin {"idle", "answered", "failed"}
    /\ call[d].by = a /\ ~call[d].async

-----------------------------------------------------------------------------
(* delegate_task: checks, then the children are built one after the other. *)

(* HERMES_FORCE_SYNC_DELEGATION, or a caller that is itself a child.       *)
InBackground(a) == ~syncOnly /\ DepthOf(a) = 0

(* A leaf is a child that makes no call; a refused one (depth, too many    *)
(* tasks, no goal, spawning paused) changes nothing.                       *)
MayDelegate(a) ==
  /\ DepthOf(a) < MaxDepth
  /\ a # Root => work[a] = "running"
  /\ a \notin flag /\ ~Waits(a)

Delegate(d, a) ==
  /\ call[d] = NoCall /\ MayDelegate(a)
  /\ \A e \in 1..(d - 1) : call[e] # NoCall
  /\ \E n \in 1..MaxChildren :
       /\ n + Cardinality(Promised) <= Cardinality(Unbuilt)
       /\ call' = [call EXCEPT ![d] =
            [NoCall EXCEPT !.pc = "build", !.by = a, !.size = n, !.saved = names]]
  /\ UNCHANGED <<tree, life, active, signals, names, bounds>>

(* _build_child_agent: the constructor overwrites the tool names, and the  *)
(* child is attached to its parent for interrupts.                         *)
Build(d) ==
  LET a == call[d].by IN
  /\ call[d].pc = "build" /\ Cardinality(call[d].kids) < call[d].size
  /\ \E c \in Unbuilt :
       /\ \A x \in Unbuilt : c <= x
       /\ parent' = [parent EXCEPT ![c] = a]
       /\ depth' = [depth EXCEPT ![c] = DepthOf(a) + 1]
       /\ run' = [run EXCEPT ![c] = "built"]
       /\ active' = [active EXCEPT ![a] = @ \cup {c}]
       /\ names' = c
       /\ call' = [call EXCEPT ![d].kids = @ \cup {c}]
  /\ UNCHANGED <<syncOnly, work, entry, registered, signals, bounds>>

(* Mutant: no finally around the loop.                                     *)
BuildFailsDirty(d) ==
  /\ call[d].pc = "build" /\ call[d].kids # {} /\ failures < MaxFailures
  /\ failures' = failures + 1
  /\ call' = [call EXCEPT ![d].pc = "failed"]
  /\ UNCHANGED <<tree, life, active, signals, names, interrupts>>

(* A build raises: the names are restored, the call fails, and what was    *)
(* built stays attached, never run and never closed.                       *)
BuildFails(d) ==
  /\ call[d].pc = "build" /\ call[d].kids # {} /\ failures < MaxFailures
  /\ failures' = failures + 1
  /\ names' = call[d].saved
  /\ call' = [call EXCEPT ![d].pc = "failed"]
  /\ UNCHANGED <<tree, life, active, signals, interrupts>>

Built(d) ==
  /\ call[d].pc = "build" /\ Cardinality(call[d].kids) = call[d].size
  /\ names' = call[d].saved
  /\ call' = [call EXCEPT ![d].pc = IF InBackground(call[d].by) THEN "detach" ELSE "run"]
  /\ UNCHANGED <<tree, life, active, signals, bounds>>

(* Background: the children are taken off the parent's list ...            *)
Detach(d) ==
  /\ call[d].pc = "detach"
  /\ active' = [active EXCEPT ![call[d].by] = @ \ call[d].kids]
  /\ call' = [call EXCEPT ![d].pc = "dispatch"]
  /\ UNCHANGED <<tree, life, signals, names, bounds>>

InProgress(d) == call[d].async /\ call[d].pc \notin {"answered", "failed"}

(* ... and the async registry (external) accepts the batch, or is full and *)
(* the caller runs it inline, with its children detached.                  *)
Dispatch(d) ==
  /\ call[d].pc = "dispatch"
  /\ call' = [call EXCEPT ![d].pc = "run",
       ![d].async = Cardinality({e \in Calls : InProgress(e)}) < MaxChildren]
  /\ UNCHANGED <<tree, life, active, signals, names, bounds>>

-----------------------------------------------------------------------------
(* _run_single_child.                                                      *)

(* The lease, the registry, and the conversation thread.                   *)
Start(d, c) ==
  /\ call[d].pc \in {"run", "join"} /\ c \in call[d].kids /\ run[c] = "built"
  /\ run' = [run EXCEPT ![c] = "waiting"]
  /\ work' = [work EXCEPT ![c] = "running"]
  /\ registered' = registered \cup {c}
  /\ UNCHANGED <<tree, call, entry, active, signals, names, bounds>>

(* acquire_lease raises before the try: the child is not registered, and   *)
(* nothing detaches or closes it. The batch's loop writes an error for its *)
(* future; a task run alone takes the call down with it.                   *)
LeaseFails(d, c) ==
  /\ call[d].pc \in {"run", "join"} /\ c \in call[d].kids /\ run[c] = "built"
  /\ failures < MaxFailures /\ failures' = failures + 1
  /\ run' = [run EXCEPT ![c] = "over"]
  /\ entry' = [entry EXCEPT ![c] = "error"]
  /\ call' = [call EXCEPT ![d].pc = IF call[d].size = 1 THEN "failed" ELSE @]
  /\ UNCHANGED <<tree, work, active, registered, signals, names, interrupts>>

(* The conversation ends by itself, because it was interrupted, or with an *)
(* exception.                                                              *)
Converse(c) ==
  /\ work[c] = "running" /\ ~Waits(c)
  /\ \E o \in {"ended", "raised"} \cup (IF c \in flag THEN {"interrupted"} ELSE {}) :
       work' = [work EXCEPT ![c] = o]
  /\ UNCHANGED <<tree, call, run, entry, active, registered, signals,
                 names, bounds>>

(* future.result raises: the child is interrupted, and a TimeoutError of   *)
(* the conversation counts as the time limit. Or it returns, and the entry *)
(* is made from the result, which has a summary or none, unless making it  *)
(* raises in its turn.                                                     *)
Deliver(c) ==
  /\ run[c] = "waiting" /\ work[c] # "running"
  /\ run' = [run EXCEPT ![c] = "closing"]
  /\ \E s \in Statuses :
       /\ entry' = [entry EXCEPT ![c] = s]
       /\ \/ /\ work[c] = "raised" /\ s \in {"error", "timeout"}
             /\ due' = due \cup {c} /\ UNCHANGED failures
          \/ /\ work[c] = "ended" /\ s \in {"completed", "failed"}
             /\ UNCHANGED <<due, failures>>
          \/ /\ work[c] = "interrupted" /\ s = "interrupted"
             /\ UNCHANGED <<due, failures>>
          \/ /\ work[c] # "raised" /\ s = "error"
             /\ failures < MaxFailures /\ failures' = failures + 1
             /\ UNCHANGED due
  /\ UNCHANGED <<tree, call, work, active, registered, flag, fan,
                 names, interrupts>>

(* Mutant: the time limit is only looked at when the child has ended.      *)
TimeoutLate(c) ==
  /\ HasTimeout /\ run[c] = "waiting" /\ work[c] # "running"
  /\ entry' = [entry EXCEPT ![c] = "timeout"]
  /\ due' = due \cup {c}
  /\ run' = [run EXCEPT ![c] = "closing"]
  /\ UNCHANGED <<tree, call, work, active, registered, flag, fan,
                 names, bounds>>

(* The time limit: the child is interrupted, its thread is abandoned.      *)
Timeout(c) ==
  /\ HasTimeout /\ run[c] = "waiting" /\ work[c] = "running"
  /\ entry' = [entry EXCEPT ![c] = "timeout"]
  /\ due' = due \cup {c}
  /\ run' = [run EXCEPT ![c] = "closing"]
  /\ UNCHANGED <<tree, call, work, active, registered, flag, fan,
                 names, bounds>>

(* AIAgent.close closes what is attached, and so on down.                  *)
Below(c) ==
  LET upto[k \in 0..MaxDepth] ==
        IF k = 0 THEN {c} ELSE upto[k - 1] \cup UNION {active[x] : x \in upto[k - 1]}
  IN upto[MaxDepth]

(* Mutant: a child that ended is not taken off the parent's list or out of *)
(* the registry.                                                           *)
CloseKept(c) ==
  /\ run[c] = "closing"
  /\ run' = [run EXCEPT ![c] = "over"]
  /\ \E d \in Calls : c \in call[d].kids /\ names' = call[d].saved
  /\ UNCHANGED <<tree, call, work, entry, registered, active, signals, bounds>>

(* The finally block.                                                      *)
Close(c) ==
  /\ run[c] = "closing"
  /\ run' = [run EXCEPT ![c] = "over"]
  /\ registered' = registered \ {c}
  /\ \E d \in Calls : c \in call[d].kids /\ names' = call[d].saved
  /\ active' = [a \in Agents |-> IF a \in Below(c) THEN {} ELSE active[a] \ {c}]
  /\ UNCHANGED <<tree, call, work, entry, signals, bounds>>

-----------------------------------------------------------------------------
(* _execute_and_aggregate, on the caller's thread or on the registry's.    *)

Over(d) == {c \in call[d].kids : run[c] = "over"}

(* wait(FIRST_COMPLETED): whatever is done gets its entry, in any order.   *)
Collect(d) ==
  /\ call[d].pc = "run"
  /\ \E c \in Over(d) \cap Remaining(d) :
       call' = [call EXCEPT ![d].results = Append(@, <<c, entry[c]>>)]
  /\ UNCHANGED <<tree, life, active, signals, names, bounds>>

(* The entry the loop writes for a child that is done, or is not.          *)
GivenUp(c) == <<c, IF run[c] = "over" THEN entry[c] ELSE "interrupted">>

(* Mutant: the entries already there are not left out.                     *)
AbandonAll(d) ==
  /\ call[d].pc = "run" /\ call[d].size > 1
  /\ call[d].by \in flag /\ Remaining(d) # {}
  /\ call' = [call EXCEPT ![d].pc = "join",
       ![d].results = @ \o SetToSeq({GivenUp(c) : c \in call[d].kids})]
  /\ UNCHANGED <<tree, life, active, signals, names, bounds>>

(* The batch's loop sees that the parent was interrupted: the rest gets    *)
(* an entry that says it was interrupted, whatever the child does.         *)
Abandon(d) ==
  /\ call[d].pc = "run" /\ call[d].size > 1
  /\ call[d].by \in flag /\ Remaining(d) # {}
  /\ call' = [call EXCEPT ![d].pc = "join",
       ![d].results = @ \o SetToSeq({GivenUp(c) : c \in Remaining(d)})]
  /\ UNCHANGED <<tree, life, active, signals, names, bounds>>

(* Leaving the executor's with block joins its threads; then the results   *)
(* are sorted, summaries cut to the budget, and the call answered.         *)
Answer(d) ==
  /\ call[d].pc = "run" => Remaining(d) = {}
  /\ call[d].pc \in {"run", "join"} /\ Over(d) = call[d].kids
  /\ call' = [call EXCEPT ![d].pc = "answered"]
  /\ UNCHANGED <<tree, life, active, signals, names, bounds>>

-----------------------------------------------------------------------------
(* AIAgent.interrupt, as three steps: the flag, a copy of the list of      *)
(* attached children, and an interrupt of each of them.                    *)

Flag(a) ==
  /\ a \in due
  /\ flag' = flag \cup {a} /\ due' = due \ {a} /\ fan' = fan \cup {a}
  /\ UNCHANGED <<tree, call, life, active, names, bounds>>

FanOut(a) ==
  /\ a \in fan
  /\ due' = due \cup active[a] /\ fan' = fan \ {a}
  /\ UNCHANGED <<tree, call, life, active, flag, names, bounds>>

(* A person stops the turn or one subagent; the registry cancels a batch.  *)
Interrupt ==
  /\ interrupts < MaxInterrupts
  /\ interrupts' = interrupts + 1
  /\ \/ due' = due \cup {Root}
     \/ \E c \in registered : due' = due \cup {c}
     \/ \E d \in Calls : InProgress(d) /\ due' = due \cup call[d].kids
  /\ UNCHANGED <<tree, call, life, active, flag, fan, names, failures>>

(* The top-level agent's turn ends: clear_interrupt.                       *)
TurnEnds ==
  /\ Root \in flag /\ ~Waits(Root)
  /\ flag' = flag \ {Root}
  /\ UNCHANGED <<tree, call, life, active, due, fan, names, bounds>>

-----------------------------------------------------------------------------
Init ==
  /\ syncOnly \in BOOLEAN
  /\ call = [d \in Calls |-> NoCall]
  /\ parent = [c \in Kids |-> Nobody] /\ depth = [c \in Kids |-> 0]
  /\ run = [c \in Kids |-> "none"] /\ work = [c \in Kids |-> "none"]
  /\ entry = [c \in Kids |-> "none"]
  /\ active = [a \in Agents |-> {}]
  /\ registered = {}
  /\ flag = {} /\ due = {} /\ fan = {}
  /\ names = Root
  /\ interrupts = 0 /\ failures = 0

Proceed(d) ==
  \/ Build(d) \/ Built(d) \/ Detach(d) \/ Dispatch(d) \/ \E c \in Kids : Start(d, c)
  \/ Collect(d) \/ Abandon(d) \/ Answer(d)

Next ==
  \/ \E d \in Calls : (\E a \in Agents : Delegate(d, a)) \/ BuildFails(d) \/ Proceed(d)
                        \/ \E c \in Kids : LeaseFails(d, c)
  \/ \E c \in Kids : Converse(c) \/ Deliver(c) \/ Timeout(c) \/ Close(c)
  \/ \E a \in Agents : Flag(a) \/ FanOut(a)
  \/ Interrupt \/ TurnEnds

(* Threads that can run do; the conversation thread of a child may hang.   *)
Fairness ==
  /\ \A d \in Calls : WF_vars(Proceed(d))
  /\ \A c \in Kids : WF_vars(Deliver(c)) /\ WF_vars(Timeout(c)) /\ WF_vars(Close(c))

Spec == Init /\ [][Next]_vars /\ Fairness

-----------------------------------------------------------------------------
(* Types; only built children are on their parent's list, and a child is   *)
(* registered, its credential leased, as long as its thread waits for it.  *)
TypeOK ==
  /\ \A d \in Calls :
       /\ call[d].pc \in {"idle", "build", "failed", "detach", "dispatch", "run", "join",
                          "answered"}
       /\ call[d].by \in Agents \cup {Nobody} /\ call[d].async \in BOOLEAN
       /\ call[d].kids \subseteq Kids /\ Cardinality(call[d].kids) <= call[d].size
       /\ call[d].results \in Seq(Kids \X Statuses)
  /\ parent \in [Kids -> Agents \cup {Nobody}] /\ depth \in [Kids -> 0..MaxDepth]
  /\ \A a \in Agents : active[a] \subseteq {c \in Kids : parent[c] = a}
  /\ registered = {c \in Kids : run[c] \in {"waiting", "closing"}}
  /\ flag \cup due \cup fan \subseteq Agents /\ names \in Agents

(* A call answers with exactly one entry per task, although children end,  *)
(* time out, raise and are abandoned while it collects.                    *)
OneEntryPerTask ==
  \A d \in Calls : call[d].pc = "answered" =>
    Len(call[d].results) = call[d].size /\ Remaining(d) = {}

(* Unless a child delegated too, the process-wide tool names are the       *)
(* parent's whenever no child is being built.                              *)
NamesRestored ==
  /\ \A c \in Kids : parent[c] \in {Root, Nobody}
  /\ \A d \in Calls : call[d].pc # "build"
  => names = Root

(* Interrupting the parent's turn leaves a batch in the background alone:  *)
(* its children are reported as interrupted only when they were told to    *)
(* stop. It fails: the loop that collects polls the parent's flag there    *)
(* too.                                                                    *)
BackgroundUnaffected ==
  \A d \in Calls : call[d].async =>
    \A i \in DOMAIN call[d].results :
      call[d].results[i][2] = "interrupted" => call[d].results[i][1] \in flag \cup due

(* The loop of a call that its caller waits for gives up children that     *)
(* have got the interrupt, or are getting it. It fails: a child attached   *)
(* after the list was copied is reported as interrupted and never told, so *)
(* that the join still waits for it until it ends by itself.               *)
GivenUpWereTold ==
  \A d \in Calls : ~call[d].async =>
    \A i \in DOMAIN call[d].results :
      call[d].results[i][2] = "interrupted" =>
        \/ call[d].results[i][1] \in flag \cup due
        \/ call[d].by \in due \cup fan

(* A call that waits for children that hang still returns: the time limit  *)
(* cuts each of them off, and no join waits for an abandoned thread.       *)
CallsReturn ==
  \A d \in Calls : call[d].pc # "idle" ~> call[d].pc \in {"answered", "failed"}
=============================================================================
