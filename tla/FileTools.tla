------------------------------ MODULE FileTools ------------------------------
(***************************************************************************)
(* The file tools (tools/file_tools.py): read_file, write_file, patch and  *)
(* search_files, called at the same time by several agents and several     *)
(* times by one agent, over files that people and commands change too.     *)
(*                                                                         *)
(* A file is the number of its last change, which is also its mtime: no    *)
(* two changes share a timestamp.  A read is of one region of the file.    *)
(* The tools lock and track the path they resolve a name to; the shell of  *)
(* the one terminal environment gets the name itself from read_file and    *)
(* V4A patches, and resolves it against its own current directory.         *)
(*                                                                         *)
(* seen, kept and stray are history variables: what the agent's context    *)
(* shows, the patches a file must still have, and the files some call      *)
(* wrote that were not among those it locks.                               *)
(***************************************************************************)
EXTENDS Naturals, Sequences, FiniteSets, SequencesExt

CONSTANTS
  Tasks, Default,  \* agents, and the task id "default" of _resolve_path
  Slots, TaskOf,   \* concurrent calls and the agent each belongs to
  Dirs,            \* directories; a path is a file <<dir>> of one of them
  ProcessCwd, TerminalCwd, Unset,  \* os.getcwd(), $TERMINAL_CWD or Unset
  Override,        \* task -> registered cwd override, or Unset
  PathOrder,       \* the paths in the order of str.sort
  Cap,             \* _DEDUP_CAP and _READ_TIMESTAMPS_CAP
  Hosts,           \* what the host may have at the paths of the environment
  Inputs,          \* bound: slot -> the calls it may be given, [op, names]
  Commands,        \* bound: task -> the directories its commands end in
  MaxCalls,        \* bound: tool calls
  MaxEdits,        \* bound: changes by others
  MaxOther         \* bound: cd, other tools, compressions, calls given up

Relative == <<"relative">>
Paths == Range(PathOrder)
Names == Paths \cup {Relative}
Owners == Tasks \cup {Default}

ASSUME FileToolsAssumption ==
  /\ TaskOf \in [Slots -> Tasks] /\ "none" \notin Slots
  /\ \A s \in Slots : \A i \in Inputs[s] :
       /\ i.op \in {"search", "read", "write", "replace", "v4a"}
       /\ i.names \in Seq(Names) /\ i.names # <<>>
       /\ i.op # "v4a" => Len(i.names) = 1
  /\ \A t \in Tasks : Commands[t] \subseteq Dirs
  /\ PathOrder \in Seq({<<d>> : d \in Dirs}) /\ Paths = {<<d>> : d \in Dirs}
  /\ Len(PathOrder) = Cardinality(Dirs)
  /\ Unset \notin Dirs /\ ProcessCwd \in Dirs /\ TerminalCwd \in Dirs \cup {Unset}
  /\ Override \in [Owners -> Dirs \cup {Unset}]
  /\ Hosts \subseteq {"same", "none", "other"}
  /\ Cap \in Nat \ {0} /\ MaxCalls \in Nat /\ MaxEdits \in Nat /\ MaxOther \in Nat

VARIABLES
  file,      \* path -> [there, ver, edits]: exists, last change, its patches
  host,      \* the host has the "same" files, "none", or "other" ones
  shell,     \* the current directory of the environment's shell
  cwd,       \* task -> recorded cwd of the session, or Unset
  tracker,   \* task -> its _read_tracker entry
  registry,  \* file_state: who read what, and whose read a sibling outdated
  locks,     \* path -> the call that holds lock_path, or NoCall
  call,      \* slot -> the call in progress
  seen, kept, stray,
  changes, edits, calls, others

vars == <<file, host, shell, cwd, tracker, registry, locks, call, seen, kept, stray,
          changes, edits, calls, others>>
place == <<host, shell, cwd>>
ghosts == <<seen, kept, stray>>
counters == <<changes, edits, calls, others>>

NoCall == "none"

(* at: the resolved names; mine: the paths to lock, todo: those not yet    *)
(* locked; got: the mtime of the dedup entry; shown: the content read;     *)
(* base: what the patch loaded for each name; gone: nobody waits for it.   *)
Idle == [pc |-> "idle", op |-> "none", names |-> <<>>, at |-> <<>>, mine |-> {}, todo |-> {},
         next |-> 1, got |-> 0, shown |-> {}, base |-> <<>>, warn |-> FALSE, gone |-> FALSE]
NewTracker == [made |-> FALSE, key |-> <<>>, count |-> 0, dedup |-> <<>>,
               hits |-> <<>>, stamps |-> <<>>]

-----------------------------------------------------------------------------
(* Path resolution.                                                        *)

(* The recorded cwd, then the registered override, then $TERMINAL_CWD.     *)
WorkspaceRoot(t) ==
  IF cwd[t] # Unset THEN cwd[t]
  ELSE IF Override[t] # Unset THEN Override[t] ELSE TerminalCwd

BaseDir(t) == IF WorkspaceRoot(t) # Unset THEN WorkspaceRoot(t) ELSE ProcessCwd

ResolvePath(n, t) == IF n = Relative THEN <<BaseDir(t)>> ELSE n

(* The names of a call, resolved for its agent.                            *)
Resolved(names, t) == [i \in DOMAIN names |-> ResolvePath(names[i], t)]

(* The file the shell opens when it is given the name as it is.            *)
ShellPath(n) == IF n = Relative THEN <<shell>> ELSE n

(* os.path.getmtime on the host: nothing when it raises OSError, and a     *)
(* constant when the host has another file there.                          *)
Mtime(p) ==
  {v \in {file[p].ver} : host = "same" /\ file[p].there} \cup {v \in {0} : host = "other"}

(* Mutant: the locks are taken in any order.                               *)
Whichever(paths) == paths

(* The paths of a call are deduplicated and sorted for their locks: the    *)
(* first of those left is the next.                                        *)
Place(p) == CHOOSE i \in DOMAIN PathOrder : PathOrder[i] = p
First(paths) == {p \in paths : \A q \in paths : Place(p) <= Place(q)}

-----------------------------------------------------------------------------
(* The tracker's dicts, in the order of insertion.                         *)

Lookup(d, k) == {d[i].val : i \in {j \in DOMAIN d : d[j].key = k}}
Drop(d, k) ==
  IF Lookup(d, k) = {} THEN d ELSE RemoveAt(d, CHOOSE i \in DOMAIN d : d[i].key = k)

Put(d, k, v) ==
  IF Lookup(d, k) = {} THEN Append(d, [key |-> k, val |-> v])
  ELSE [i \in DOMAIN d |-> IF d[i].key = k THEN [d[i] EXCEPT !.val = v] ELSE d[i]]

(* Mutant: one entry too many.                                             *)
CappedLate(d) == IF Len(d) > Cap + 1 THEN SubSeq(d, Len(d) - Cap + 1, Len(d)) ELSE d

(* _cap_read_tracker_data: the oldest entries go.                          *)
Capped(d) == IF Len(d) > Cap THEN SubSeq(d, Len(d) - Cap + 1, Len(d)) ELSE d

Count(d, k) == IF Lookup(d, k) = {} THEN 0 ELSE CHOOSE v \in Lookup(d, k) : TRUE

(* The dict after an attempt to store an mtime, which may not be there.    *)
PutAll(d, k, vs) == IF vs = {} THEN d ELSE Capped(Put(d, k, CHOOSE v \in vs : TRUE))

(* The consecutive-call counter of reads and searches.                     *)
Counted(tr, key) ==
  [tr EXCEPT !.made = TRUE, !.key = key,
             !.count = IF tr.key = key THEN @ + 1 ELSE 1]

(* The fourth time in a row is refused.                                    *)
Repeated(tr) == tr.count >= 4

-----------------------------------------------------------------------------
Busy(t) == {s \in Slots : TaskOf[s] = t /\ call[s].pc # "idle"}

(* The calls of one agent that somebody waits for never share a path (its  *)
(* batches are split); a call given up runs beside any later one.          *)
Begin(s, op, names) ==
  /\ call[s].pc = "idle" /\ calls < MaxCalls
  /\ \A o \in Busy(TaskOf[s]) : call[o].gone \/
       Range(Resolved(names, TaskOf[s])) \cap Range(Resolved(call[o].names, TaskOf[s])) = {}
  /\ calls' = calls + 1
  /\ UNCHANGED <<changes, edits, others>>

Finish(s) == call' = [call EXCEPT ![s] = Idle]
Goto(s, pc) == call' = [call EXCEPT ![s].pc = pc]

(* read_file: the dedup entry of the region is looked up ...               *)
ReadBegin(s, n) ==
  LET t == TaskOf[s] p == ResolvePath(n, t) IN
  /\ Begin(s, "read", <<n>>)
  /\ LET cached == Count(tracker[t].dedup, p)
         known  == Lookup(tracker[t].dedup, p) # {}
     IN call' = [call EXCEPT ![s] =
                  [Idle EXCEPT !.pc = IF known THEN "stat" ELSE "read", !.op = "read",
                               !.names = <<n>>, !.at = <<p>>, !.got = cached]]
  /\ tracker' = [tracker EXCEPT ![t].made = TRUE]
  /\ UNCHANGED <<file, place, registry, locks, ghosts>>

Unmodified(s) == call[s].pc = "stat" /\ call[s].got \in Mtime(call[s].at[1])

(* ... and an entry with the mtime of now is answered without content, by  *)
(* a status the first time and a refusal after that.                       *)
ReadUnchanged(s) ==
  LET t == TaskOf[s] p == call[s].at[1] IN
  /\ Unmodified(s)
  /\ tracker' = [tracker EXCEPT ![t].hits = Capped(Put(@, p, Count(@, p) + 1))]
  /\ Finish(s)
  /\ UNCHANGED <<file, place, registry, locks, ghosts, counters>>

(* Another mtime, or none.                                                 *)
ReadChanged(s) ==
  /\ call[s].pc = "stat" /\ ~Unmodified(s)
  /\ Goto(s, "read")
  /\ UNCHANGED <<file, place, tracker, registry, locks, ghosts, counters>>

(* The shell reads the name it is given.                                   *)
ReadContent(s) ==
  LET p == ShellPath(call[s].names[1]) IN
  /\ call[s].pc = "read" /\ file[p].there
  /\ call' = [call EXCEPT ![s].pc = "track", ![s].shown = {<<p, file[p].ver>>}]
  /\ UNCHANGED <<file, place, tracker, registry, locks, ghosts, counters>>

(* A result with an error goes the same way, an exception ends the call.   *)
ReadFails(s) ==
  /\ call[s].pc = "read"
  /\ Goto(s, "track") \/ Finish(s)
  /\ UNCHANGED <<file, place, tracker, registry, locks, ghosts, counters>>

(* After the read: the counters, and the mtime the file has NOW.           *)
ReadTrack(s) ==
  LET t == TaskOf[s] p == call[s].at[1]
      tr == Counted(tracker[t], <<"read", call[s].names[1]>>)
  IN
  /\ call[s].pc = "track"
  /\ tracker' = [tracker EXCEPT ![t] =
       [tr EXCEPT !.hits = Capped(Drop(@, p)), !.dedup = PutAll(@, p, Mtime(p)),
                  !.stamps = PutAll(@, p, Mtime(p))]]
  /\ call' = [call EXCEPT ![s].pc = "record", ![s].warn = Repeated(tr)]
  /\ UNCHANGED <<file, place, registry, locks, ghosts, counters>>

(* The registry is told, and the answer is the content, or a refusal at    *)
(* the fourth read of the region in a row.                                 *)
ReadAnswer(s) ==
  LET t == TaskOf[s] p == call[s].at[1] IN
  /\ call[s].pc = "record"
  /\ registry' = [known |-> registry.known \cup {<<t, p>>},
                  stale |-> registry.stale \ {<<t, p>>}]
  /\ seen' = IF call[s].warn \/ call[s].gone THEN seen
             ELSE [seen EXCEPT ![t] = @ \cup call[s].shown]
  /\ Finish(s)
  /\ UNCHANGED <<file, place, tracker, locks, kept, stray, counters>>

(* search_files: only the counter of repeated calls.                       *)
Search(s) ==
  LET t == TaskOf[s] IN
  /\ Begin(s, "search", <<>>)
  /\ tracker' = [tracker EXCEPT ![t] = Counted(@, <<"search">>)]
  /\ UNCHANGED <<file, place, registry, locks, call, ghosts>>

-----------------------------------------------------------------------------
(* write_file, and patch in its modes: "replace" in one file, "v4a" over   *)
(* the files its headers name.                                             *)

ChangeBegin(s, op, names) ==
  LET ps == Resolved(names, TaskOf[s]) IN
  /\ Begin(s, op, names)
  /\ call' = [call EXCEPT ![s] =
       [Idle EXCEPT !.pc = "lock", !.op = op, !.names = names, !.at = ps,
                    !.mine = Range(ps), !.todo = Range(ps)]]
  /\ UNCHANGED <<file, place, tracker, registry, locks, ghosts>>

(* Mutant: no lock.                                                        *)
LockPathFree(s) ==
  /\ call[s].pc = "lock"
  /\ \E p \in First(call[s].todo) :
       call' = [call EXCEPT ![s].todo = @ \ {p}]
  /\ UNCHANGED <<file, place, tracker, registry, locks, ghosts, counters>>

LockPath(s) ==
  /\ call[s].pc = "lock"
  /\ \E p \in First(call[s].todo) :
       /\ locks[p] = NoCall
       /\ locks' = [locks EXCEPT ![p] = s]
       /\ call' = [call EXCEPT ![s].todo = @ \ {p}]
  /\ UNCHANGED <<file, place, tracker, registry, ghosts, counters>>

(* _check_file_staleness: the stamp, if there is one, is not the mtime.    *)
FileStale(t, p) == \E v \in Lookup(tracker[t].stamps, p) : \E m \in Mtime(p) : v # m

(* file_state.check_stale: a sibling wrote after the read (external).      *)
CheckStale(t, p) == <<t, p>> \in registry.stale

AtCheck(s) == call[s].pc = "lock" /\ call[s].todo = {}

(* A patch resolves its names again under the locks.                       *)
Looked(s) == IF call[s].op = "write" THEN call[s].at ELSE Resolved(call[s].names, TaskOf[s])

Warned(s) ==
  \E i \in DOMAIN call[s].names :
    \/ CheckStale(TaskOf[s], Looked(s)[i])
    \/ FileStale(TaskOf[s], ResolvePath(call[s].names[i], TaskOf[s]))

(* The warning goes into the answer, the change proceeds.                  *)
Check(s) ==
  /\ AtCheck(s)
  /\ call' = [call EXCEPT ![s].warn = Warned(s), ![s].at = Looked(s),
                          ![s].pc = IF call[s].op = "write" THEN "store" ELSE "load"]
  /\ UNCHANGED <<file, place, tracker, registry, locks, ghosts, counters>>

(* The file a name means to the backend: V4A headers go there as they are. *)
Target(s, i) == IF call[s].op = "v4a" THEN ShellPath(call[s].names[i]) ELSE call[s].at[i]

(* A patch reads what it edits.                                            *)
Load(s) ==
  /\ call[s].pc = "load"
  /\ call' = [call EXCEPT ![s].pc = "store",
       ![s].base = [i \in DOMAIN call[s].names |->
                      [path |-> Target(s, i), edits |-> file[Target(s, i)].edits]]]
  /\ UNCHANGED <<file, place, tracker, registry, locks, ghosts, counters>>

(* The named files of the call that the backend writes to path p.          *)
Into(s, done, p) == {i \in done : Target(s, i) = p}

(* The write: a new file, or what was loaded with the patch in it.         *)
Write(s, done) ==
  LET v == changes + 1
      hit == {Target(s, i) : i \in done}
      fresh == call[s].op = "write"
      new(p) == IF fresh THEN {}
                ELSE {v} \cup UNION {call[s].base[i].edits : i \in Into(s, done, p)}
      own(p) == p \in call[s].mine /\
                (fresh \/ \A i \in Into(s, done, p) : call[s].base[i].path = p)
  IN
  /\ changes' = v
  /\ file' = [p \in Paths |->
                IF p \in hit THEN [there |-> TRUE, ver |-> v, edits |-> new(p)] ELSE file[p]]
  /\ kept' = [p \in Paths |->
                IF p \notin hit THEN kept[p] ELSE IF fresh THEN {} ELSE kept[p] \cup {v}]
  /\ seen' = IF call[s].gone THEN seen
             ELSE [seen EXCEPT ![TaskOf[s]] = @ \cup {<<p, v>> : p \in hit}]
  /\ stray' = stray \cup {p \in hit : ~own(p)}
  /\ UNCHANGED <<place, tracker, registry, locks, edits, calls, others>>

Store(s) ==
  /\ call[s].pc = "store"
  /\ Write(s, DOMAIN call[s].names)
  /\ Goto(s, "stamp")

(* It fails: a write with an error still refreshes the stamp, a patch, or  *)
(* an exception, does not.                                                 *)
StoreFails(s) ==
  /\ call[s].pc = "store"
  /\ \E pc \in {"restamp", "unlock"} : Goto(s, pc) /\ (pc = "restamp" => call[s].op = "write")
  /\ UNCHANGED <<file, place, tracker, registry, locks, ghosts, counters>>

(* A V4A patch fails after some of its files: no stamp, no note.           *)
StorePart(s) ==
  /\ call[s].pc = "store" /\ call[s].op = "v4a"
  /\ \E done \in SUBSET DOMAIN call[s].names :
       done # {} /\ done # DOMAIN call[s].names /\ Write(s, done)
  /\ Goto(s, "unlock")

(* For each name of the call: _update_read_timestamp.  Its                 *)
(* _invalidate_dedup_for_path resolves the name for the task "default";    *)
(* the stamp is the mtime the name's file has by now.                      *)
Stamp(s) ==
  LET t == TaskOf[s] n == call[s].names[call[s].next] p == ResolvePath(n, t) IN
  /\ call[s].pc \in {"stamp", "restamp"}
  /\ tracker' = [tracker EXCEPT
       ![t].dedup = Drop(@, ResolvePath(n, Default)),
       ![t].stamps = IF tracker[t].made THEN PutAll(@, p, Mtime(p)) ELSE @]
  /\ Goto(s, IF call[s].pc = "stamp" THEN "note" ELSE "unlock")
  /\ UNCHANGED <<file, place, registry, locks, ghosts, counters>>

(* file_state.note_write (external): the reads of siblings are outdated.   *)
NoteWrite(t, p) ==
  [registry EXCEPT !.stale =
     (@ \ {<<t, p>>}) \cup {r \in registry.known : r[1] # t /\ r[2] = p}]

(* Then the registry is told, and the next name has its turn.              *)
Note(s) ==
  /\ call[s].pc = "note"
  /\ registry' = NoteWrite(TaskOf[s], call[s].at[call[s].next])
  /\ call' = [call EXCEPT
       ![s].pc = IF call[s].next < Len(call[s].names) THEN "stamp" ELSE "unlock",
       ![s].next = @ + 1]
  /\ UNCHANGED <<file, place, tracker, locks, ghosts, counters>>

(* The end of the locked block.                                            *)
Unlock(s) ==
  /\ call[s].pc = "unlock"
  /\ locks' = [p \in Paths |-> IF locks[p] = s THEN NoCall ELSE locks[p]]
  /\ Finish(s)
  /\ UNCHANGED <<file, place, tracker, registry, ghosts, counters>>

-----------------------------------------------------------------------------
(* Everything else.                                                        *)

(* A person or a command changes, creates or deletes a file: no lock, no   *)
(* registry.                                                               *)
OutsideEdit(p) ==
  /\ edits < MaxEdits
  /\ edits' = edits + 1 /\ changes' = changes + 1
  /\ \E there \in BOOLEAN :
       file' = [file EXCEPT ![p] = [there |-> there, ver |-> changes + 1, edits |-> {}]]
  /\ kept' = [kept EXCEPT ![p] = {}]
  /\ UNCHANGED <<place, tracker, registry, locks, call, seen, stray, calls, others>>

Other ==
  /\ others < MaxOther
  /\ others' = others + 1
  /\ UNCHANGED <<file, host, registry, locks, kept, stray, changes, edits, calls>>

(* A terminal command ends, perhaps one the agent no longer waits for: it  *)
(* moves the shell and records the cwd; notify_other_tool_call.            *)
OtherTool(t) ==
  /\ Other
  /\ \E d \in Commands[t] : cwd' = [cwd EXCEPT ![t] = d] /\ shell' = d
  /\ tracker' = [tracker EXCEPT ![t] = [@ EXCEPT !.key = <<>>, !.count = 0, !.hits = <<>>]]
  /\ UNCHANGED <<seen, call>>

(* Context compression: what was read is summarised away.                  *)
ResetDedup(t) ==
  /\ Other
  /\ tracker' = [tracker EXCEPT ![t] = [@ EXCEPT !.dedup = <<>>, !.hits = <<>>]]
  /\ seen' = [seen EXCEPT ![t] = {}]
  /\ UNCHANGED <<shell, cwd, call>>

(* The executor's deadline passes: the call goes on, its result is not     *)
(* looked at.                                                              *)
GiveUp(s) ==
  /\ Other
  /\ call[s].pc # "idle" /\ ~call[s].gone
  /\ call' = [call EXCEPT ![s].gone = TRUE]
  /\ UNCHANGED <<shell, cwd, tracker, seen>>

-----------------------------------------------------------------------------
Init ==
  /\ file = [p \in Paths |-> [there |-> TRUE, ver |-> 0, edits |-> {}]]
  /\ cwd = [t \in Owners |-> Unset]
  /\ host \in Hosts /\ shell \in {BaseDir(t) : t \in Owners}
  /\ tracker = [t \in Tasks |-> NewTracker]
  /\ registry = [known |-> {}, stale |-> {}]
  /\ locks = [p \in Paths |-> NoCall]
  /\ call = [s \in Slots |-> Idle]
  /\ seen = [t \in Tasks |-> {}] /\ kept = [p \in Paths |-> {}] /\ stray = {}
  /\ changes = 0 /\ edits = 0 /\ calls = 0 /\ others = 0

Step(s) ==
  \/ ReadUnchanged(s) \/ ReadChanged(s) \/ ReadContent(s) \/ ReadFails(s)
  \/ ReadTrack(s) \/ ReadAnswer(s)
  \/ LockPath(s) \/ Check(s) \/ Load(s) \/ Store(s) \/ StoreFails(s) \/ StorePart(s)
  \/ Stamp(s) \/ Note(s) \/ Unlock(s)

Call(s) ==
  \E i \in Inputs[s] :
    \/ i.op = "search" /\ Search(s)
    \/ i.op = "read" /\ ReadBegin(s, i.names[1])
    \/ i.op \in {"write", "replace", "v4a"} /\ ChangeBegin(s, i.op, i.names)

Next ==
  \/ \E s \in Slots : Call(s) \/ Step(s) \/ GiveUp(s)
  \/ \E p \in Paths : OutsideEdit(p)
  \/ \E t \in Tasks : OtherTool(t) \/ ResetDedup(t)

Spec == Init /\ [][Next]_vars
-----------------------------------------------------------------------------
Known == 0..changes
Keys == {<<>>, <<"search">>} \cup {<<"read", n>> : n \in Names}

(* A dict of the tracker: a key once, and never more keys than the cap.    *)
Dicts(V) ==
  {d \in Seq([key : Paths, val : V]) :
     Len(d) <= Cap /\ \A i, j \in DOMAIN d : d[i].key = d[j].key => i = j}

Trackers == [made : BOOLEAN, key : Keys, count : Nat,
             dedup : Dicts(Known), hits : Dicts(Nat), stamps : Dicts(Known)]

(* Types; the tracker's dicts stay dicts whatever order reads and writes   *)
(* evict in, and hold mtimes of now or before.                             *)
TypeOK ==
  /\ changes \in Nat
  /\ file \in [Paths -> [there : BOOLEAN, ver : Known, edits : SUBSET Known]]
  /\ host \in {"same", "none", "other"} /\ shell \in Dirs
  /\ cwd \in [Owners -> Dirs \cup {Unset}]
  /\ tracker \in [Tasks -> Trackers]
  /\ registry \in [known : SUBSET (Tasks \X Paths), stale : SUBSET (Tasks \X Paths)]
  /\ registry.stale \subseteq registry.known
  /\ locks \in [Paths -> Slots \cup {NoCall}]

(* "The content from the earlier read_file result in this conversation is  *)
(* still current" (796-800): an answer without content is about content    *)
(* this agent was shown since its last compression.                        *)
UnchangedMeansSeen ==
  \A s \in Slots : Unmodified(s) /\ ~call[s].gone =>
    LET p == call[s].at[1] IN <<p, file[p].ver>> \in seen[TaskOf[s]]

(* A task has been shown the file, but not what is in it now.              *)
Outdated(t, p) ==
  /\ \E v \in 0..changes : <<p, v>> \in seen[t]
  /\ file[p].there /\ <<p, file[p].ver>> \notin seen[t]

(* "warn on write/patch if the file changed since the agent last read it"  *)
(* (1357-1358): an agent about to change a file that is not as it was      *)
(* shown is told so, unless the stamp was evicted.                         *)
StaleWarned ==
  \A s \in Slots : AtCheck(s) =>
    \A i \in DOMAIN call[s].names :
      LET t == TaskOf[s] p == Looked(s)[i] IN
      Outdated(t, p) /\ Lookup(tracker[t].stamps, p) # {} => Warned(s)

(* No patch is lost between calls that lock what they write: until the     *)
(* file is replaced as a whole, the edits of every patch are in it,        *)
(* whichever calls of the same or other agents run beside it and wherever  *)
(* they fail.  Not spoken of from then on is a file that a call wrote      *)
(* though it was not among those it locks, or wrote from another file's    *)
(* content: StrayKept is about those.                                      *)
EditsKept == \A p \in Paths \ stray : kept[p] \subseteq file[p].edits

(* "concurrent subagents can't interleave on the same file" (1626-1628):   *)
(* the same without the exception.                                         *)
StrayKept == \A p \in Paths : kept[p] \subseteq file[p].edits

(* "The content has NOT changed": a read is only refused as a repetition   *)
(* when the agent was shown what is in the file.  It fails: the counter    *)
(* of repeated reads is not reset when the file changes.                   *)
BlockedMeansSeen ==
  \A s \in Slots : call[s].pc = "record" /\ call[s].warn =>
    call[s].shown \subseteq seen[TaskOf[s]]

Waiting(s) ==
  /\ call[s].pc = "lock" /\ call[s].todo # {}
  /\ \A p \in First(call[s].todo) : locks[p] # NoCall

(* Calls over overlapping sets of files cannot all wait for each other.    *)
NoDeadlock ==
  (\E s \in Slots : Waiting(s)) => \E s \in Slots : call[s].pc # "idle" /\ ~Waiting(s)
=============================================================================
