---------------------------- MODULE SessionStore ----------------------------
(***************************************************************************)
(* How a conversation reaches the session store (run_agent.py):            *)
(* _persist_session and _flush_messages_to_session_db, called by the turn, *)
(* after each tool result, and by the thread that closes the CLI.          *)
(*                                                                         *)
(* A message is a number, in the order of its creation; a dict object and  *)
(* its _db_persisted marker are that number and its membership in marked.  *)
(* Rows are only ever appended.  A crash loses the live list and the       *)
(* markers; the next process resumes with the stored rows as its history.  *)
(***************************************************************************)
EXTENDS Naturals, Sequences, FiniteSets, SequencesExt

CONSTANTS
  Turn, Closer,   \* the threads
  NoThread,       \* the free _session_persist_lock
  MaxMessages,    \* bound: messages created
  MaxFailures,    \* bound: append_message calls that raise
  MaxCrashes      \* bound: crashes

ASSUME StoreAssumption ==
  /\ Turn # Closer /\ NoThread \notin {Turn, Closer}
  /\ MaxMessages \in Nat /\ MaxFailures \in Nat /\ MaxCrashes \in Nat

VARIABLES
  live,      \* the turn's messages list
  kind,      \* message -> its kind
  marked,    \* messages whose dict has the marker
  history,   \* conversation_history of the turn
  bound,     \* agent._session_messages is the live list
  rows,      \* the session store
  log,       \* the messages of the JSON snapshot
  lock,      \* _session_persist_lock
  job,       \* thread -> where it is in a persist or flush
  phase,     \* idle, open (a turn runs), ended (it must persist), early
  failures, crashes

vars == <<live, kind, marked, history, bound, rows, log, lock, job, phase,
          failures, crashes>>

Threads == {Turn, Closer}
Kinds == {"user", "calls", "tool", "answer", "nudge", "prefill", "sentinel"}

(* _EPHEMERAL_SCAFFOLDING_FLAGS: the nudge after an empty response, the    *)
(* terminal sentinel, and the prefills and stop nudges that never rewind.  *)
Ephemeral(m) == kind[m] \in {"nudge", "prefill", "sentinel"}

Idle == [pc |-> "idle", pass |-> 0, at |-> 1, withHistory |-> FALSE]
Created == Len(kind)

(* What the conversation loop may append after its message of kind k.      *)
Follows(k) ==
  CASE k \in {"user", "nudge", "prefill"} -> {"calls", "answer", "sentinel"}
    [] k = "calls" -> {"tool"}
    [] k = "tool"  -> {"tool", "calls", "answer", "nudge", "prefill"}
    [] OTHER -> {}

-----------------------------------------------------------------------------
(* The conversation loop.                                                  *)

Append1(k) ==
  /\ Created < MaxMessages
  /\ kind' = Append(kind, k)
  /\ live' = Append(live, Created + 1)

(* A user message opens a turn, which is persisted before the API call.    *)
TurnBegin ==
  /\ phase = "idle"
  /\ Append1("user")
  /\ history' = Range(live)
  /\ phase' = "early"
  /\ UNCHANGED <<marked, bound, rows, log, lock, job, failures, crashes>>

(* A tool result is flushed at once, and a turn that ends is persisted.    *)
Extend ==
  /\ phase = "open" /\ job[Turn].pc = "idle"
  /\ \E k \in Follows(Last(kind)) :
       /\ Append1(k)
       /\ job' = [job EXCEPT ![Turn].pc = IF k = "tool" THEN "wantflush" ELSE "idle"]
       /\ phase' = IF k \in {"answer", "sentinel"} THEN "ended" ELSE "open"
  /\ UNCHANGED <<marked, history, bound, rows, log, lock, failures, crashes>>

(* _persist_session, on the turn's thread or on the closing one.           *)
TurnPersists ==
  /\ phase \in {"early", "ended"} /\ job[Turn].pc = "idle"
  /\ job' = [job EXCEPT ![Turn] =
               [pc |-> "want", pass |-> 0, at |-> 1, withHistory |-> TRUE]]
  /\ UNCHANGED <<live, kind, marked, history, bound, rows, log, lock, phase,
                 failures, crashes>>

CloserPersists ==
  /\ job[Closer].pc = "idle" /\ bound
  /\ job' = [job EXCEPT ![Closer] =
               [pc |-> "want", pass |-> 0, at |-> 1, withHistory |-> FALSE]]
  /\ UNCHANGED <<live, kind, marked, history, bound, rows, log, lock, phase,
                 failures, crashes>>

-----------------------------------------------------------------------------
(* The persist lock and what runs under it.                                *)

(* Mutant: no lock around the flush.                                       *)
AcquireUnlocked(th) ==
  /\ job[th].pc \in {"want", "wantflush"}
  /\ job' = [job EXCEPT ![th].pc = IF @ = "want" THEN "drop" ELSE "flush"]
  /\ UNCHANGED <<live, kind, marked, history, bound, rows, log, lock, phase,
                 failures, crashes>>

Acquire(th) ==
  /\ job[th].pc \in {"want", "wantflush"} /\ lock = NoThread
  /\ lock' = th
  /\ job' = [job EXCEPT ![th].pc = IF @ = "want" THEN "drop" ELSE "flush"]
  /\ UNCHANGED <<live, kind, marked, history, bound, rows, log, phase,
                 failures, crashes>>

(* What each pass of _drop_trailing_empty_response_scaffolding pops: the   *)
(* flagged tail (0, then 1 once something was popped), then, if there was  *)
(* one, the tool results before it (2), and the calls they answer (3).     *)
Dropped(pass) ==
  CASE pass \in {0, 1} -> {"nudge", "sentinel"}
    [] pass = 2 -> {"tool"}
    [] OTHER -> {"calls"}

(* The last message is tested ...                                          *)
DropTest(th) ==
  /\ job[th].pc = "drop"
  /\ LET p == job[th].pass
         hit == live # <<>> /\ kind[Last(live)] \in Dropped(p)
     IN job' = IF hit THEN [job EXCEPT ![th].pc = "pop"]
               ELSE IF p \in {1, 2} THEN [job EXCEPT ![th].pass = p + 1]
               ELSE [job EXCEPT ![th].pc = "log"]
  /\ UNCHANGED <<live, kind, marked, history, bound, rows, log, lock, phase,
                 failures, crashes>>

(* ... and the one that is last by then is popped.                         *)
DropPop(th) ==
  /\ job[th].pc = "pop"
  /\ live' = Front(live)
  /\ job' = IF job[th].pass = 3 THEN [job EXCEPT ![th].pc = "log"]
            ELSE [job EXCEPT ![th].pc = "drop", ![th].pass = IF @ = 0 THEN 1 ELSE @]
  /\ UNCHANGED <<kind, marked, history, bound, rows, log, lock, phase, failures, crashes>>

(* _save_session_log: never overwrite a larger snapshot with a smaller one *)
SaveSessionLog(s) ==
  LET cleaned == {m \in Range(s) : ~Ephemeral(m)}
  IN IF s = <<>> \/ Cardinality(log) > Cardinality(cleaned) THEN log ELSE cleaned

PersistLog(th) ==
  /\ job[th].pc = "log"
  /\ log' = SaveSessionLog(live)
  /\ bound' = TRUE
  /\ job' = [job EXCEPT ![th].pc = "flush"]
  /\ UNCHANGED <<live, kind, marked, history, rows, lock, phase, failures, crashes>>

(* One message of the flush is skipped, stamped as already durable (the    *)
(* seed of a caller of the flush is empty: nothing here fills it), or ...  *)
Skips(th, m) == Ephemeral(m) \/ m \in marked
Stamps(th, m) == ~Skips(th, m) /\ job[th].withHistory /\ m \in history

FlushSkip(th) ==
  /\ job[th].pc = "flush" /\ job[th].at <= Len(live)
  /\ LET m == live[job[th].at] IN
       /\ Skips(th, m) \/ Stamps(th, m)
       /\ marked' = IF Ephemeral(m) THEN marked ELSE marked \cup {m}
  /\ job' = [job EXCEPT ![th].at = @ + 1]
  /\ UNCHANGED <<live, kind, history, bound, rows, log, lock, phase, failures, crashes>>

(* ... found unmarked, then appended, and marked when the append returned. *)
FlushTest(th) ==
  /\ job[th].pc = "flush" /\ job[th].at <= Len(live)
  /\ ~Skips(th, live[job[th].at]) /\ ~Stamps(th, live[job[th].at])
  /\ job' = [job EXCEPT ![th].pc = "append"]
  /\ UNCHANGED <<live, kind, marked, history, bound, rows, log, lock, phase,
                 failures, crashes>>

FlushAppend(th) ==
  /\ job[th].pc = "append"
  /\ rows' = Append(rows, live[job[th].at])
  /\ job' = [job EXCEPT ![th].pc = "mark"]
  /\ UNCHANGED <<live, kind, marked, history, bound, log, lock, phase, failures, crashes>>

(* Mutant: the marker is bound to the position the list had at the test.   *)
FlushMarkPast(th) ==
  /\ job[th].pc = "mark"
  /\ marked' = marked \cup {live[job[th].at]} \cup
                 (IF job[th].at < Len(live) THEN {live[job[th].at + 1]} ELSE {})
  /\ job' = [job EXCEPT ![th].pc = "flush", ![th].at = @ + 1]
  /\ UNCHANGED <<live, kind, history, bound, rows, log, lock, phase, failures, crashes>>

FlushMark(th) ==
  /\ job[th].pc = "mark"
  /\ marked' = marked \cup {live[job[th].at]}
  /\ job' = [job EXCEPT ![th].pc = "flush", ![th].at = @ + 1]
  /\ UNCHANGED <<live, kind, history, bound, rows, log, lock, phase, failures, crashes>>

Release(th) ==
  /\ lock' = NoThread
  /\ job' = [job EXCEPT ![th] = Idle]

(* append_message raises: the flush is given up, the rest stays unmarked.  *)
FlushFails(th) ==
  /\ job[th].pc = "append" /\ failures < MaxFailures
  /\ failures' = failures + 1
  /\ Release(th)
  /\ phase' = CASE th = Turn /\ phase = "early" -> "open"
                [] th = Turn /\ phase = "ended" -> "failed"
                [] OTHER -> phase
  /\ UNCHANGED <<live, kind, marked, history, bound, rows, log, crashes>>

FlushDone(th) ==
  /\ job[th].pc = "flush" /\ job[th].at > Len(live)
  /\ Release(th)
  /\ phase' = CASE th = Turn /\ phase = "early" -> "open"
                [] th = Turn /\ phase = "ended" -> "idle"
                [] OTHER -> phase
  /\ UNCHANGED <<live, kind, marked, history, bound, rows, log, failures, crashes>>

(* A turn whose last flush failed is over; the next turn flushes its rest. *)
TurnOver ==
  /\ phase = "failed"
  /\ phase' = "idle"
  /\ UNCHANGED <<live, kind, marked, history, bound, rows, log, lock, job,
                 failures, crashes>>

(* The process dies; the next one loads the rows as new dict objects.      *)
Crash ==
  /\ crashes < MaxCrashes
  /\ crashes' = crashes + 1
  /\ live' = rows /\ marked' = {} /\ history' = {} /\ bound' = FALSE
  /\ lock' = NoThread /\ job' = [th \in Threads |-> Idle]
  /\ phase' = "idle"
  /\ UNCHANGED <<kind, rows, log, failures>>

-----------------------------------------------------------------------------
Init ==
  /\ live = <<>> /\ kind = <<>> /\ marked = {} /\ history = {}
  /\ bound = FALSE /\ rows = <<>> /\ log = {} /\ lock = NoThread
  /\ job = [th \in Threads |-> Idle]
  /\ phase = "idle" /\ failures = 0 /\ crashes = 0

Persist(th) ==
  \/ Acquire(th) \/ DropTest(th) \/ DropPop(th) \/ PersistLog(th)
  \/ FlushSkip(th) \/ FlushTest(th) \/ FlushAppend(th) \/ FlushMark(th)
  \/ FlushFails(th) \/ FlushDone(th)

Next ==
  \/ TurnBegin \/ Extend \/ TurnPersists \/ CloserPersists \/ TurnOver \/ Crash
  \/ \E th \in Threads : Persist(th)

Spec == Init /\ [][Next]_vars

-----------------------------------------------------------------------------
Ids == 1..MaxMessages

(* Types, and the lock is held exactly by the thread in the critical part. *)
TypeOK ==
  /\ kind \in Seq(Kinds) /\ Created <= MaxMessages
  /\ live \in Seq(Ids) /\ rows \in Seq(Ids)
  /\ log \subseteq Ids /\ marked \subseteq Ids /\ history \subseteq Ids
  /\ bound \in BOOLEAN
  /\ lock \in Threads \cup {NoThread}
  /\ job \in [Threads -> [pc: {"idle", "want", "wantflush", "drop", "pop", "log",
                               "flush", "append", "mark"},
                          pass: 0..3, at: 1..(MaxMessages + 1),
                          withHistory: BOOLEAN]]
  /\ phase \in {"idle", "early", "open", "ended", "failed"}
  /\ failures \in 0..MaxFailures /\ crashes \in 0..MaxCrashes
  /\ \A th \in Threads :
       lock = th <=> job[th].pc \in {"drop", "pop", "log", "flush", "append", "mark"}

(* The store has every message at most once and in the order of the        *)
(* conversation, whatever failed, crashed or persisted at the same time.   *)
RowsInOrder ==
  \A i, j \in DOMAIN rows : i < j => rows[i] < rows[j]

(* A listed message that is marked has its row: whatever interleaves, the  *)
(* only marks without a row are those taken from a caller's history.       *)
MarkIsRow == marked \cap Range(live) \subseteq Range(rows) \cup history

(* The same without the exception.  It fails: a message whose append       *)
(* raised stays unmarked "for the next flush", but the next turn passes    *)
(* the same dicts as its conversation_history and stamps them durable.     *)
StampIsRow == marked \subseteq Range(rows)

(* When a turn has ended and no append failed, everything the transcript   *)
(* shows is in the store, although persists overlapped and crashes hit.    *)
NothingLost ==
  phase = "idle" /\ failures = 0 =>
    {m \in Range(live) : ~Ephemeral(m)} \subseteq Range(rows)

(* The store has nothing the closed turn took back.  It fails: the rewind  *)
(* past an empty answer pops tool results that were flushed one by one.    *)
ResumeMatches ==
  phase = "idle" /\ failures = 0 => Range(rows) \subseteq Range(live)

(* What is popped was tested.  It fails: the closing thread tests a nudge, *)
(* the turn appends its answer, and the answer is popped, never to be      *)
(* stored, because the turn appends without the lock.                      *)
AnswersKept ==
  phase = "idle" /\ failures = 0 /\ crashes = 0 =>
    \A m \in 1..Created : kind[m] = "answer" => m \in Range(rows)
=============================================================================
