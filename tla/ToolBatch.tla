------------------------------ MODULE ToolBatch ------------------------------
(***************************************************************************)
(* The execution of the tool calls of an assistant message                 *)
(* (agent/tool_executor.py), with the thread that interrupts or steers the *)
(* agent meanwhile (AIAgent.interrupt, clear_interrupt, steer).            *)
(*                                                                         *)
(* A turn is a plan of segments.  A parallel segment runs its calls on a   *)
(* pool of worker threads, while the turn's own thread Main waits for      *)
(* them, for its deadline or for an interrupt; a sequential segment runs   *)
(* its calls on Main.  A worker takes a call, registers its thread id,     *)
(* checks for an interrupt, runs the tool, unregisters and clears its      *)
(* interrupt bit, each a step of its own.  A worker that is abandoned runs on detached    *)
(* and its thread id is recycled once it ends.                             *)
(***************************************************************************)
EXTENDS Naturals, Sequences, FiniteSets, SequencesExt

CONSTANTS
  Calls,          \* tool calls
  Tids,           \* thread ids of worker threads
  Main,           \* the agent's execution thread
  Turns,          \* a sequence of plans: sequences of [kind, calls] segments
  Rejectable,     \* calls that parsing, a plugin or the guardrail may reject
  Unguarded,      \* calls of the tools the executor dispatches itself, which
                  \* may leave it by an exception
  MaxWorkers,     \* _MAX_TOOL_WORKERS
  HasDeadline,    \* HERMES_CONCURRENT_TOOL_TIMEOUT_S > 0
  MaxInterrupts,  \* bound: calls of interrupt()
  MaxSteers,      \* bound: accepted calls of steer()
  NoTid           \* a call with no thread

(* Every turn has a call, the planner of the segments emits no empty one,  *)
(* and the id of a call is its own.                                        *)
ASSUME TurnsAssumption ==
  /\ Turns \in Seq(Seq([kind : {"parallel", "sequential"}, calls : Seq(Calls)]))
  /\ Turns # <<>>
  /\ \A i \in DOMAIN Turns : Turns[i] # <<>>
  /\ \A i \in DOMAIN Turns : \A s \in DOMAIN Turns[i] :
        /\ Turns[i][s].calls # <<>>
        /\ \A j \in DOMAIN Turns : \A u \in DOMAIN Turns[j] :
             \A k \in DOMAIN Turns[i][s].calls : \A l \in DOMAIN Turns[j][u].calls :
               Turns[i][s].calls[k] = Turns[j][u].calls[l] => i = j /\ s = u /\ k = l

ASSUME BoundsAssumption ==
  /\ MaxWorkers \in Nat \ {0} /\ HasDeadline \in BOOLEAN
  /\ MaxInterrupts \in Nat /\ MaxSteers \in Nat

ASSUME TidsAssumption == Main \notin Tids /\ NoTid \notin Tids

VARIABLES
  pc,           \* Main: idle, segment, wait, fan, collect, exec, final, clear, raised
  turn, seg,    \* the batch and the segment Main is at
  left,         \* calls of the segment not yet answered
  worker,       \* call -> its future: new, queued, picked, registered, ...
  tid,          \* call -> the thread that runs it
  result,       \* results[i]: "none" until a worker writes it
  timedOut,     \* timed_out_indices
  tracked,      \* agent._tool_worker_threads
  bits,         \* _interrupted_threads of tools.interrupt
  requested,    \* agent._interrupt_requested
  ipc, snap,    \* the interrupting thread and the tids it copied
  mfan,         \* the tids Main copied at its deadline
  pendingSteer, \* agent._pending_steer: the texts joined in it
  dropped,      \* texts that clear_interrupt discarded
  messages,     \* tool messages of the conversation
  invoked,      \* calls whose tool has started, ever
  interrupts, steers  \* counts, for the bounds

mainVars  == <<pc, turn, seg, left, timedOut, mfan>>
poolVars  == <<worker, tid, result, tracked, invoked>>
interVars == <<ipc, snap, interrupts>>
textVars  == <<pendingSteer, dropped, messages, steers>>
vars == <<mainVars, poolVars, interVars, textVars, bits, requested>>

WorkerStates == {"new", "queued", "picked", "registered", "running", "returned",
                 "unregistered", "done", "cancelled"}
Results  == {"none", "answered", "cancelled", "blocked", "not_started"}
Disposition == {"unset", "none", "unknown"}
Kinds == (Results \ {"none"}) \cup {"skipped", "timeout", "interrupted", "missing"}
(* seen: steers in the message's text; lost: steers the budget cut away;   *)
(* row: the steers that were in the text when its row was saved.           *)
Message == [call: Calls, kind: Kinds, effect: Disposition,
            seen: SUBSET (1..MaxSteers), lost: SUBSET (1..MaxSteers),
            saved: BOOLEAN, row: SUBSET (1..MaxSteers)]

Segment   == Turns[turn][seg]
TurnCalls == FlattenSeq([s \in DOMAIN Turns[turn] |-> Turns[turn][s].calls])
(* One call, or one segment: the executor finalizes, not the dispatcher.   *)
SingleSegment == Len(Turns[turn]) = 1
Parallel == Segment.kind = "parallel" /\ Len(TurnCalls) > 1

Live(c)    == worker[c] \in {"picked", "registered", "running", "returned", "unregistered"}
NotDone(c) == worker[c] = "queued" \/ Live(c)
Batch      == ToSet(Segment.calls)
Waiting    == {c \in Batch : NotDone(c)}

-----------------------------------------------------------------------------
(* Messages: append, flush, drain the pending steer into the last result.  *)

Entry(c, kind, effect) ==
  [call |-> c, kind |-> kind, effect |-> effect, seen |-> {}, lost |-> {},
   saved |-> FALSE, row |-> {}]

FlushSessionDb(ms) ==
  [i \in DOMAIN ms |-> IF ms[i].saved THEN ms[i]
                       ELSE [ms[i] EXCEPT !.saved = TRUE, !.row = ms[i].seen]]

(* apply_pending_steer_to_tool_results: the text joins the last message.   *)
ApplySteer(ms) == [ms EXCEPT ![Len(ms)].seen = @ \cup pendingSteer]

(* Mutant: the steer is read, and not cleared.                             *)
AnswerKeepingSteer(c, kind, effect) ==
  /\ messages' = ApplySteer(FlushSessionDb(Append(messages, Entry(c, kind, effect))))
  /\ UNCHANGED <<pendingSteer, dropped, steers>>

(* One result: appended, flushed, and the pending steer drained into it.   *)
Answer(c, kind, effect) ==
  /\ messages' = ApplySteer(FlushSessionDb(Append(messages, Entry(c, kind, effect))))
  /\ pendingSteer' = {}
  /\ UNCHANGED <<dropped, steers>>

Skipped(calls) == [i \in DOMAIN calls |-> Entry(calls[i], "skipped", "none")]

(* Mutant: the slice starts one call too late.                             *)
SkipAllButFirst(ms, calls) == FlushSessionDb(ms \o Skipped(Tail(calls)))

(* The rest of a segment answered without running it: no steer is drained. *)
SkipAll(ms, calls) == FlushSessionDb(ms \o Skipped(calls))

NextSegment ==
  IF seg < Len(Turns[turn]) THEN pc' = "segment" /\ seg' = seg + 1
                            ELSE pc' = "final" /\ UNCHANGED seg

-----------------------------------------------------------------------------
(* Parallel segments.                                                      *)

PreflightSkip ==
  /\ pc = "segment" /\ Parallel /\ requested
  /\ messages' = SkipAll(messages, Segment.calls)
  /\ IF SingleSegment THEN pc' = "clear" /\ UNCHANGED seg ELSE NextSegment
  /\ UNCHANGED <<turn, left, timedOut, mfan, poolVars, interVars,
                 pendingSteer, dropped, steers, bits, requested>>

(* What is left of the batch once arguments are parsed and the scope of    *)
(* the session, the plugins and the guardrail have been asked.             *)
Runnable(rejected) == SelectSeq(Segment.calls, LAMBDA c : c \notin rejected)

(* Rejected calls have their result at once; the others are submitted in   *)
(* order, and from the first the pool refuses at interpreter shutdown on,  *)
(* answered as not started.                                                *)
Submit ==
  /\ pc = "segment" /\ Parallel /\ ~requested
  /\ \E rejected \in SUBSET (Batch \cap Rejectable) :
       \E n \in 0..Len(Runnable(rejected)) :
         LET refused == ToSet(SubSeq(Runnable(rejected), n + 1, Len(Runnable(rejected))))
         IN /\ result' = [c \in Calls |-> IF c \in rejected THEN "blocked"
                                          ELSE IF c \in refused THEN "not_started"
                                          ELSE result[c]]
            /\ worker' = [c \in Calls |-> IF c \in Batch \ (rejected \cup refused)
                                          THEN "queued" ELSE worker[c]]
  /\ pc' = "wait"
  /\ left' = Segment.calls
  /\ timedOut' = {}
  /\ UNCHANGED <<turn, seg, mfan, tid, tracked, invoked, interVars, textVars,
                 bits, requested>>

(* All futures are done: shutdown(wait=True) has nothing to join.          *)
WaitDone ==
  /\ pc = "wait" /\ Waiting = {}
  /\ pc' = "collect"
  /\ UNCHANGED <<turn, seg, left, timedOut, mfan, poolVars, interVars,
                 textVars, bits, requested>>

CancelQueued ==
  worker' = [c \in Calls |-> IF c \in Waiting /\ worker[c] = "queued"
                             THEN "cancelled" ELSE worker[c]]

(* The deadline: queued futures are cancelled, the tids of the running     *)
(* workers are copied, and signalled in the next step.                     *)
WaitDeadline ==
  /\ pc = "wait" /\ HasDeadline /\ Waiting # {}
  /\ timedOut' = Waiting
  /\ CancelQueued
  /\ mfan' = tracked
  /\ pc' = "fan"
  /\ UNCHANGED <<turn, seg, left, tid, result, tracked, invoked, interVars,
                 textVars, bits, requested>>

DeadlineSignal ==
  /\ pc = "fan"
  /\ bits' = bits \cup mfan
  /\ mfan' = {}
  /\ pc' = "collect"
  /\ UNCHANGED <<turn, seg, left, timedOut, poolVars, interVars, textVars, requested>>

(* An interrupt seen by the wait loop: what has not started is cancelled,  *)
(* what runs has a grace period and is then abandoned.                     *)
WaitInterrupt ==
  /\ pc = "wait" /\ requested /\ Waiting # {}
  /\ CancelQueued
  /\ pc' = "collect"
  /\ UNCHANGED <<turn, seg, left, timedOut, mfan, tid, result, tracked,
                 invoked, interVars, textVars, bits, requested>>

(* What the message of a collected call says, and the effect it admits: a  *)
(* result that came late is preferred to the timeout.  The last branch is  *)
(* never reached: only a deadline or an interrupt ends the wait early.     *)
CollectedKind(c) ==
  CASE result[c] # "none" -> result[c]
    [] result[c] = "none" /\ c \in timedOut -> "timeout"
    [] result[c] = "none" /\ c \notin timedOut /\ requested -> "interrupted"
    [] OTHER -> "missing"

(* Mutant: a call without a result is taken for one that never ran.        *)
CollectedEffectNone(c) ==
  CASE result[c] = "none" /\ c \in timedOut -> "unknown"
    [] result[c] = "blocked" \/ (result[c] = "none" /\ c \notin timedOut) -> "none"
    [] OTHER -> "unset"

CollectedEffect(c) ==
  CASE result[c] = "none" /\ c \in timedOut -> "unknown"
    [] result[c] = "blocked" -> "none"
    [] OTHER -> "unset"

(* Mutant: the pool is joined, whatever happened.                          *)
CollectJoined ==
  /\ pc = "collect" /\ left # <<>> /\ Waiting = {}
  /\ Answer(Head(left), CollectedKind(Head(left)), CollectedEffect(Head(left)))
  /\ left' = Tail(left)
  /\ UNCHANGED <<pc, turn, seg, timedOut, mfan, poolVars, interVars, bits, requested>>

Collect ==
  /\ pc = "collect" /\ left # <<>>
  /\ Answer(Head(left), CollectedKind(Head(left)), CollectedEffect(Head(left)))
  /\ left' = Tail(left)
  /\ UNCHANGED <<pc, turn, seg, timedOut, mfan, poolVars, interVars, bits, requested>>

Collected ==
  /\ pc = "collect" /\ left = <<>>
  /\ NextSegment
  /\ UNCHANGED <<turn, left, timedOut, mfan, poolVars, interVars, textVars,
                 bits, requested>>

-----------------------------------------------------------------------------
(* Workers.                                                                *)

Busy(t) == \E c \in Calls : Live(c) /\ tid[c] = t

(* Mutant: the worker does not look up its thread id.                      *)
WorkerPickBlind(c, t) ==
  /\ worker[c] = "queued" /\ ~Busy(t)
  /\ Cardinality({d \in Batch : Live(d)}) < MaxWorkers
  /\ worker' = [worker EXCEPT ![c] = "picked"]
  /\ UNCHANGED <<mainVars, tid, result, tracked, invoked, interVars, textVars,
                 bits, requested>>

(* A pool thread takes the future, which cannot be cancelled any more ...  *)
WorkerPick(c, t) ==
  /\ worker[c] = "queued" /\ ~Busy(t)
  /\ Cardinality({d \in Batch : Live(d)}) < MaxWorkers
  /\ worker' = [worker EXCEPT ![c] = "picked"]
  /\ tid' = [tid EXCEPT ![c] = t]
  /\ UNCHANGED <<mainVars, result, tracked, invoked, interVars, textVars, bits, requested>>

(* ... and registers its tid.                                              *)
WorkerRegister(c) ==
  /\ worker[c] = "picked"
  /\ worker' = [worker EXCEPT ![c] = "registered"]
  /\ tracked' = tracked \cup {tid[c]}
  /\ UNCHANGED <<mainVars, tid, result, invoked, interVars, textVars, bits, requested>>

(* Mutant: no check after the registration.                                *)
WorkerStartUnchecked(c) ==
  /\ worker[c] = "registered"
  /\ worker' = [worker EXCEPT ![c] = "running"]
  /\ invoked' = invoked \cup {c}
  /\ UNCHANGED <<mainVars, tid, result, tracked, interVars, textVars, bits, requested>>

(* Interrupted before it registered: the worker signals itself.            *)
WorkerStart(c) ==
  /\ worker[c] = "registered"
  /\ bits' = IF requested THEN bits \cup {tid[c]} ELSE bits
  /\ worker' = [worker EXCEPT ![c] = "running"]
  /\ invoked' = invoked \cup {c}
  /\ UNCHANGED <<mainVars, tid, result, tracked, interVars, textVars, requested>>

(* The tool returns or raises; its result, or its error, is written.       *)
WorkerReturn(c) ==
  /\ worker[c] = "running"
  /\ result' = [result EXCEPT ![c] = "answered"]
  /\ worker' = [worker EXCEPT ![c] = "returned"]
  /\ UNCHANGED <<mainVars, tid, tracked, invoked, interVars, textVars, bits, requested>>

(* KeyboardInterrupt inside a tool interrupts the whole agent: interrupt() *)
(* runs on the worker, which stays tracked, and is one step here.          *)
WorkerKeyboard(c) ==
  /\ worker[c] = "running" /\ interrupts < MaxInterrupts
  /\ requested' = TRUE
  /\ bits' = bits \cup tracked \cup {Main}
  /\ interrupts' = interrupts + 1
  /\ result' = [result EXCEPT ![c] = "cancelled"]
  /\ worker' = [worker EXCEPT ![c] = "returned"]
  /\ UNCHANGED <<mainVars, tid, tracked, invoked, ipc, snap, textVars>>

WorkerUnregister(c) ==
  /\ worker[c] = "returned"
  /\ tracked' = tracked \ {tid[c]}
  /\ worker' = [worker EXCEPT ![c] = "unregistered"]
  /\ UNCHANGED <<mainVars, tid, result, invoked, interVars, textVars, bits, requested>>

WorkerClear(c) ==
  /\ worker[c] = "unregistered"
  /\ bits' = bits \ {tid[c]}
  /\ worker' = [worker EXCEPT ![c] = "done"]
  /\ tid' = [tid EXCEPT ![c] = NoTid]
  /\ UNCHANGED <<mainVars, result, tracked, invoked, interVars, textVars, requested>>

-----------------------------------------------------------------------------
(* Sequential segments: the tool runs on Main.                             *)

Sequential == pc = "segment" /\ ~Parallel

SeqBegin ==
  /\ Sequential
  /\ left' = Segment.calls
  /\ pc' = "next"
  /\ UNCHANGED <<turn, seg, timedOut, mfan, poolVars, interVars, textVars, bits, requested>>

SeqSkip ==
  /\ pc = "next" /\ left # <<>> /\ requested
  /\ messages' = SkipAll(messages, left)
  /\ left' = <<>>
  /\ UNCHANGED <<pc, turn, seg, timedOut, mfan, poolVars, interVars,
                 pendingSteer, dropped, steers, bits, requested>>

(* Arguments that do not parse, a call outside the session's scope, a      *)
(* plugin or the guardrail: answered without running.  After a rejection   *)
(* by policy the interrupt is checked, as SeqSkip does for the next call.  *)
SeqReject ==
  /\ pc = "next" /\ left # <<>> /\ ~requested /\ Head(left) \in Rejectable
  /\ Answer(Head(left), "blocked", "unset")
  /\ left' = Tail(left)
  /\ UNCHANGED <<pc, turn, seg, timedOut, mfan, poolVars, interVars, bits, requested>>

SeqStart ==
  /\ pc = "next" /\ left # <<>> /\ ~requested
  /\ pc' = "exec"
  /\ invoked' = invoked \cup {Head(left)}
  /\ UNCHANGED <<turn, seg, left, timedOut, mfan, worker, tid, result, tracked,
                 interVars, textVars, bits, requested>>

SeqReturn ==
  /\ pc = "exec"
  /\ result' = [result EXCEPT ![Head(left)] = "answered"]
  /\ Answer(Head(left), "answered", "unset")
  /\ left' = Tail(left)
  /\ pc' = "next"
  /\ UNCHANGED <<turn, seg, timedOut, mfan, worker, tid, tracked, invoked,
                 interVars, bits, requested>>

(* A tool the executor dispatches itself raises, or the user presses       *)
(* Ctrl-C in it: the exception leaves the batch with calls unanswered.     *)
SeqRaise ==
  /\ pc = "exec" /\ Head(left) \in Unguarded
  /\ pc' = "raised"
  /\ UNCHANGED <<turn, seg, left, timedOut, mfan, poolVars, interVars, textVars,
                 bits, requested>>

(* Ctrl-C in a tool of the registry interrupts the agent and goes on up.   *)
SeqKeyboard ==
  /\ pc = "exec" /\ Head(left) \notin Unguarded /\ interrupts < MaxInterrupts
  /\ requested' = TRUE
  /\ bits' = bits \cup tracked \cup {Main}
  /\ interrupts' = interrupts + 1
  /\ pc' = "raised"
  /\ UNCHANGED <<turn, seg, left, timedOut, mfan, poolVars, ipc, snap, textVars>>

SeqDone ==
  /\ pc = "next" /\ left = <<>>
  /\ NextSegment
  /\ UNCHANGED <<turn, left, timedOut, mfan, poolVars, interVars, textVars,
                 bits, requested>>

-----------------------------------------------------------------------------
(* The end of the turn.                                                    *)

Cut(m) == [m EXCEPT !.lost = @ \cup m.seen, !.seen = {}]

(* enforce_turn_budget may replace the text of a message of this turn by a *)
(* preview; then the pending steer joins the last result.                  *)
Finalize ==
  /\ pc = "final"
  /\ \E cut \in 0..Len(TurnCalls) :
       LET i  == Len(messages) - cut
           ms == IF cut = Len(TurnCalls) THEN messages
                 ELSE [messages EXCEPT ![i] = Cut(@)]
       IN messages' = ApplySteer(ms)
  /\ pendingSteer' = {}
  /\ pc' = "clear"
  /\ UNCHANGED <<turn, seg, left, timedOut, mfan, poolVars, interVars,
                 dropped, steers, bits, requested>>

(* The conversation loop: an interrupted turn ends by clear_interrupt,     *)
(* whose flag is cleared before the bits.                                  *)
ClearFlag ==
  /\ pc = "clear" /\ requested
  /\ requested' = FALSE
  /\ bits' = bits \ {Main}
  /\ pc' = "clearbits"
  /\ UNCHANGED <<turn, seg, left, timedOut, mfan, poolVars, interVars, textVars>>

ClearBits ==
  /\ pc = "clearbits"
  /\ bits' = bits \ tracked
  /\ dropped' = dropped \cup pendingSteer
  /\ pendingSteer' = {}
  /\ pc' = "idle"
  /\ UNCHANGED <<turn, seg, left, timedOut, mfan, poolVars, interVars,
                 messages, steers, requested>>

TurnEnd ==
  /\ pc = "clear" /\ ~requested
  /\ pc' = "idle"
  /\ UNCHANGED <<turn, seg, left, timedOut, mfan, poolVars, interVars,
                 textVars, bits, requested>>

NextTurn ==
  /\ pc = "idle" /\ turn < Len(Turns)
  /\ turn' = turn + 1 /\ seg' = 1 /\ pc' = "segment"
  /\ UNCHANGED <<left, timedOut, mfan, poolVars, interVars, textVars, bits, requested>>

-----------------------------------------------------------------------------
(* Another thread: interrupt() and steer().                                *)

InterruptFlag ==
  /\ ipc = "idle" /\ interrupts < MaxInterrupts
  /\ pc \notin {"idle", "raised"}
  /\ requested' = TRUE
  /\ bits' = bits \cup {Main}
  /\ interrupts' = interrupts + 1
  /\ ipc' = "flagged"
  /\ UNCHANGED <<mainVars, poolVars, snap, textVars>>

InterruptSnapshot ==
  /\ ipc = "flagged"
  /\ snap' = tracked
  /\ ipc' = "copied"
  /\ UNCHANGED <<mainVars, poolVars, interrupts, textVars, bits, requested>>

InterruptSignal ==
  /\ ipc = "copied"
  /\ bits' = bits \cup snap
  /\ snap' = {}
  /\ ipc' = "idle"
  /\ UNCHANGED <<mainVars, poolVars, interrupts, textVars, requested>>

Steer ==
  /\ steers < MaxSteers /\ pc \notin {"idle", "raised"}
  /\ steers' = steers + 1
  /\ pendingSteer' = pendingSteer \cup {steers + 1}
  /\ UNCHANGED <<mainVars, poolVars, interVars, dropped, messages, bits, requested>>

-----------------------------------------------------------------------------
Init ==
  /\ pc = "segment" /\ turn = 1 /\ seg = 1 /\ left = <<>>
  /\ worker = [c \in Calls |-> "new"]
  /\ tid = [c \in Calls |-> NoTid]
  /\ result = [c \in Calls |-> "none"]
  /\ timedOut = {} /\ tracked = {} /\ bits = {} /\ invoked = {}
  /\ requested = FALSE /\ ipc = "idle" /\ snap = {} /\ mfan = {}
  /\ pendingSteer = {} /\ dropped = {} /\ messages = <<>>
  /\ interrupts = 0 /\ steers = 0

MainStep ==
  \/ PreflightSkip \/ Submit \/ WaitDone \/ WaitDeadline \/ DeadlineSignal
  \/ WaitInterrupt \/ Collect \/ Collected
  \/ SeqBegin \/ SeqSkip \/ SeqReject \/ SeqStart \/ SeqDone
  \/ Finalize \/ ClearFlag \/ ClearBits \/ TurnEnd \/ NextTurn

(* A tool takes its time: it need not return.                              *)
ToolStep == \/ SeqReturn \/ SeqRaise \/ SeqKeyboard
            \/ \E c \in Calls : WorkerReturn(c) \/ WorkerKeyboard(c)

WorkerStep ==
  \E c \in Calls : \/ \E t \in Tids : WorkerPick(c, t)
                   \/ WorkerRegister(c) \/ WorkerStart(c) \/ WorkerUnregister(c) \/ WorkerClear(c)

OtherThread == InterruptFlag \/ InterruptSnapshot \/ InterruptSignal \/ Steer

(* Every turn has ended, or an exception left the batch.                   *)
Over == pc = "raised" \/ (pc = "idle" /\ turn = Len(Turns))

Next == MainStep \/ ToolStep \/ WorkerStep \/ OtherThread \/ (Over /\ UNCHANGED vars)

(* Main and the workers run; nothing makes a tool return.                  *)
Spec == Init /\ [][Next]_vars /\ WF_vars(MainStep) /\ WF_vars(WorkerStep)

-----------------------------------------------------------------------------
(* Types of the variables.                                                 *)
TypeOK ==
  /\ pc \in {"idle", "segment", "wait", "fan", "collect", "next", "exec",
             "final", "clear", "clearbits", "raised"}
  /\ turn \in DOMAIN Turns /\ seg \in DOMAIN Turns[turn]
  /\ left \in Seq(Calls)
  /\ worker \in [Calls -> WorkerStates]
  /\ tid \in [Calls -> Tids \cup {NoTid}]
  /\ result \in [Calls -> Results]
  /\ timedOut \subseteq Calls /\ invoked \subseteq Calls
  /\ tracked \subseteq Tids /\ snap \subseteq Tids /\ mfan \subseteq Tids
  /\ bits \subseteq Tids \cup {Main}
  /\ requested \in BOOLEAN
  /\ ipc \in {"idle", "flagged", "copied"}
  /\ pendingSteer \subseteq 1..MaxSteers /\ dropped \subseteq 1..MaxSteers
  /\ messages \in Seq(Message)
  /\ interrupts \in 0..MaxInterrupts /\ steers \in 0..MaxSteers

(* When a batch has ended, every call of every turn so far has exactly one *)
(* message, in the order the model emitted them, whatever was rejected,    *)
(* refused, cancelled, timed out or skipped on the way.                    *)
EmittedCalls(n) ==
  FlattenSeq([i \in 1..n |-> FlattenSeq([s \in DOMAIN Turns[i] |-> Turns[i][s].calls])])

OneResultPerCall ==
  pc \in {"final", "clear", "clearbits", "idle"} =>
    [i \in DOMAIN messages |-> messages[i].call] = EmittedCalls(turn)

(* A message that promises the call had no effect (effect_disposition      *)
(* "none") is about a tool that never ran, and none that is still queued.  *)
NoneMeansNotRun ==
  \A i \in DOMAIN messages : messages[i].effect = "none" =>
    /\ messages[i].call \notin invoked
    /\ worker[messages[i].call] \in {"new", "cancelled"}

(* No interrupt is lost between the fan-out and a worker that registers:   *)
(* when no interrupt() is under way, every tool the current batch runs     *)
(* has its bit set as long as the request stands.                          *)
InterruptDelivered ==
  requested /\ ipc = "idle" /\ pc \in {"wait", "fan", "collect"} =>
    \A c \in Batch : worker[c] = "running" => tid[c] \in bits

(* A steer that was accepted is in exactly one place.                      *)
SteerOnce ==
  /\ 1..steers = pendingSteer \cup dropped
                   \cup UNION {messages[i].seen \cup messages[i].lost : i \in DOMAIN messages}
  /\ pendingSteer \cap dropped = {}
  /\ \A i \in DOMAIN messages :
       /\ (messages[i].seen \cup messages[i].lost) \cap (pendingSteer \cup dropped) = {}
       /\ \A j \in DOMAIN messages : i # j =>
            (messages[i].seen \cup messages[i].lost)
              \cap (messages[j].seen \cup messages[j].lost) = {}

(* A parallel batch is always left, though its tools never return.         *)
BatchEnds == pc = "wait" ~> pc \notin {"wait", "fan", "collect"}

(* A tool is not interrupted by a bit that is not its own: a bit that is   *)
(* set while a tool of the current batch runs comes from a standing        *)
(* request or from the deadline of its batch.                              *)
NoStaleInterrupt ==
  \A c \in Batch : worker[c] = "running" /\ tid[c] \in bits
                     => requested \/ pc # "wait"

(* The row of a message in the session store has the text the model gets.  *)
SavedAsSent ==
  \A i \in DOMAIN messages : messages[i].saved => messages[i].row = messages[i].seen

(* The turn budget never cuts a steer away.                                *)
SteerNeverCut == \A i \in DOMAIN messages : messages[i].lost = {}

(* A call starts after every call of an earlier segment has ended.         *)
SegmentsInOrder ==
  \A s \in 1..(seg - 1) : \A c \in ToSet(Turns[turn][s].calls) :
    ~(Live(c) /\ (pc = "exec" \/ \E d \in Batch : worker[d] = "running"))
=============================================================================
