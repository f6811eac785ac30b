------------------------------ MODULE ModelCall ------------------------------
(***************************************************************************)
(* The model calls of an agent (run_agent.py): the shared client and the   *)
(* request clients built from the same keyword arguments, the credentials  *)
(* that are refreshed between attempts, and the attempts themselves, each  *)
(* a thread that streams text until it ends or the main thread aborts it.  *)
(* The loop that starts, watches and retries attempts is not in the        *)
(* repository; it is modelled from the handlers it calls.                  *)
(***************************************************************************)
EXTENDS Naturals, Sequences, FiniteSets, SequencesExt

CONSTANTS
  None,
  MaxAttempts,   \* bound: attempts ever started
  MaxChunks,     \* bound: chunks ever streamed
  MaxRefreshes,  \* bound: credentials issued
  MaxFailures    \* bound: clients that cannot be built, shutdowns that raise

ASSUME ModelCallAssumption ==
  /\ {MaxAttempts, MaxChunks, MaxRefreshes, MaxFailures} \subseteq Nat
  /\ None \notin Nat

VARIABLES
  wire,      \* whose wire: a provider of OpenAI's, "moa", or Anthropic's
  kwargs,    \* _client_kwargs: which credential its key and base URL come from
  client,    \* self.client, or _anthropic_client
  cl,        \* every client built, in order
  lock,      \* _openai_client_lock: Main, an attempt, or None
  main,      \* the main thread: [pc, att, old]
  w,         \* attempt -> its thread
  writer,    \* _stream_writer_token
  text,      \* _current_streamed_assistant_text: whose chunks, in order
  late,      \* attempt -> chunks it delivered although it was superseded
  chunks,    \* how many were streamed
  refreshes, failures

vars == <<wire, kwargs, client, cl, lock, main, w, writer, text, late, chunks, refreshes, failures>>
bounds == <<refreshes, failures>>
stream == <<writer, text, late, chunks>>
clients == <<wire, kwargs, client, cl, lock>>

Attempts == 1..MaxAttempts
Main == 0

(* A thread: its client and whether that is the shared one (lent), the     *)
(* connection it reads from, whether an abort shut that (hit), the client  *)
(* it replaced, the credential it found, and its part of the stream.       *)
NewThread == [pc |-> "none", client |-> None, lent |-> FALSE, conn |-> "none", hit |-> FALSE,
              old |-> None, fresh |-> 0, token |-> 0, seen |-> <<>>]

With(key, base) == Append(cl, [st |-> "open", key |-> key, base |-> base])
Built == With(kwargs.key, kwargs.base)
Closed(c) == IF c = None THEN cl ELSE [cl EXCEPT ![c].st = "closed"]
IsClosed(c) == IF c = None THEN TRUE ELSE cl[c].st = "closed"

(* _force_close_tcp_sockets: the connections the client has now are shut.  *)
Cut(c) ==
  [a \in Attempts |-> IF w[a].client = c /\ w[a].conn = "open"
                      THEN [w[a] EXCEPT !.conn = "shut"] ELSE w[a]]

Fails == failures < MaxFailures /\ failures' = failures + 1
Works == failures' = failures
Go(a, pc) == w' = [w EXCEPT ![a].pc = pc]
MainTo(pc) == main' = [main EXCEPT !.pc = pc]

(* The calling thread claimed the sink and another has claimed it since.   *)
Superseded(a) == w[a].token # 0 /\ w[a].token # writer

-----------------------------------------------------------------------------
(* The main thread.                                                        *)

(* A model call begins with fresh delivery tracking, a retry without.  An  *)
(* Anthropic call may be made without a client of its own; with moa none   *)
(* has one.                                                                *)
StartAttempt ==
  /\ main.pc \in {"idle", "between"} /\ main.att < MaxAttempts
  /\ main' = [main EXCEPT !.pc = "wait", !.att = @ + 1]
  /\ \E lent \in IF wire = "anthropic" THEN BOOLEAN ELSE {wire = "moa"} :
       w' = [w EXCEPT ![main.att + 1].pc = IF wire = "anthropic" THEN "refresh" ELSE "ensure",
                      ![main.att + 1].lent = lent]
  /\ text' = IF main.pc = "idle" THEN <<>> ELSE text
  /\ UNCHANGED <<clients, writer, late, chunks, bounds>>

(* Mutant: the stranger thread closes the client instead.                  *)
AbortCloses ==
  LET c == w[main.att].client IN
  /\ main.pc = "wait" /\ c # None
  /\ cl' = Closed(c) /\ w' = Cut(c)
  /\ MainTo("between")
  /\ UNCHANGED <<wire, kwargs, client, lock, stream, bounds>>

(* Mutant: the sockets in use are spared.                                  *)
AbortSpares ==
  /\ main.pc = "wait"
  /\ w' = [w EXCEPT ![main.att].hit = w[main.att].conn = "open"]
  /\ MainTo("between")
  /\ UNCHANGED <<clients, stream, bounds>>

(* A stale stream or an interrupt: _abort_request_openai_client (and the   *)
(* one of Anthropic) only shuts the sockets down; the attempt's thread is  *)
(* not waited for.  Nothing happens to a client that does not exist yet,   *)
(* has no socket, or whose shutdown raises.                                *)
Abort ==
  LET a == main.att c == w[a].client IN
  /\ main.pc = "wait" /\ MainTo("between")
  /\ \/ /\ Works
        /\ w' = [Cut(c) EXCEPT ![a].hit = w[a].conn = "open"]
     \/ Fails /\ c # None /\ w' = w
  /\ UNCHANGED <<clients, stream, refreshes>>

(* The attempt answered, or failed.                                        *)
Answered ==
  /\ main.pc = "wait" /\ w[main.att].pc = "over"
  /\ \E pc \in {"idle", "between"} : MainTo(pc)
  /\ UNCHANGED <<clients, w, stream, bounds>>

GiveUp ==
  /\ main.pc = "between" /\ MainTo("idle")
  /\ UNCHANGED <<clients, w, stream, bounds>>

(* _swap_credential on Anthropic's wire closes the shared client first.    *)
CloseForSwap ==
  /\ main.pc = "between" /\ wire = "anthropic" /\ refreshes < MaxRefreshes
  /\ refreshes' = refreshes + 1
  /\ cl' = Closed(client) /\ w' = Cut(client)
  /\ MainTo("key")
  /\ UNCHANGED <<wire, kwargs, client, lock, stream, failures>>

(* A credential is refreshed (codex, nous, vertex and copilot alike) or    *)
(* swapped for another of the pool: its key is set ...                     *)
SetKey ==
  /\ \/ main.pc = "key" /\ UNCHANGED refreshes
     \/ /\ main.pc = "between" /\ wire # "anthropic" /\ refreshes < MaxRefreshes
        /\ refreshes' = refreshes + 1
  /\ kwargs' = [kwargs EXCEPT !.key = refreshes']
  /\ MainTo("base")
  /\ UNCHANGED <<wire, client, cl, lock, w, stream, failures>>

(* ... then the base URL that goes with it, without the lock ...           *)
SetBase ==
  /\ main.pc = "base"
  /\ kwargs' = [kwargs EXCEPT !.base = kwargs.key]
  /\ MainTo(IF wire = "anthropic" THEN "swap" ELSE "replace")
  /\ UNCHANGED <<wire, client, cl, lock, w, stream, bounds>>

(* ... then Anthropic's client is built, or the rotation raises; ...       *)
SwapBuild ==
  /\ main.pc = "swap" /\ MainTo("between")
  /\ \/ Works /\ cl' = Built /\ client' = Len(cl')
     \/ Fails /\ UNCHANGED <<cl, client>>
  /\ UNCHANGED <<wire, kwargs, lock, w, stream, refreshes>>

(* Mutant: without the lock.                                               *)
ReplaceUnlocked ==
  /\ main.pc = "replace"
  /\ main' = [main EXCEPT !.pc = "make", !.old = client]
  /\ UNCHANGED <<clients, w, stream, bounds>>

(* ... OpenAI's is replaced: _replace_primary_openai_client reads the old  *)
(* one under the lock, ...                                                 *)
Replace ==
  /\ main.pc = "replace" /\ lock = None
  /\ lock' = Main
  /\ main' = [main EXCEPT !.pc = "make", !.old = client]
  /\ UNCHANGED <<wire, kwargs, client, cl, w, stream, bounds>>

(* ... puts a new one in its place ...                                     *)
Make ==
  /\ main.pc = "make" /\ lock' = None
  /\ \/ Works /\ cl' = Built /\ client' = Len(cl') /\ MainTo("close")
     \/ /\ Fails /\ main' = [main EXCEPT !.pc = "between", !.old = None]
        /\ UNCHANGED <<client, cl>>
  /\ UNCHANGED <<wire, kwargs, w, stream, refreshes>>

(* ... and closes the old one after it.                                    *)
CloseReplaced ==
  /\ main.pc = "close"
  /\ cl' = Closed(main.old) /\ w' = Cut(main.old)
  /\ main' = [main EXCEPT !.pc = "between", !.old = None]
  /\ UNCHANGED <<wire, kwargs, client, lock, stream, bounds>>

-----------------------------------------------------------------------------
(* An attempt's thread: its client.                                        *)

(* _ensure_primary_openai_client takes the lock and looks at the client    *)
(* ...                                                                     *)
Ensure(a) ==
  /\ w[a].pc = "ensure" /\ lock = None
  /\ \/ /\ ~IsClosed(client) /\ UNCHANGED lock
        /\ w' = [w EXCEPT ![a].pc = "build", ![a].client = IF w[a].lent THEN client ELSE None]
     \/ /\ IsClosed(client) /\ lock' = a
        /\ w' = [w EXCEPT ![a].pc = "recreate", ![a].old = client]
  /\ UNCHANGED <<wire, kwargs, client, cl, main, stream, bounds>>

(* ... to recreate it if it was closed ...                                 *)
Recreate(a) ==
  /\ w[a].pc = "recreate" /\ lock' = None
  /\ \/ /\ Works /\ cl' = Built /\ client' = Len(cl')
        /\ w' = [w EXCEPT ![a].pc = "closeOld",
                          ![a].client = IF w[a].lent THEN client' ELSE None]
     \/ /\ Fails /\ UNCHANGED <<client, cl>>
        /\ w' = [w EXCEPT ![a].pc = "over", ![a].old = None]
  /\ UNCHANGED <<wire, kwargs, main, stream, refreshes>>

(* ... and closes it once more, after the lock.                            *)
CloseOld(a) ==
  LET c == w[a].old IN
  /\ w[a].pc = "closeOld"
  /\ cl' = Closed(c) /\ w' = [Cut(c) EXCEPT ![a].pc = "build", ![a].old = None]
  /\ UNCHANGED <<wire, kwargs, client, lock, main, stream, bounds>>

(* _try_refresh_anthropic_client_credentials, called for every call: with  *)
(* a new token the shared client is closed, ...                            *)
Refresh(a) ==
  /\ w[a].pc = "refresh"
  /\ \/ /\ refreshes < MaxRefreshes /\ refreshes' = refreshes + 1
        /\ cl' = Closed(client)
        /\ w' = [Cut(client) EXCEPT ![a].pc = "rebuild", ![a].fresh = refreshes']
     \/ UNCHANGED <<cl, refreshes>> /\ Go(a, "build")
  /\ UNCHANGED <<wire, kwargs, client, lock, main, stream, failures>>

(* ... built anew with it, or left closed, ...                             *)
Rebuild(a) ==
  /\ w[a].pc = "rebuild"
  /\ \/ /\ Works /\ Go(a, "rekey")
        /\ cl' = With(w[a].fresh, kwargs.base) /\ client' = Len(cl')
     \/ Fails /\ Go(a, "build") /\ UNCHANGED <<client, cl>>
  /\ UNCHANGED <<wire, kwargs, lock, main, stream, refreshes>>

(* ... and the token kept for later clients.                               *)
Rekey(a) ==
  /\ w[a].pc = "rekey"
  /\ kwargs' = [kwargs EXCEPT !.key = w[a].fresh]
  /\ Go(a, "build")
  /\ UNCHANGED <<wire, client, cl, lock, main, stream, bounds>>

(* _create_request_openai_client copies the keyword arguments under the    *)
(* lock, the one of Anthropic reads them without: a client for this call.  *)
Build(a) ==
  /\ w[a].pc = "build" /\ ~w[a].lent
  /\ wire = "openai" => lock = None
  /\ \/ /\ Works /\ cl' = Built
        /\ w' = [w EXCEPT ![a].pc = "send", ![a].client = Len(cl')]
     \/ Fails /\ Go(a, "over") /\ cl' = cl
  /\ UNCHANGED <<wire, kwargs, client, lock, main, stream, refreshes>>

(* With moa the client that was ensured, and for a direct Anthropic call   *)
(* the shared one of now.                                                  *)
Borrow(a) ==
  /\ w[a].pc = "build" /\ w[a].lent
  /\ w' = [w EXCEPT ![a].pc = "send", ![a].client = IF wire = "moa" THEN @ ELSE client]
  /\ UNCHANGED <<clients, main, stream, bounds>>

-----------------------------------------------------------------------------
(* An attempt's thread: its stream.                                        *)

(* The request goes out on a new connection.                               *)
Connect(a) ==
  /\ w[a].pc = "send" /\ cl[w[a].client].st = "open"
  /\ w' = [w EXCEPT ![a].pc = "claim", ![a].conn = "open"]
  /\ UNCHANGED <<clients, main, stream, bounds>>

(* Before there is a response, the SDK's own retries may connect again:    *)
(* they are only switched off for the request clients of OpenAI's wire.    *)
Reconnect(a) ==
  /\ w[a].pc = "claim" /\ w[a].conn = "shut"
  /\ wire = "anthropic" /\ cl[w[a].client].st = "open"
  /\ w' = [w EXCEPT ![a].conn = "open", ![a].hit = FALSE]
  /\ UNCHANGED <<clients, main, stream, bounds>>

(* Mutant: the new token is not the shared one.                            *)
ClaimUnshared(a) ==
  /\ w[a].pc = "claim"
  /\ w' = [w EXCEPT ![a].pc = "stream", ![a].token = writer + 1]
  /\ UNCHANGED <<clients, main, stream, bounds>>

(* The response is there: _claim_stream_writer.                            *)
Claim(a) ==
  /\ w[a].pc = "claim"
  /\ writer' = writer + 1
  /\ w' = [w EXCEPT ![a].pc = "stream", ![a].token = writer']
  /\ UNCHANGED <<clients, main, text, late, chunks, bounds>>

(* Mutant: _fire_stream_delta does not look who claimed the sink.          *)
ChunkUnchecked(a) ==
  /\ w[a].pc = "stream" /\ chunks < MaxChunks
  /\ w' = [w EXCEPT ![a].pc = "deliver"]
  /\ chunks' = chunks + 1
  /\ UNCHANGED <<clients, main, writer, text, late, bounds>>

(* A chunk: _fire_stream_delta drops it if the writer is superseded ...    *)
Chunk(a) ==
  /\ w[a].pc = "stream" /\ chunks < MaxChunks
  /\ w' = [w EXCEPT ![a].pc = IF Superseded(a) THEN "stream" ELSE "deliver"]
  /\ chunks' = chunks + 1
  /\ UNCHANGED <<clients, main, writer, text, late, bounds>>

(* ... runs the callbacks ...                                              *)
Deliver(a) ==
  /\ w[a].pc = "deliver"
  /\ late' = IF Superseded(a) THEN [late EXCEPT ![a] = @ + 1] ELSE late
  /\ Go(a, "note")
  /\ UNCHANGED <<clients, main, writer, text, chunks, bounds>>

(* ... and _record_streamed_assistant_text, which looks again, reads the   *)
(* text so far ...                                                         *)
Note(a) ==
  /\ w[a].pc = "note"
  /\ w' = IF Superseded(a) THEN [w EXCEPT ![a].pc = "stream"]
                           ELSE [w EXCEPT ![a].pc = "append", ![a].seen = text]
  /\ UNCHANGED <<clients, main, stream, bounds>>

(* ... and writes it with the chunk behind it.                             *)
AppendText(a) ==
  /\ w[a].pc = "append"
  /\ text' = Append(w[a].seen, a)
  /\ w' = [w EXCEPT ![a].pc = "stream", ![a].seen = <<>>]
  /\ UNCHANGED <<clients, main, writer, late, chunks, bounds>>

(* The request fails or the stream ends, by itself or as its sockets are   *)
(* shut; while they are open it may also hang for ever.                    *)
StreamEnds(a) ==
  /\ w[a].pc \in {"send", "claim", "stream"}
  /\ Go(a, "closing")
  /\ UNCHANGED <<clients, main, stream, bounds>>

(* The owner closes its request client; the shared one of a direct         *)
(* Anthropic call stays.                                                   *)
CloseRequest(a) ==
  LET c == IF wire = "anthropic" /\ w[a].lent THEN None ELSE w[a].client IN
  /\ w[a].pc = "closing"
  /\ cl' = Closed(c) /\ w' = [Cut(c) EXCEPT ![a].pc = "over"]
  /\ UNCHANGED <<wire, kwargs, client, lock, main, stream, bounds>>

-----------------------------------------------------------------------------
Init ==
  /\ wire \in {"openai", "moa", "anthropic"}
  /\ kwargs = [key |-> 0, base |-> 0]
  /\ client = 1 /\ lock = None
  /\ \E st \in {"open", "closed"} : cl = <<[st |-> st, key |-> 0, base |-> 0]>>
  /\ main = [pc |-> "idle", att |-> 0, old |-> None]
  /\ w = [a \in Attempts |-> NewThread]
  /\ writer = 0 /\ text = <<>> /\ late = [a \in Attempts |-> 0]
  /\ chunks = 0 /\ refreshes = 0 /\ failures = 0

Ready(a) ==
  \/ Ensure(a) \/ Recreate(a) \/ CloseOld(a)
  \/ Refresh(a) \/ Rebuild(a) \/ Rekey(a) \/ Build(a) \/ Borrow(a)
Consume(a) == Claim(a) \/ Chunk(a) \/ Deliver(a) \/ Note(a) \/ AppendText(a)
Run(a) ==
  \/ Ready(a) \/ Connect(a) \/ Reconnect(a) \/ Consume(a)
  \/ StreamEnds(a) \/ CloseRequest(a)

Next ==
  \/ StartAttempt \/ Abort \/ Answered \/ GiveUp
  \/ CloseForSwap \/ SetKey \/ SetBase \/ SwapBuild \/ Replace \/ Make \/ CloseReplaced
  \/ \E a \in Attempts : Run(a)

(* A thread that can go on does, and a read returns once its sockets are   *)
(* shut.  Nothing is assumed of a read whose sockets are open.             *)
Fairness ==
  \A a \in Attempts :
    /\ WF_vars(CloseRequest(a))
    /\ WF_vars(Deliver(a)) /\ WF_vars(Note(a)) /\ WF_vars(AppendText(a))
    /\ WF_vars(w[a].conn = "shut" /\ StreamEnds(a))

Spec == Init /\ [][Next]_vars /\ Fairness

-----------------------------------------------------------------------------
Streaming(a) == w[a].pc \in {"send", "claim", "stream", "deliver", "note", "append", "closing"}

(* Types; a stream has a client, and only attempts that were started run.  *)
TypeOK ==
  /\ wire \in {"openai", "moa", "anthropic"} /\ client \in 1..Len(cl)
  /\ kwargs.key \in 0..refreshes /\ kwargs.base \in 0..refreshes
  /\ \A c \in 1..Len(cl) :
       /\ cl[c].st \in {"open", "closed"}
       /\ cl[c].key \in 0..refreshes /\ cl[c].base \in 0..refreshes
  /\ main.pc \in {"idle", "wait", "between", "key", "base", "swap", "replace", "make", "close"}
  /\ main.att \in 0..MaxAttempts /\ chunks \in 0..MaxChunks /\ lock \in Attempts \cup {Main, None}
  /\ \A a \in Attempts :
       /\ a > main.att <=> w[a].pc = "none"
       /\ w[a].token \in 0..writer
       /\ w[a].conn \in {"none", "open", "shut"}
       /\ Streaming(a) => w[a].client \in 1..Len(cl)

(* No thread but its own releases the connection a stream reads from,      *)
(* whoever aborts, retries, refreshes or recreates meanwhile.  That is     *)
(* what a client per request is for; see SharedConnection for the rest.    *)
OwnConnection ==
  \A a \in Attempts : Streaming(a) /\ ~w[a].lent => cl[w[a].client].st # "closed"

(* Every OpenAI client that was built is in use or is closed, although an  *)
(* aborted attempt recreates the shared one while the main thread replaces *)
(* it.                                                                     *)
NoClientLost ==
  wire # "anthropic" =>
    \A c \in 1..Len(cl) : cl[c].st # "closed" =>
      \/ c \in {client, main.old}
      \/ \E a \in Attempts : w[a].old = c \/ (w[a].client = c /\ Streaming(a))

(* A superseded stream shows at most the one chunk it was delivering.      *)
LateAtMostOnce == \A a \in Attempts : late[a] <= 1

(* An attempt whose connection an abort shut ends and closes its client,   *)
(* unless the SDK connects again.  One without a connection at that moment *)
(* is not stopped at all: see AbortStops.                                  *)
AbortedEnds ==
  \A a \in Attempts : w[a].hit ~> (w[a].pc = "over" \/ ~w[a].hit)

(* The same of every stream.  It fails for those on the shared client: a   *)
(* refresh, a swap or another request closes it.                           *)
SharedConnection ==
  \A a \in Attempts : Streaming(a) /\ w[a].conn # "none" => cl[w[a].client].st # "closed"

(* A superseded stream's chunks are fenced out.  It fails: who writes is   *)
(* looked at before the callbacks run.                                     *)
FencedOut == \A a \in Attempts : late[a] = 0

(* The attempt the main thread waits for is the one that writes.  It       *)
(* fails: an aborted one whose response had come claims the sink after it. *)
NewestWrites == main.pc = "wait" => ~Superseded(main.att)

(* Text once recorded for this response stays.  It fails: a superseded     *)
(* stream writes back what it read before.                                 *)
RecordedKept == [][text' = <<>> \/ IsPrefix(text, text')]_text

(* An attempt the main thread has given up ends.  It fails: an abort that  *)
(* comes before there is a connection shuts nothing.                       *)
AbortStops ==
  \A a \in Attempts : (main.pc = "between" /\ main.att = a) ~> w[a].pc \in {"none", "over"}

(* No client is built with one credential's key and another's base URL.    *)
(* It fails: an aborted attempt may copy them between the two assignments. *)
BuiltWhole == [][Len(cl') > Len(cl) => main.pc # "base"]_cl
=============================================================================
