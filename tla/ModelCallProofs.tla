--------------------------- MODULE ModelCallProofs ----------------------------
(***************************************************************************)
(* The clients and streams of ModelCall, for every number of attempts, of  *)
(* chunks, of refreshed credentials and of clients that cannot be built.   *)
(***************************************************************************)
EXTENDS ModelCall, SequenceTheorems, TLAPS

Client == [st : {"open", "closed"}, key : Nat, base : Nat]
MainThread == [pc : {"idle", "wait", "between", "key", "base", "swap", "replace", "make", "close"},
               att : 0..MaxAttempts, old : Nat \cup {None}]
Ensuring == {"ensure", "recreate", "closeOld"}
Preparing == Ensuring \cup {"refresh", "rebuild", "rekey", "build"}
InStream == {"send", "claim", "stream", "deliver", "note", "append", "closing"}
Pcs == Preparing \cup InStream \cup {"none", "over"}
Thread == [pc : Pcs, client : Nat \cup {None}, lent : BOOLEAN, conn : {"none", "open", "shut"},
           hit : BOOLEAN, old : Nat \cup {None}, fresh : Nat, token : Nat,
           seen : Seq(Attempts)]
Known == 1..Len(cl) \cup {None}

\* What the threads share.  The main thread remembers a client from the moment
\* it looked at it, which it does under the lock, until it closed it.
SharedOK ==
  /\ wire \in {"openai", "moa", "anthropic"} /\ refreshes \in Nat
  /\ kwargs \in [key : Nat, base : Nat] /\ kwargs.key <= refreshes /\ kwargs.base <= refreshes
  /\ cl \in Seq(Client) /\ client \in 1..Len(cl)
  /\ \A c \in 1..Len(cl) : cl[c].key <= refreshes /\ cl[c].base <= refreshes
  /\ main \in MainThread /\ main.old \in Known
  /\ main.pc \notin {"make", "close"} => main.old = None
  /\ main.pc \in {"replace", "make", "close"} => wire # "anthropic"
  /\ main.pc \in {"key", "swap"} => wire = "anthropic"
  /\ main.pc = "make" => lock = Main /\ main.old = client
  /\ main.pc = "wait" => main.att \in Attempts
  /\ lock \in Attempts \cup {Main, None}
  /\ writer \in Nat /\ text \in Seq(Attempts) /\ late \in [Attempts -> Nat]

\* A client of a stream's own: nobody else knows it, to use it or to close it.
Owns(a) ==
  /\ cl[w[a].client].st = "open" /\ w[a].client \notin {client, main.old}
  /\ \A b \in Attempts : w[b].old # w[a].client /\ (b # a => w[b].client # w[a].client)

\* An attempt that found the shared client closed holds the lock until it put
\* another in its place, and remembers it until it closed it; it has a client
\* when it streams; and once it delivered a chunk late, it is superseded for good.
ThreadOK(a) ==
  /\ {w[a].client, w[a].old} \subseteq Known /\ w[a].fresh <= refreshes
  /\ a > main.att <=> w[a].pc = "none"
  /\ w[a].pc \in Ensuring => wire # "anthropic"
  /\ w[a].pc \in {"refresh", "rebuild", "rekey"} => wire = "anthropic"
  /\ w[a].pc = "recreate" => lock = a /\ w[a].old = client
  /\ w[a].pc \notin {"recreate", "closeOld"} => w[a].old = None
  /\ w[a].pc \in {"closeOld", "build"} /\ w[a].lent /\ wire # "anthropic" => w[a].client # None
  /\ Streaming(a) => w[a].client # None
  /\ Streaming(a) /\ ~w[a].lent => Owns(a)
  /\ w[a].token <= writer
  /\ w[a].pc \in Preparing \cup {"none", "send", "claim"} => w[a].token = 0
  /\ late[a] = 0 \/ (late[a] = 1 /\ Superseded(a) /\ w[a].pc # "deliver")

CallInv ==
  /\ SharedOK
  /\ w \in [Attempts -> Thread]
  /\ \A a \in Attempts : ThreadOK(a)
  /\ NoClientLost

-------------------------------------------------------------------------------
\* What becomes of the clients: one is closed, one is built.
LEMMA ClosedKeeps ==
    ASSUME cl \in Seq(Client), NEW c \in Known
    PROVE  /\ Closed(c) \in Seq(Client) /\ Len(Closed(c)) = Len(cl) /\ Len(cl) \in Nat
           /\ \A i \in 1..Len(cl) :
                /\ Closed(c)[i].key = cl[i].key /\ Closed(c)[i].base = cl[i].base
                /\ Closed(c)[i].st = IF i = c THEN "closed" ELSE cl[i].st
<1>1. CASE c = None
  BY <1>1, ModelCallAssumption DEF Closed
<1>2. CASE c # None
  <2>1. c \in 1..Len(cl) /\ Closed(c) = [cl EXCEPT ![c] = [cl[c] EXCEPT !.st = "closed"]]
    BY <1>2 DEF Known, Closed
  <2>2. cl[c] \in Client
    BY <2>1
  <2>3. /\ [cl[c] EXCEPT !.st = "closed"] \in Client
        /\ [cl[c] EXCEPT !.st = "closed"].st = "closed"
        /\ [cl[c] EXCEPT !.st = "closed"].key = cl[c].key
        /\ [cl[c] EXCEPT !.st = "closed"].base = cl[c].base
    BY <2>2 DEF Client
  <2> QED
    BY <2>1, <2>3, ExceptSeq
<1> QED
  BY <1>1, <1>2

LEMMA WithKeeps ==
    ASSUME cl \in Seq(Client), NEW k \in Nat, NEW b \in Nat
    PROVE  /\ With(k, b) \in Seq(Client) /\ Len(With(k, b)) = Len(cl) + 1 /\ Len(cl) \in Nat
           /\ \A i \in 1..Len(cl) : With(k, b)[i] = cl[i]
           /\ With(k, b)[Len(cl) + 1] = [st |-> "open", key |-> k, base |-> b]
<1>1. [st |-> "open", key |-> k, base |-> b] \in Client
  BY DEF Client
<1> QED
  BY <1>1, AppendProperties DEF With

\* One more client, with that key and that base URL.
Grown(k, b) ==
  /\ cl' \in Seq(Client) /\ Len(cl') = Len(cl) + 1 /\ Len(cl) \in Nat
  /\ \A i \in 1..Len(cl) : cl'[i] = cl[i]
  /\ cl'[Len(cl')].st = "open" /\ cl'[Len(cl')].key = k /\ cl'[Len(cl')].base = b

LEMMA WithGrows ==
    ASSUME cl \in Seq(Client), NEW k \in Nat, NEW b \in Nat, cl' = With(k, b)
    PROVE  Grown(k, b)
<1>1. /\ cl' \in Seq(Client) /\ Len(cl') = Len(cl) + 1 /\ Len(cl) \in Nat
      /\ \A i \in 1..Len(cl) : cl'[i] = cl[i]
      /\ cl'[Len(cl')] = [st |-> "open", key |-> k, base |-> b]
  BY WithKeeps
<1> QED
  BY <1>1 DEF Grown

LEMMA BuiltGrows ==
    ASSUME SharedOK, cl' = Built
    PROVE  Grown(kwargs.key, kwargs.base)
<1>1. kwargs.key \in Nat /\ kwargs.base \in Nat /\ cl \in Seq(Client)
      /\ cl' = With(kwargs.key, kwargs.base)
  BY DEF SharedOK, Built
<1> QED
  BY <1>1, WithGrows

LEMMA CutKeeps ==
    ASSUME w \in [Attempts -> Thread], NEW c
    PROVE  /\ Cut(c) \in [Attempts -> Thread]
           /\ \A a \in Attempts :
                /\ Cut(c)[a].pc = w[a].pc /\ Cut(c)[a].client = w[a].client
                /\ Cut(c)[a].lent = w[a].lent /\ Cut(c)[a].old = w[a].old
                /\ Cut(c)[a].fresh = w[a].fresh /\ Cut(c)[a].token = w[a].token
<1> SUFFICES ASSUME NEW a \in Attempts
             PROVE  /\ Cut(c)[a] \in Thread
                    /\ Cut(c)[a].pc = w[a].pc /\ Cut(c)[a].client = w[a].client
                    /\ Cut(c)[a].lent = w[a].lent /\ Cut(c)[a].old = w[a].old
                    /\ Cut(c)[a].fresh = w[a].fresh /\ Cut(c)[a].token = w[a].token
  BY DEF Cut
<1>1. w[a] \in Thread /\ Cut(c)[a] \in {w[a], [w[a] EXCEPT !.conn = "shut"]}
  BY DEF Cut
<1> QED
  BY <1>1 DEF Thread

-------------------------------------------------------------------------------
\* The clients after a step: those of before, of which the ones in S were closed,
\* and perhaps one more, which may now be the shared one.
Clients(S) ==
  /\ Len(cl) \in Nat /\ Len(cl') \in Nat /\ Len(cl') >= Len(cl)
  /\ \A i \in 1..Len(cl) : cl'[i].st = IF i \in S THEN "closed" ELSE cl[i].st
  /\ client' = client \/ (client' > Len(cl) /\ client' <= Len(cl'))

\* A thread that does not move, though its connection may be shut.
Alike(b) ==
  /\ w'[b].pc = w[b].pc /\ w'[b].client = w[b].client /\ w'[b].lent = w[b].lent
  /\ w'[b].old = w[b].old /\ w'[b].fresh = w[b].fresh /\ w'[b].token = w[b].token
  /\ late'[b] = late[b]

\* What a stream owns stays its own: others take over the shared client, or one
\* that was not there before, and close what they hold.
LEMMA OwnsKept ==
    ASSUME NEW S, NEW b \in Attempts, Owns(b), Clients(S), w[b].client \in 1..Len(cl),
           None \notin Nat,
           w'[b].client = w[b].client, w[b].client \notin S,
           main'.old \in {main.old, client, None},
           \A d \in Attempts : /\ w'[d].old \in {w[d].old, client, None}
                               /\ \/ w'[d].client \in {w[d].client, client, client', None}
                                  \/ w'[d].client > Len(cl)
    PROVE  Owns(b)'
<1>1. w[b].client # client' /\ w[b].client # None /\ w[b].client # client
  BY DEF Clients, Owns
<1>2. cl'[w[b].client].st = "open"
  BY DEF Clients, Owns
<1>3. ASSUME NEW d \in Attempts PROVE w'[d].old # w[b].client /\ (d # b => w'[d].client # w[b].client)
  BY <1>1, <1>3 DEF Owns, Clients
<1>4. w[b].client # main'.old
  BY <1>1 DEF Owns
<1> QED
  BY <1>1, <1>2, <1>3, <1>4 DEF Owns

\* A thread that does not move keeps what holds of it.
LEMMA AlikeKept ==
    ASSUME CallInv, NEW S, Clients(S), NEW b \in Attempts, Alike(b),
           wire' = wire, main'.att = main.att,
           refreshes' \in Nat, refreshes' >= refreshes, writer' \in Nat, writer' >= writer,
           w[b].pc = "recreate" => lock' = lock /\ client' = client,
           ~w[b].lent => w[b].client \notin S \/ ~Streaming(b),
           main'.old \in {main.old, client, None},
           \A d \in Attempts : /\ w'[d].old \in {w[d].old, client, None}
                               /\ \/ w'[d].client \in {w[d].client, client, client', None}
                                  \/ w'[d].client > Len(cl)
    PROVE  ThreadOK(b)'
<1>1. ThreadOK(b) /\ w[b] \in Thread /\ refreshes \in Nat /\ writer \in Nat
  BY DEF CallInv, SharedOK
<1>2. Known \subseteq Known'
  BY DEF Known, Clients
<1>3. ASSUME Streaming(b), ~w[b].lent PROVE Owns(b)'
  <2>1. Owns(b) /\ w[b].client \in 1..Len(cl) /\ w'[b].client = w[b].client
    BY <1>1, <1>3 DEF ThreadOK, Known, Alike
  <2> QED
    BY <1>3, <2>1, OwnsKept, ModelCallAssumption
<1>4. w[b].fresh \in Nat /\ w[b].token \in Nat
  BY <1>1 DEF Thread
<1>5. Superseded(b) => Superseded(b)'
  BY <1>1, <1>4 DEF Superseded, Alike, ThreadOK
<1>6. w'[b].fresh <= refreshes' /\ w'[b].token <= writer'
  BY <1>1, <1>4 DEF Alike, ThreadOK
<1>7. Streaming(b)' <=> Streaming(b)
  BY DEF Streaming, Alike
<1>8. late'[b] = 0 \/ (late'[b] = 1 /\ Superseded(b)' /\ w'[b].pc # "deliver")
  BY <1>1, <1>5 DEF ThreadOK, Alike
<1> QED
  BY <1>1, <1>2, <1>3, <1>6, <1>7, <1>8 DEF ThreadOK, Alike

\* What is known of a stream with a client of its own, by whoever closes another.
LEMMA Apart ==
    ASSUME CallInv, NEW b \in Attempts, Streaming(b), ~w[b].lent
    PROVE  /\ w[b].client \in 1..Len(cl) /\ w[b].client \notin {client, main.old, None}
           /\ \A d \in Attempts : w[b].client # w[d].old /\ (d # b => w[b].client # w[d].client)
  BY ModelCallAssumption DEF CallInv, ThreadOK, Owns, Known

\* Who uses a client; and that a step keeps every open one in use.
Used(c) ==
  \/ c \in {client, main.old}
  \/ \E a \in Attempts : w[a].old = c \/ (w[a].client = c /\ Streaming(a))

LEMMA LostKept ==
    ASSUME CallInv, NEW S, Clients(S), wire' = wire,
           wire # "anthropic" =>
             /\ \A c \in 1..Len(cl) : Used(c) => c \in S \/ Used(c)'
             /\ \A c \in 1..Len(cl') : c > Len(cl) => Used(c)'
    PROVE  NoClientLost'
<1> SUFFICES ASSUME wire # "anthropic", NEW c \in 1..Len(cl'), cl'[c].st # "closed"
             PROVE  Used(c)'
  BY DEF NoClientLost, Used
<1>1. CASE c > Len(cl)
  BY <1>1
<1>2. CASE c \in 1..Len(cl)
  <2>1. c \notin S /\ cl[c].st # "closed"
    BY <1>2 DEF Clients
  <2>2. Used(c)
    BY <1>2, <2>1 DEF CallInv, NoClientLost, Used
  <2> QED
    BY <1>2, <2>1, <2>2
<1> QED
  BY <1>1, <1>2 DEF Clients

-------------------------------------------------------------------------------
\* A step of a stream that touches no client.
StreamMove(a) ==
  /\ UNCHANGED <<clients, main, refreshes>>
  /\ {w[a].pc, w'[a].pc} \subseteq InStream
  /\ w' \in [Attempts -> Thread] /\ \A b \in Attempts \ {a} : w'[b] = w[b]
  /\ w'[a].client = w[a].client /\ w'[a].old = w[a].old
  /\ w'[a].lent = w[a].lent /\ w'[a].fresh = w[a].fresh
  /\ writer' \in Nat /\ writer' >= writer /\ text' \in Seq(Attempts)
  /\ late' \in [Attempts -> Nat] /\ \A b \in Attempts \ {a} : late'[b] = late[b]
  /\ w'[a].token <= writer' /\ (w'[a].pc \in {"send", "claim"} => w'[a].token = 0)
  /\ \/ late'[a] = 0
     \/ late'[a] = 1 /\ w'[a].token # 0 /\ w'[a].token # writer' /\ w'[a].pc # "deliver"

LEMMA StreamStep == ASSUME CallInv, NEW a \in Attempts, StreamMove(a) PROVE CallInv'
<1>1. SharedOK /\ ThreadOK(a) /\ w \in [Attempts -> Thread]
  BY DEF CallInv
<1>2. SharedOK' /\ Known' = Known
  BY <1>1 DEF StreamMove, SharedOK, Known, clients
<1>3. \A b \in Attempts : w'[b].client = w[b].client /\ w'[b].old = w[b].old
                          /\ (Streaming(b)' <=> Streaming(b))
  BY DEF StreamMove, Streaming, InStream
<1>4. Clients({})
  BY <1>1 DEF StreamMove, Clients, SharedOK, clients
<1>5. ThreadOK(a)'
  <2>1. Owns(a) => Owns(a)'
    BY <1>3 DEF StreamMove, Owns, clients
  <2>2. a > main'.att <=> w'[a].pc = "none"
    BY <1>1 DEF StreamMove, ThreadOK, InStream
  <2>3. w'[a].pc \notin Preparing \cup {"none"} /\ Streaming(a) /\ w[a].old = None
    BY <1>1 DEF StreamMove, InStream, Preparing, Ensuring, Streaming, ThreadOK
  <2>4. UNCHANGED <<clients, main, refreshes>> /\ w'[a].client = w[a].client /\ w'[a].old = w[a].old
        /\ w'[a].lent = w[a].lent /\ w'[a].fresh = w[a].fresh
    BY DEF StreamMove
  <2>5. {w'[a].client, w'[a].old} \subseteq Known' /\ w'[a].fresh <= refreshes'
        /\ (Streaming(a)' => w'[a].client # None) /\ (Streaming(a)' /\ ~w'[a].lent => Owns(a)')
    BY <1>1, <1>2, <2>1, <2>3, <2>4 DEF ThreadOK
  <2>6. late'[a] = 0 \/ (late'[a] = 1 /\ Superseded(a)' /\ w'[a].pc # "deliver")
    BY DEF StreamMove, Superseded
  <2>7. w'[a].token <= writer' /\ (w'[a].pc \in {"send", "claim"} => w'[a].token = 0)
    BY DEF StreamMove
  <2> QED
    BY <2>2, <2>3, <2>4, <2>5, <2>6, <2>7 DEF ThreadOK, Preparing, Ensuring
<1>6. ASSUME NEW b \in Attempts \ {a} PROVE ThreadOK(b)'
  <2>1. Alike(b)
    BY DEF Alike, StreamMove
  <2>2. wire' = wire /\ main' = main /\ lock' = lock /\ client' = client /\ refreshes' = refreshes
        /\ refreshes \in Nat /\ writer' \in Nat /\ writer' >= writer
    BY <1>1 DEF StreamMove, clients, SharedOK
  <2> QED
    BY <1>3, <1>4, <2>1, <2>2, AlikeKept
<1>7. NoClientLost'
  <2>1. NoClientLost /\ wire' = wire /\ client' = client /\ cl' = cl /\ main' = main
    BY DEF StreamMove, CallInv, clients
  <2> QED
    BY <1>3, <2>1 DEF NoClientLost
<1>8. \A b \in Attempts : ThreadOK(b)'
  BY <1>5, <1>6
<1> QED
  BY <1>2, <1>7, <1>8 DEF StreamMove, CallInv

\* A new token supersedes whoever had the sink.
LEMMA ClaimKeeps == ASSUME CallInv, NEW a \in Attempts, Claim(a) PROVE CallInv'
<1>1. SharedOK /\ ThreadOK(a) /\ w[a] \in Thread /\ w \in [Attempts -> Thread]
  BY DEF CallInv, ThreadOK
<1>2. writer \in Nat /\ writer' = writer + 1 /\ late' = late /\ text' = text /\ w[a].token = 0
      /\ text \in Seq(Attempts) /\ late \in [Attempts -> Nat] /\ UNCHANGED <<clients, main, refreshes>>
  BY <1>1 DEF Claim, SharedOK, ThreadOK, Thread, bounds
<1>3. (\A b \in Attempts \ {a} : w'[b] = w[b])
      /\ w'[a] = [w[a] EXCEPT !.pc = "stream", !.token = writer']
  BY <1>1 DEF Claim
<1>4. w'[a] \in Thread /\ w'[a].client = w[a].client /\ w'[a].old = w[a].old
      /\ w'[a].lent = w[a].lent /\ w'[a].fresh = w[a].fresh
      /\ w'[a].pc = "stream" /\ w'[a].token = writer'
  <2>1. writer' \in Nat /\ "stream" \in Pcs
    BY <1>2 DEF Pcs, InStream
  <2> QED
    BY <1>1, <1>3, <2>1 DEF Thread
<1>5. late[a] = 0
  BY <1>1, <1>2 DEF ThreadOK, Superseded
<1>6. {w[a].pc, w'[a].pc} \subseteq InStream
  BY <1>4 DEF InStream, Claim
<1>7. w' \in [Attempts -> Thread]
  BY <1>1, <1>4 DEF Claim, Go
<1>8. StreamMove(a)
  BY <1>2, <1>3, <1>4, <1>5, <1>6, <1>7 DEF StreamMove
<1> QED
  BY <1>8, StreamStep

\* A chunk is taken for delivery only if the writer is not superseded.
LEMMA ChunkKeeps == ASSUME CallInv, NEW a \in Attempts, Chunk(a) PROVE CallInv'
<1> DEFINE p == IF Superseded(a) THEN "stream" ELSE "deliver"
<1>1. SharedOK /\ ThreadOK(a) /\ w[a] \in Thread /\ w \in [Attempts -> Thread]
  BY DEF CallInv, ThreadOK
<1>2. UNCHANGED <<clients, main, refreshes, writer, text, late>> /\ writer \in Nat /\ text \in Seq(Attempts)
      /\ late \in [Attempts -> Nat] /\ w[a].token <= writer /\ w[a].token \in Nat
  BY <1>1 DEF Chunk, SharedOK, ThreadOK, Thread, bounds, stream
<1>3. (\A b \in Attempts \ {a} : w'[b] = w[b])
      /\ w'[a] = [w[a] EXCEPT !.pc = p]
  BY <1>1 DEF Chunk
<1>4. p \in Pcs
  BY DEF Pcs, InStream
<1> HIDE DEF p
<1>5. w'[a] \in Thread /\ w'[a].client = w[a].client /\ w'[a].old = w[a].old
      /\ w'[a].lent = w[a].lent /\ w'[a].fresh = w[a].fresh
      /\ w'[a].pc = p /\ w'[a].token = w[a].token
  BY <1>1, <1>3, <1>4 DEF Thread
<1>6. late[a] = 0 \/ (late[a] = 1 /\ w'[a].token # 0 /\ w'[a].token # writer' /\ p # "deliver")
  BY <1>1, <1>2, <1>5 DEF ThreadOK, Superseded, p
<1>7. {w[a].pc, w'[a].pc} \subseteq InStream /\ p \notin {"send", "claim"}
  BY <1>5 DEF InStream, Chunk, p
<1>8. w' \in [Attempts -> Thread]
  BY <1>1, <1>5 DEF Chunk, Go
<1>9. StreamMove(a)
  BY <1>2, <1>3, <1>4, <1>5, <1>6, <1>7, <1>8 DEF StreamMove
<1> QED
  BY <1>9, StreamStep

\* A delivery after another thread claimed the sink is counted, and the last.
LEMMA DeliverKeeps == ASSUME CallInv, NEW a \in Attempts, Deliver(a) PROVE CallInv'
<1>1. SharedOK /\ ThreadOK(a) /\ w[a] \in Thread /\ w \in [Attempts -> Thread]
  BY DEF CallInv, ThreadOK
<1>2. UNCHANGED <<clients, main, refreshes, writer, text>> /\ writer \in Nat /\ text \in Seq(Attempts)
      /\ late \in [Attempts -> Nat] /\ w[a].token <= writer /\ w[a].token \in Nat
  BY <1>1 DEF Deliver, SharedOK, ThreadOK, Thread, bounds
<1>3. (\A b \in Attempts \ {a} : w'[b] = w[b]) /\ w'[a] = [w[a] EXCEPT !.pc = "note"]
  BY <1>1 DEF Deliver, Go
<1>4. w'[a] \in Thread /\ w'[a].client = w[a].client /\ w'[a].old = w[a].old
      /\ w'[a].lent = w[a].lent /\ w'[a].fresh = w[a].fresh
      /\ w'[a].pc = "note" /\ w'[a].token = w[a].token
  BY <1>1, <1>3 DEF Thread, Pcs, InStream
<1>5. late[a] = 0
  BY <1>1 DEF ThreadOK, Deliver
<1>6. late' \in [Attempts -> Nat] /\ (\A b \in Attempts \ {a} : late'[b] = late[b])
      /\ (late'[a] = 0 \/ (late'[a] = 1 /\ w'[a].token # 0 /\ w'[a].token # writer'))
  BY <1>2, <1>4, <1>5 DEF Deliver, Superseded
<1>7. {w[a].pc, w'[a].pc} \subseteq InStream
  BY <1>4 DEF InStream, Deliver
<1>8. w' \in [Attempts -> Thread]
  BY <1>1, <1>4 DEF Deliver, Go
<1>9. StreamMove(a)
  BY <1>2, <1>3, <1>4, <1>5, <1>6, <1>7, <1>8 DEF StreamMove
<1> QED
  BY <1>9, StreamStep

\* The recorded text changes nothing but the text.
LEMMA NoteKeeps == ASSUME CallInv, NEW a \in Attempts, Note(a) PROVE CallInv'
<1>1. SharedOK /\ ThreadOK(a) /\ w[a] \in Thread /\ w \in [Attempts -> Thread]
  BY DEF CallInv, ThreadOK
<1>2. UNCHANGED <<clients, main, refreshes, writer, text, late>> /\ writer \in Nat /\ text \in Seq(Attempts)
      /\ late \in [Attempts -> Nat] /\ w[a].token <= writer /\ w[a].token \in Nat
  BY <1>1 DEF Note, SharedOK, ThreadOK, Thread, bounds, stream
<1>3. (\A b \in Attempts \ {a} : w'[b] = w[b])
      /\ \/ w'[a] = [w[a] EXCEPT !.pc = "stream"]
         \/ w'[a] = [w[a] EXCEPT !.pc = "append", !.seen = text]
  BY <1>1 DEF Note
<1>4. w'[a] \in Thread /\ w'[a].client = w[a].client /\ w'[a].old = w[a].old
      /\ w'[a].lent = w[a].lent /\ w'[a].fresh = w[a].fresh
      /\ w'[a].pc \in {"stream", "append"} /\ w'[a].token = w[a].token
  <2>1. CASE w'[a] = [w[a] EXCEPT !.pc = "stream"]
    BY <1>1, <2>1 DEF Thread, Pcs, InStream
  <2>2. CASE w'[a] = [w[a] EXCEPT !.pc = "append", !.seen = text]
    BY <1>1, <1>2, <2>2 DEF Thread, Pcs, InStream
  <2> QED
    BY <1>3, <2>1, <2>2
<1>5. late[a] = 0 \/ (late[a] = 1 /\ w'[a].token # 0 /\ w'[a].token # writer')
  BY <1>1, <1>2, <1>4 DEF ThreadOK, Superseded
<1>6. {w[a].pc, w'[a].pc} \subseteq InStream
  BY <1>4 DEF InStream, Note
<1>7. w' \in [Attempts -> Thread]
  BY <1>1, <1>4 DEF Note, Go
<1>8. StreamMove(a)
  BY <1>2, <1>3, <1>4, <1>5, <1>6, <1>7 DEF StreamMove
<1> QED
  BY <1>8, StreamStep

LEMMA AppendTextKeeps == ASSUME CallInv, NEW a \in Attempts, AppendText(a) PROVE CallInv'
<1>1. SharedOK /\ ThreadOK(a) /\ w[a] \in Thread /\ w \in [Attempts -> Thread]
  BY DEF CallInv, ThreadOK
<1>2. UNCHANGED <<clients, main, refreshes, writer, late>> /\ writer \in Nat
      /\ late \in [Attempts -> Nat] /\ w[a].token <= writer /\ w[a].token \in Nat
  BY <1>1 DEF AppendText, SharedOK, ThreadOK, Thread, bounds
<1>3. w[a].seen \in Seq(Attempts)
  BY <1>1 DEF Thread
<1>4. text' \in Seq(Attempts)
  BY <1>3, AppendProperties DEF AppendText
<1>5. (\A b \in Attempts \ {a} : w'[b] = w[b]) /\ w'[a] = [w[a] EXCEPT !.pc = "stream", !.seen = <<>>]
  BY <1>1 DEF AppendText
<1>6. w'[a] \in Thread /\ w'[a].client = w[a].client /\ w'[a].old = w[a].old
      /\ w'[a].lent = w[a].lent /\ w'[a].fresh = w[a].fresh
      /\ w'[a].pc = "stream" /\ w'[a].token = w[a].token
  <2>1. <<>> \in Seq(Attempts) /\ "stream" \in Pcs
    BY DEF Pcs, InStream
  <2> QED
    BY <1>1, <1>5, <2>1 DEF Thread
<1>7. late[a] = 0 \/ (late[a] = 1 /\ w'[a].token # 0 /\ w'[a].token # writer')
  BY <1>1, <1>2, <1>6 DEF ThreadOK, Superseded
<1>8. {w[a].pc, w'[a].pc} \subseteq InStream
  BY <1>6 DEF InStream, AppendText
<1>9. w' \in [Attempts -> Thread]
  BY <1>1, <1>6 DEF AppendText, Go
<1>10. StreamMove(a)
  BY <1>2, <1>3, <1>4, <1>5, <1>6, <1>7, <1>8, <1>9 DEF StreamMove
<1> QED
  BY <1>10, StreamStep

\* The stream ends.
LEMMA StreamEndsKeeps == ASSUME CallInv, NEW a \in Attempts, StreamEnds(a) PROVE CallInv'
<1>1. SharedOK /\ ThreadOK(a) /\ w[a] \in Thread /\ w \in [Attempts -> Thread]
  BY DEF CallInv, ThreadOK
<1>2. UNCHANGED <<clients, main, refreshes, writer, text, late>> /\ writer \in Nat /\ text \in Seq(Attempts)
      /\ late \in [Attempts -> Nat] /\ w[a].token <= writer /\ w[a].token \in Nat
  BY <1>1 DEF StreamEnds, SharedOK, ThreadOK, Thread, bounds, stream
<1>3. (\A b \in Attempts \ {a} : w'[b] = w[b]) /\ w'[a] = [w[a] EXCEPT !.pc = "closing"]
  BY <1>1 DEF StreamEnds, Go
<1>4. w'[a] \in Thread /\ w'[a].client = w[a].client /\ w'[a].old = w[a].old
      /\ w'[a].lent = w[a].lent /\ w'[a].fresh = w[a].fresh
      /\ w'[a].pc = "closing" /\ w'[a].token = w[a].token
  BY <1>1, <1>3 DEF Thread, Pcs, InStream
<1>5. late[a] = 0 \/ (late[a] = 1 /\ w'[a].token # 0 /\ w'[a].token # writer')
  BY <1>1, <1>2, <1>4 DEF ThreadOK, Superseded
<1>6. {w[a].pc, w'[a].pc} \subseteq InStream
  BY <1>4 DEF InStream, StreamEnds
<1>7. w' \in [Attempts -> Thread]
  BY <1>1, <1>4 DEF StreamEnds, Go
<1>8. StreamMove(a)
  BY <1>2, <1>3, <1>4, <1>5, <1>6, <1>7 DEF StreamMove
<1> QED
  BY <1>8, StreamStep

\* The request goes out; or, the connection being shut, goes out again.
LEMMA ConnectKeeps == ASSUME CallInv, NEW a \in Attempts, Connect(a) \/ Reconnect(a) PROVE CallInv'
<1>1. SharedOK /\ ThreadOK(a) /\ w[a] \in Thread /\ w \in [Attempts -> Thread]
  BY DEF CallInv, ThreadOK
<1>2. UNCHANGED <<clients, main, refreshes, writer, text, late>> /\ writer \in Nat
      /\ text \in Seq(Attempts) /\ late \in [Attempts -> Nat] /\ w[a].token = 0 /\ late[a] = 0
  BY <1>1 DEF Connect, Reconnect, SharedOK, ThreadOK, Superseded, stream, bounds
<1>3. (\A b \in Attempts \ {a} : w'[b] = w[b])
      /\ \/ w'[a] = [w[a] EXCEPT !.pc = "claim", !.conn = "open"]
         \/ w'[a] = [w[a] EXCEPT !.conn = "open", !.hit = FALSE]
  BY <1>1 DEF Connect, Reconnect
<1>4. w'[a] \in Thread /\ w'[a].client = w[a].client /\ w'[a].old = w[a].old
      /\ w'[a].lent = w[a].lent /\ w'[a].fresh = w[a].fresh
      /\ w'[a].pc \in {w[a].pc, "claim"} /\ w'[a].token = w[a].token
  <2>1. CASE w'[a] = [w[a] EXCEPT !.pc = "claim", !.conn = "open"]
    BY <1>1, <2>1 DEF Thread, Pcs, InStream
  <2>2. CASE w'[a] = [w[a] EXCEPT !.conn = "open", !.hit = FALSE]
    BY <1>1, <2>2 DEF Thread
  <2> QED
    BY <1>3, <2>1, <2>2
<1>5. {w[a].pc, w'[a].pc} \subseteq InStream
  BY <1>4 DEF InStream, Connect, Reconnect
<1>6. w' \in [Attempts -> Thread]
  BY <1>1, <1>4 DEF Connect, Reconnect
<1>7. StreamMove(a)
  BY <1>2, <1>3, <1>4, <1>5, <1>6 DEF StreamMove
<1> QED
  BY <1>7, StreamStep

-------------------------------------------------------------------------------
\* A step of an attempt's thread that builds, takes or closes a client: it closes
\* none but those it holds and the shared one.
ClientMove(a, S) ==
  /\ UNCHANGED <<wire, main, writer, text, late>>
  /\ w' \in [Attempts -> Thread] /\ \A b \in Attempts \ {a} : Alike(b)
  /\ refreshes' \in Nat /\ refreshes' >= refreshes
  /\ Clients(S) /\ S \subseteq {client, w[a].old, w[a].client}
  /\ w'[a].old \in {w[a].old, client, None}
  /\ w'[a].client \in {w[a].client, client, client', None} \/ w'[a].client > Len(cl)
  /\ \A b \in Attempts \ {a} : w[b].pc = "recreate" => lock' = lock /\ client' = client

LEMMA ClientStep ==
    ASSUME CallInv, NEW S, NEW a \in Attempts, ClientMove(a, S), SharedOK', ThreadOK(a)', NoClientLost'
    PROVE  CallInv'
<1>1. ASSUME NEW b \in Attempts \ {a} PROVE ThreadOK(b)'
  <2>1. Alike(b) /\ Clients(S) /\ wire' = wire /\ main' = main /\ writer' = writer /\ writer \in Nat
        /\ refreshes' \in Nat /\ refreshes' >= refreshes
        /\ (w[b].pc = "recreate" => lock' = lock /\ client' = client)
    BY DEF ClientMove, CallInv, SharedOK
  <2>2. ~w[b].lent => w[b].client \notin S \/ ~Streaming(b)
    BY Apart DEF ClientMove
  <2>3. \A d \in Attempts : /\ w'[d].old \in {w[d].old, client, None}
                            /\ \/ w'[d].client \in {w[d].client, client, client', None}
                               \/ w'[d].client > Len(cl)
    BY DEF ClientMove, Alike
  <2> QED
    BY <2>1, <2>2, <2>3, AlikeKept
<1> QED
  BY <1>1 DEF ClientMove, CallInv

\* _ensure_primary_openai_client takes the lock, which nobody has.
LEMMA EnsureKeeps == ASSUME CallInv, NEW a \in Attempts, Ensure(a) PROVE CallInv'
<1>1. SharedOK /\ ThreadOK(a) /\ w[a] \in Thread /\ w \in [Attempts -> Thread]
  BY DEF CallInv
<1>2. \A b \in Attempts : w[b].pc # "recreate"
  BY ModelCallAssumption DEF Ensure, CallInv, ThreadOK, Attempts
<1>3. w[a].pc = "ensure" /\ w[a].old = None /\ w[a].token = 0 /\ late[a] = 0 /\ wire # "anthropic"
      /\ client \in Nat /\ client # None
  BY <1>1, ModelCallAssumption DEF Ensure, ThreadOK, SharedOK, Preparing, Ensuring, Superseded
<1>4. UNCHANGED <<wire, kwargs, client, cl, main, writer, text, late, refreshes>>
  BY DEF Ensure, stream, bounds
<1>5. \A b \in Attempts \ {a} : w'[b] = w[b]
  BY <1>1 DEF Ensure
<1>6. w'[a] \in Thread /\ w'[a].fresh = w[a].fresh /\ w'[a].token = w[a].token
      /\ w'[a].lent = w[a].lent
      /\ \/ /\ w'[a].pc = "build" /\ w'[a].old = None
            /\ w'[a].client = IF w[a].lent THEN client ELSE None
         \/ /\ w'[a].pc = "recreate" /\ w'[a].old = client /\ w'[a].client = w[a].client
            /\ lock' = a
  <2>1. CASE w' = [w EXCEPT ![a].pc = "build", ![a].client = IF w[a].lent THEN client ELSE None]
    BY <1>1, <1>3, <2>1 DEF Thread, Pcs, Preparing, Ensuring
  <2>2. CASE lock' = a /\ w' = [w EXCEPT ![a].pc = "recreate", ![a].old = client]
    BY <1>1, <1>3, <2>2 DEF Thread, Pcs, Preparing, Ensuring
  <2> QED
    BY <2>1, <2>2 DEF Ensure
<1>7. lock' \in {lock, a} /\ lock = None
  BY DEF Ensure
<1>8. w' \in [Attempts -> Thread]
  BY <1>1, <1>6 DEF Ensure
<1>9. SharedOK'
  <2>1. main.pc # "make"
    BY <1>1, <1>7, ModelCallAssumption DEF SharedOK, Main
  <2> QED
    BY <1>1, <1>4, <1>7, <2>1 DEF SharedOK, Known
<1>10. ClientMove(a, {})
  <2>1. Clients({})
    BY <1>1, <1>4 DEF Clients, SharedOK
  <2>2. \A b \in Attempts \ {a} : Alike(b)
    BY <1>4, <1>5 DEF Alike
  <2> QED
    BY <1>1, <1>2, <1>3, <1>4, <1>6, <1>8, <2>1, <2>2 DEF ClientMove, SharedOK
<1>11. ThreadOK(a)'
  <2>1. {w'[a].client, w'[a].old} \subseteq Known'
    BY <1>1, <1>3, <1>4, <1>6 DEF ThreadOK, Known, SharedOK
  <2>2. a <= main.att /\ a \in Nat /\ main.att \in Nat
    BY <1>1, <1>3, ModelCallAssumption DEF ThreadOK, Attempts, SharedOK, MainThread
  <2>3. ~(a > main'.att) /\ w'[a].fresh <= refreshes' /\ writer' \in Nat
    BY <1>1, <1>4, <1>6, <2>2 DEF ThreadOK, SharedOK
  <2>4. ~Streaming(a)'
    BY <1>6 DEF Streaming
  <2> QED
    BY <1>3, <1>4, <1>6, <2>1, <2>3, <2>4 DEF ThreadOK, Preparing, Ensuring
<1>12. NoClientLost'
  <2>1. \A c \in 1..Len(cl) : Used(c) => Used(c)'
    <3>1. SUFFICES ASSUME NEW c \in 1..Len(cl), NEW b \in Attempts,
                          w[b].old = c \/ (w[b].client = c /\ Streaming(b))
                   PROVE  w'[b].old = c \/ (w'[b].client = c /\ Streaming(b)')
      BY <1>4 DEF Used
    <3>2. b # a
      BY <1>3, <3>1, ModelCallAssumption DEF Streaming
    <3> QED
      BY <1>5, <3>1, <3>2 DEF Streaming
  <2>2. \A c \in 1..Len(cl') : ~(c > Len(cl))
    BY <1>1, <1>4 DEF SharedOK
  <2> QED
    BY <1>4, <1>10, <2>1, <2>2, LostKept DEF ClientMove
<1> QED
  BY <1>9, <1>10, <1>11, <1>12, ClientStep

\* It puts a new client in the place of the closed one, or gives up.
LEMMA RecreateKeeps == ASSUME CallInv, NEW a \in Attempts, Recreate(a) PROVE CallInv'
<1>1. SharedOK /\ ThreadOK(a) /\ w[a] \in Thread /\ w \in [Attempts -> Thread]
  BY DEF CallInv
<1>2. w[a].pc = "recreate" /\ lock = a /\ w[a].old = client /\ w[a].token = 0 /\ late[a] = 0
      /\ wire # "anthropic" /\ client \in Nat /\ client # None /\ a # None
  BY <1>1, ModelCallAssumption
  DEF Recreate, ThreadOK, SharedOK, Preparing, Ensuring, Superseded, Attempts
<1>3. \A b \in Attempts \ {a} : w[b].pc # "recreate"
  BY <1>2 DEF CallInv, ThreadOK
<1>4. UNCHANGED <<wire, kwargs, main, writer, text, late, refreshes>> /\ lock' = None
  BY DEF Recreate, stream
<1>5. \A b \in Attempts \ {a} : w'[b] = w[b]
  BY <1>1 DEF Recreate
<1>6. /\ cl' \in Seq(Client) /\ Len(cl) \in Nat
      /\ \A i \in 1..Len(cl) : cl'[i] = cl[i]
      /\ \/ /\ Len(cl') = Len(cl) + 1 /\ client' = Len(cl') /\ w'[a].pc = "closeOld"
            /\ w'[a].old = w[a].old /\ w'[a].client = IF w[a].lent THEN client' ELSE None
            /\ cl'[Len(cl')].key = kwargs.key /\ cl'[Len(cl')].base = kwargs.base
         \/ /\ Len(cl') = Len(cl) /\ client' = client /\ w'[a].pc = "over"
            /\ w'[a].old = None /\ w'[a].client = w[a].client
      /\ w'[a] \in Thread /\ w'[a].fresh = w[a].fresh /\ w'[a].token = w[a].token
      /\ w'[a].lent = w[a].lent
  <2>1. CASE /\ cl' = Built /\ client' = Len(cl')
             /\ w' = [w EXCEPT ![a].pc = "closeOld", ![a].client = IF w[a].lent THEN client' ELSE None]
    <3>1. /\ cl' \in Seq(Client) /\ Len(cl') = Len(cl) + 1 /\ Len(cl) \in Nat
          /\ \A i \in 1..Len(cl) : cl'[i] = cl[i]
          /\ cl'[Len(cl')].key = kwargs.key /\ cl'[Len(cl')].base = kwargs.base
      BY <1>1, <2>1, BuiltGrows DEF Grown
    <3>2. client' \in Nat
      BY <2>1, <3>1
    <3>3. w'[a] \in Thread /\ w'[a].fresh = w[a].fresh /\ w'[a].token = w[a].token
          /\ w'[a].lent = w[a].lent /\ w'[a].pc = "closeOld"
          /\ w'[a].old = w[a].old /\ w'[a].client = IF w[a].lent THEN client' ELSE None
      BY <1>1, <2>1, <3>2 DEF Thread, Pcs, Preparing, Ensuring
    <3> QED
      BY <2>1, <3>1, <3>3
  <2>2. CASE UNCHANGED <<client, cl>> /\ w' = [w EXCEPT ![a].pc = "over", ![a].old = None]
    <3>1. cl' \in Seq(Client) /\ Len(cl) \in Nat /\ cl' = cl
      BY <1>1, <2>2 DEF SharedOK
    <3>2. w'[a] \in Thread /\ w'[a].fresh = w[a].fresh /\ w'[a].token = w[a].token
          /\ w'[a].lent = w[a].lent /\ w'[a].pc = "over" /\ w'[a].old = None
          /\ w'[a].client = w[a].client
      BY <1>1, <2>2 DEF Thread, Pcs
    <3> QED
      BY <2>2, <3>1, <3>2
  <2> QED
    BY <2>1, <2>2 DEF Recreate
<1>7. w' \in [Attempts -> Thread]
  BY <1>1, <1>6 DEF Recreate
<1>8. SharedOK'
  <2>1. main.pc # "make"
    BY <1>1, <1>2, ModelCallAssumption DEF SharedOK, Main, Attempts
  <2>2. Known \subseteq Known' /\ client' \in 1..Len(cl')
    BY <1>1, <1>6 DEF Known, SharedOK
  <2>3. \A c \in 1..Len(cl') : cl'[c].key <= refreshes' /\ cl'[c].base <= refreshes'
    BY <1>1, <1>4, <1>6 DEF SharedOK
  <2> QED
    BY <1>1, <1>4, <1>6, <2>1, <2>2, <2>3 DEF SharedOK
<1>9. ClientMove(a, {})
  <2>1. Clients({})
    BY <1>6 DEF Clients
  <2>2. \A b \in Attempts \ {a} : Alike(b)
    BY <1>4, <1>5 DEF Alike
  <2> QED
    BY <1>1, <1>3, <1>4, <1>6, <1>7, <2>1, <2>2 DEF ClientMove, SharedOK
<1>10. ThreadOK(a)'
  <2>1. {w'[a].client, w'[a].old} \subseteq Known'
    BY <1>1, <1>6 DEF ThreadOK, Known, SharedOK
  <2>2. a <= main.att /\ a \in Nat /\ main.att \in Nat
    BY <1>1, <1>2, ModelCallAssumption DEF ThreadOK, Attempts, SharedOK, MainThread
  <2>3. ~(a > main'.att) /\ w'[a].fresh <= refreshes' /\ writer' \in Nat
    BY <1>1, <1>4, <1>6, <2>2 DEF ThreadOK, SharedOK
  <2>4. ~Streaming(a)' /\ (w'[a].pc = "closeOld" /\ w'[a].lent => w'[a].client # None)
    BY <1>6, ModelCallAssumption DEF Streaming
  <2> QED
    BY <1>2, <1>4, <1>6, <2>1, <2>3, <2>4 DEF ThreadOK, Preparing, Ensuring
<1>11. NoClientLost'
  <2>1. \A c \in 1..Len(cl) : Used(c) => Used(c)'
    <3>1. SUFFICES ASSUME NEW c \in 1..Len(cl), Used(c), c \notin {client', main'.old}
                   PROVE  \E b \in Attempts : w'[b].old = c \/ (w'[b].client = c /\ Streaming(b)')
      BY DEF Used
    <3>2. CASE c = client
      BY <1>2, <1>6, <3>1, <3>2
    <3>3. CASE c # client
      <4>1. PICK b \in Attempts : w[b].old = c \/ (w[b].client = c /\ Streaming(b))
        BY <1>4, <3>1, <3>3 DEF Used
      <4>2. b # a
        BY <1>2, <3>3, <4>1 DEF Streaming
      <4> QED
        BY <1>5, <4>1, <4>2 DEF Streaming
    <3> QED
      BY <3>2, <3>3
  <2>2. \A c \in 1..Len(cl') : c > Len(cl) => Used(c)'
    BY <1>6 DEF Used
  <2> QED
    BY <1>4, <1>9, <2>1, <2>2, LostKept DEF ClientMove
<1> QED
  BY <1>8, <1>9, <1>10, <1>11, ClientStep

\* The shared client is left as it is, and the attempt gives up or goes on.
LEMMA PlainKeeps ==
    ASSUME CallInv, NEW a \in Attempts, w[a].pc \in {"refresh", "rebuild", "rekey", "build"},
           NEW p \in {"build", "over"}, p = "build" => wire = "anthropic", Go(a, p),
           UNCHANGED <<wire, client, cl, lock, main, stream, refreshes>>,
           kwargs' \in [key : Nat, base : Nat], kwargs'.key <= refreshes, kwargs'.base <= refreshes
    PROVE  CallInv'
<1>1. SharedOK /\ ThreadOK(a) /\ w[a] \in Thread /\ w \in [Attempts -> Thread]
  BY DEF CallInv
<1>2. UNCHANGED <<wire, client, cl, lock, main, writer, text, late, refreshes>>
  BY DEF stream
<1>3. SharedOK' /\ Known' = Known
  BY <1>1, <1>2 DEF SharedOK, Known
<1>4. (\A b \in Attempts \ {a} : w'[b] = w[b]) /\ w'[a] = [w[a] EXCEPT !.pc = p]
  BY <1>1 DEF Go
<1>5. w'[a] \in Thread /\ w'[a].pc = p /\ w'[a].client = w[a].client /\ w'[a].lent = w[a].lent
      /\ w'[a].old = w[a].old /\ w'[a].fresh = w[a].fresh /\ w'[a].token = w[a].token
  BY <1>1, <1>4 DEF Thread, Pcs, Preparing
<1>6. w[a].old = None /\ w[a].token = 0 /\ late[a] = 0
  BY <1>1 DEF ThreadOK, Preparing, Superseded
<1>7. ThreadOK(a)'
  <2>1. ~(a > main'.att)
    BY <1>1, <1>2 DEF ThreadOK
  <2>2. ~Streaming(a)'
    BY <1>5 DEF Streaming
  <2> QED
    BY <1>1, <1>2, <1>3, <1>5, <1>6, <2>1, <2>2 DEF ThreadOK, SharedOK, Preparing, Ensuring
<1>8. ClientMove(a, {})
  <2>1. Clients({})
    BY <1>1, <1>2 DEF Clients, SharedOK
  <2>2. \A b \in Attempts \ {a} : Alike(b)
    BY <1>2, <1>4 DEF Alike
  <2>3. w' \in [Attempts -> Thread]
    BY <1>1, <1>5 DEF Go
  <2> QED
    BY <1>1, <1>2, <1>5, <2>1, <2>2, <2>3 DEF ClientMove, SharedOK
<1>9. NoClientLost'
  <2>1. ASSUME NEW c \in 1..Len(cl), Used(c) PROVE Used(c)'
    <3>1. \A b \in Attempts : w'[b].old = w[b].old /\ w'[b].client = w[b].client
                              /\ (Streaming(b) => Streaming(b)')
      <4>1. ~Streaming(a)
        BY DEF Streaming
      <4> QED
        BY <1>4, <1>5, <4>1 DEF Streaming
    <3> QED
      BY <1>2, <2>1, <3>1 DEF Used
  <2>2. \A c \in 1..Len(cl') : ~(c > Len(cl))
    BY <1>1, <1>2 DEF SharedOK
  <2> QED
    BY <1>2, <1>8, <2>1, <2>2, LostKept DEF ClientMove
<1> QED
  BY <1>3, <1>7, <1>8, <1>9, ClientStep

\* A client is closed: the connections it had are shut, and the thread that closed
\* it moves on.
LEMMA ClosingMove ==
    ASSUME SharedOK, w \in [Attempts -> Thread], NEW a \in Attempts, NEW c \in Known,
           NEW p \in Pcs, NEW f \in Nat,
           cl' = Closed(c), late' = late, client' = client,
           w' = [Cut(c) EXCEPT ![a] = [Cut(c)[a] EXCEPT !.pc = p, !.old = None, !.fresh = f]]
    PROVE  /\ w' \in [Attempts -> Thread] /\ (\A b \in Attempts \ {a} : Alike(b))
           /\ w'[a].pc = p /\ w'[a].old = None /\ w'[a].client = w[a].client
           /\ w'[a].lent = w[a].lent /\ w'[a].fresh = f /\ w'[a].token = w[a].token
           /\ Clients({c} \ {None}) /\ Known' = Known /\ cl' \in Seq(Client) /\ Len(cl') = Len(cl)
           /\ \A i \in 1..Len(cl) : cl'[i].key = cl[i].key /\ cl'[i].base = cl[i].base
<1>1. Cut(c) \in [Attempts -> Thread]
      /\ \A b \in Attempts :
           /\ Cut(c)[b].pc = w[b].pc /\ Cut(c)[b].client = w[b].client
           /\ Cut(c)[b].lent = w[b].lent /\ Cut(c)[b].old = w[b].old
           /\ Cut(c)[b].fresh = w[b].fresh /\ Cut(c)[b].token = w[b].token
  BY CutKeeps
<1>2. Cut(c)[a] \in Thread /\ w[a] \in Thread
  BY <1>1 DEF Thread
<1>3. w'[a] = [Cut(c)[a] EXCEPT !.pc = p, !.old = None, !.fresh = f]
      /\ \A b \in Attempts \ {a} : w'[b] = Cut(c)[b]
  BY <1>1
<1>4. w'[a] \in Thread /\ w'[a].pc = p /\ w'[a].old = None /\ w'[a].fresh = f
      /\ w'[a].client = w[a].client /\ w'[a].lent = w[a].lent /\ w'[a].token = w[a].token
  BY <1>1, <1>2, <1>3 DEF Thread
<1>5. w' \in [Attempts -> Thread]
  BY <1>1, <1>4
<1>6. \A b \in Attempts \ {a} : Alike(b)
  BY <1>1, <1>3 DEF Alike
<1>7. /\ cl' \in Seq(Client) /\ Len(cl') = Len(cl) /\ Len(cl) \in Nat
      /\ \A i \in 1..Len(cl) :
           /\ cl'[i].key = cl[i].key /\ cl'[i].base = cl[i].base
           /\ cl'[i].st = IF i = c THEN "closed" ELSE cl[i].st
  BY ClosedKeeps DEF SharedOK
<1>8. Clients({c} \ {None}) /\ Known' = Known
  BY <1>7, ModelCallAssumption DEF Clients, Known
<1> QED
  BY <1>4, <1>5, <1>6, <1>7, <1>8

\* A closed client leaves what the threads share as it was.
LEMMA ClosedShared ==
    ASSUME SharedOK, cl' \in Seq(Client), Len(cl') = Len(cl), Known' = Known,
           \A i \in 1..Len(cl) : cl'[i].key = cl[i].key /\ cl'[i].base = cl[i].base,
           UNCHANGED <<wire, kwargs, client, lock, main, writer, text, late>>,
           refreshes' \in {refreshes, refreshes + 1}
    PROVE  SharedOK'
<1>1. refreshes \in Nat /\ kwargs.key \in Nat /\ kwargs.base \in Nat
  BY DEF SharedOK
<1>2. \A i \in 1..Len(cl) : cl[i].key \in Nat /\ cl[i].base \in Nat
  <2>1. \A i \in 1..Len(cl) : cl[i] \in Client
    BY DEF SharedOK
  <2> QED
    BY <2>1 DEF Client
<1>3. \A i \in 1..Len(cl') : cl'[i].key <= refreshes' /\ cl'[i].base <= refreshes'
  BY <1>1, <1>2 DEF SharedOK
<1>4. refreshes' \in Nat /\ kwargs.key <= refreshes' /\ kwargs.base <= refreshes'
  BY <1>1 DEF SharedOK
<1> QED
  BY <1>3, <1>4 DEF SharedOK

\* The client that was replaced is closed outside the lock: it is nobody's.
LEMMA CloseOldKeeps == ASSUME CallInv, NEW a \in Attempts, CloseOld(a) PROVE CallInv'
<1>1. SharedOK /\ ThreadOK(a) /\ w[a] \in Thread /\ w \in [Attempts -> Thread]
  BY DEF CallInv
<1> DEFINE c == w[a].old
<1>2. w[a].pc = "closeOld" /\ c \in Known /\ w[a].token = 0 /\ late[a] = 0 /\ wire # "anthropic"
      /\ w[a].fresh \in Nat
  BY <1>1 DEF CloseOld, ThreadOK, Preparing, Ensuring, Superseded, Thread
<1>3. UNCHANGED <<wire, kwargs, client, lock, main, writer, text, late, refreshes>>
      /\ cl' = Closed(c) /\ w' = [Cut(c) EXCEPT ![a].pc = "build", ![a].old = None]
  BY DEF CloseOld, stream, bounds
<1> HIDE DEF c
<1>4. w' = [Cut(c) EXCEPT ![a] = [Cut(c)[a] EXCEPT !.pc = "build", !.old = None, !.fresh = w[a].fresh]]
  <2>1. Cut(c)[a] \in Thread /\ Cut(c)[a].fresh = w[a].fresh
    BY <1>1, CutKeeps
  <2>2. [Cut(c)[a] EXCEPT !.pc = "build", !.old = None]
          = [Cut(c)[a] EXCEPT !.pc = "build", !.old = None, !.fresh = w[a].fresh]
    BY <2>1 DEF Thread
  <2> QED
    BY <1>3, <2>2
<1>5. /\ w' \in [Attempts -> Thread] /\ (\A b \in Attempts \ {a} : Alike(b))
      /\ w'[a].pc = "build" /\ w'[a].old = None /\ w'[a].client = w[a].client
      /\ w'[a].lent = w[a].lent /\ w'[a].fresh = w[a].fresh /\ w'[a].token = w[a].token
      /\ Clients({c} \ {None}) /\ Known' = Known /\ cl' \in Seq(Client) /\ Len(cl') = Len(cl)
      /\ \A i \in 1..Len(cl) : cl'[i].key = cl[i].key /\ cl'[i].base = cl[i].base
  <2>1. "build" \in Pcs
    BY DEF Pcs, Preparing
  <2>2. late' = late /\ client' = client /\ cl' = Closed(c) /\ c \in Known /\ w[a].fresh \in Nat
    BY <1>2, <1>3
  <2> QED
    BY <1>1, <1>4, <2>1, <2>2, ClosingMove
<1>6. SharedOK'
  BY <1>1, <1>3, <1>5, ClosedShared
<1>7. ThreadOK(a)'
  <2>1. ~(a > main'.att) /\ writer \in Nat
    BY <1>1, <1>2, <1>3 DEF ThreadOK, SharedOK
  <2>2. ~Streaming(a)'
    BY <1>5 DEF Streaming
  <2>3. {w'[a].client, w'[a].old} \subseteq Known'
    BY <1>1, <1>5 DEF ThreadOK, Known
  <2>4. w'[a].lent => w'[a].client # None
    BY <1>1, <1>2, <1>5 DEF ThreadOK
  <2> QED
    BY <1>1, <1>2, <1>3, <1>5, <2>1, <2>2, <2>3, <2>4 DEF ThreadOK, Preparing, Ensuring
<1>8. ClientMove(a, {c} \ {None})
  <2>1. {c} \ {None} \subseteq {client, w[a].old, w[a].client} /\ refreshes \in Nat
    BY <1>1 DEF c, SharedOK
  <2> QED
    BY <1>3, <1>5, <2>1 DEF ClientMove
<1>9. NoClientLost'
  <2>1. ASSUME NEW d \in 1..Len(cl), Used(d), d # c PROVE Used(d)'
    <3>1. CASE d \in {client, main.old}
      BY <1>3, <3>1 DEF Used
    <3>2. CASE \E b \in Attempts : w[b].old = d \/ (w[b].client = d /\ Streaming(b))
      <4>1. PICK b \in Attempts : w[b].old = d \/ (w[b].client = d /\ Streaming(b))
        BY <3>2
      <4>2. b # a
        BY <1>2, <2>1, <4>1 DEF Streaming, c
      <4> QED
        BY <1>5, <4>1, <4>2 DEF Used, Alike, Streaming
    <3> QED
      BY <2>1, <3>1, <3>2 DEF Used
  <2> DEFINE S == {c} \ {None}
  <2>2. \A d \in 1..Len(cl) : Used(d) => d \in S \/ Used(d)'
    BY <2>1, ModelCallAssumption
  <2>3. \A d \in 1..Len(cl') : ~(d > Len(cl))
    BY <1>1, <1>5 DEF SharedOK
  <2>4. Clients(S)
    BY <1>5
  <2> HIDE DEF S
  <2> QED
    <3>1. wire' = wire
      BY <1>3
    <3> QED
      BY <2>2, <2>3, <2>4, <3>1, LostKept
<1> QED
  BY <1>6, <1>7, <1>8, <1>9, ClientStep

\* The owner of a request client closes it: nobody else streams from it.
LEMMA CloseRequestKeeps == ASSUME CallInv, NEW a \in Attempts, CloseRequest(a) PROVE CallInv'
<1> DEFINE c == IF wire = "anthropic" /\ w[a].lent THEN None ELSE w[a].client
<1>1. SharedOK /\ ThreadOK(a) /\ w[a] \in Thread /\ w \in [Attempts -> Thread]
  BY DEF CallInv
<1>2. w[a].pc = "closing" /\ c \in Known /\ w[a].old = None /\ w[a].fresh \in Nat
  BY <1>1 DEF CloseRequest, ThreadOK, Thread, Known
<1>3. UNCHANGED <<wire, kwargs, client, lock, main, writer, text, late, refreshes>>
      /\ cl' = Closed(c) /\ w' = [Cut(c) EXCEPT ![a].pc = "over"]
  BY DEF CloseRequest, stream, bounds
<1>c. c = w[a].client \/ wire = "anthropic"
  OBVIOUS
<1>d. c \in {None, w[a].client}
  OBVIOUS
<1> HIDE DEF c
<1>4. w' = [Cut(c) EXCEPT ![a] = [Cut(c)[a] EXCEPT !.pc = "over", !.old = None, !.fresh = w[a].fresh]]
  <2>1. Cut(c)[a] \in Thread /\ Cut(c)[a].fresh = w[a].fresh /\ Cut(c)[a].old = None
    BY <1>1, <1>2, CutKeeps
  <2>2. [Cut(c)[a] EXCEPT !.pc = "over"]
          = [Cut(c)[a] EXCEPT !.pc = "over", !.old = None, !.fresh = w[a].fresh]
    BY <2>1 DEF Thread
  <2> QED
    BY <1>3, <2>2
<1>5. /\ w' \in [Attempts -> Thread] /\ (\A b \in Attempts \ {a} : Alike(b))
      /\ w'[a].pc = "over" /\ w'[a].old = None /\ w'[a].client = w[a].client
      /\ w'[a].lent = w[a].lent /\ w'[a].fresh = w[a].fresh /\ w'[a].token = w[a].token
      /\ Clients({c} \ {None}) /\ Known' = Known /\ cl' \in Seq(Client) /\ Len(cl') = Len(cl)
      /\ \A i \in 1..Len(cl) : cl'[i].key = cl[i].key /\ cl'[i].base = cl[i].base
  <2>1. "over" \in Pcs
    BY DEF Pcs
  <2>2. late' = late /\ client' = client /\ cl' = Closed(c) /\ c \in Known /\ w[a].fresh \in Nat
    BY <1>2, <1>3
  <2> QED
    BY <1>1, <1>4, <2>1, <2>2, ClosingMove
<1>6. SharedOK'
  BY <1>1, <1>3, <1>5, ClosedShared
<1>7. ThreadOK(a)'
  <2>1. ~(a > main'.att) /\ writer \in Nat
    BY <1>1, <1>2, <1>3 DEF ThreadOK, SharedOK
  <2>2. ~Streaming(a)'
    BY <1>5 DEF Streaming
  <2>3. {w'[a].client, w'[a].old} \subseteq Known' /\ (Superseded(a)' <=> Superseded(a))
    BY <1>1, <1>3, <1>5 DEF ThreadOK, Known, Superseded
  <2> QED
    BY <1>1, <1>2, <1>3, <1>5, <2>1, <2>2, <2>3 DEF ThreadOK, Preparing, Ensuring
<1>8. ClientMove(a, {c} \ {None})
  <2>1. {c} \ {None} \subseteq {client, w[a].old, w[a].client} /\ refreshes \in Nat
    BY <1>1, <1>d DEF SharedOK
  <2> QED
    BY <1>2, <1>3, <1>5, <2>1 DEF ClientMove
<1>9. NoClientLost'
  <2>1. ASSUME wire # "anthropic", NEW d \in 1..Len(cl), Used(d), d # c PROVE Used(d)'
    <3>1. CASE d \in {client, main.old}
      BY <1>3, <3>1 DEF Used
    <3>2. CASE \E b \in Attempts : w[b].old = d \/ (w[b].client = d /\ Streaming(b))
      <4>1. PICK b \in Attempts : w[b].old = d \/ (w[b].client = d /\ Streaming(b))
        BY <3>2
      <4>2. b # a
        BY <1>2, <1>c, <2>1, <4>1, ModelCallAssumption
      <4> QED
        BY <1>5, <4>1, <4>2 DEF Used, Alike, Streaming
    <3> QED
      BY <2>1, <3>1, <3>2 DEF Used
  <2> DEFINE S == {c} \ {None}
  <2>2. wire # "anthropic" => \A d \in 1..Len(cl) : Used(d) => d \in S \/ Used(d)'
    BY <2>1, ModelCallAssumption
  <2>3. \A d \in 1..Len(cl') : ~(d > Len(cl))
    BY <1>1, <1>5 DEF SharedOK
  <2>4. Clients(S)
    BY <1>5
  <2> HIDE DEF S
  <2> QED
    <3>1. wire' = wire
      BY <1>3
    <3> QED
      BY <2>2, <2>3, <2>4, <3>1, LostKept
<1> QED
  BY <1>6, <1>7, <1>8, <1>9, ClientStep

\* A new Anthropic token closes the shared client.
LEMMA RefreshKeeps == ASSUME CallInv, NEW a \in Attempts, Refresh(a) PROVE CallInv'
<1>1. SharedOK /\ ThreadOK(a) /\ w[a] \in Thread /\ w \in [Attempts -> Thread]
  BY DEF CallInv
<1>2. CASE UNCHANGED <<cl, refreshes>> /\ Go(a, "build")
  <2>1. wire = "anthropic" /\ kwargs' = kwargs
    BY <1>1 DEF Refresh, ThreadOK
  <2> QED
    BY <1>1, <1>2, <2>1, PlainKeeps DEF Refresh, SharedOK
<1>3. CASE /\ refreshes' = refreshes + 1 /\ cl' = Closed(client)
           /\ w' = [Cut(client) EXCEPT ![a].pc = "rebuild", ![a].fresh = refreshes']
  <2>1. w[a].pc = "refresh" /\ w[a].old = None /\ w[a].token = 0 /\ late[a] = 0
        /\ wire = "anthropic" /\ client \in Known /\ client # None /\ refreshes' \in Nat
        /\ refreshes \in Nat /\ refreshes' >= refreshes
    BY <1>1, <1>3, ModelCallAssumption
    DEF Refresh, ThreadOK, SharedOK, Preparing, Superseded, Known
  <2>2. UNCHANGED <<wire, kwargs, client, lock, main, writer, text, late>>
    BY DEF Refresh, stream
  <2>3. w' = [Cut(client) EXCEPT ![a] =
               [Cut(client)[a] EXCEPT !.pc = "rebuild", !.old = None, !.fresh = refreshes']]
    <3>1. Cut(client)[a] \in Thread /\ Cut(client)[a].old = None
      BY <1>1, <2>1, CutKeeps
    <3>2. [Cut(client)[a] EXCEPT !.pc = "rebuild", !.fresh = refreshes']
            = [Cut(client)[a] EXCEPT !.pc = "rebuild", !.old = None, !.fresh = refreshes']
      BY <3>1 DEF Thread
    <3> QED
      BY <1>3, <3>2
  <2>4. /\ w' \in [Attempts -> Thread] /\ (\A b \in Attempts \ {a} : Alike(b))
        /\ w'[a].pc = "rebuild" /\ w'[a].old = None /\ w'[a].client = w[a].client
        /\ w'[a].lent = w[a].lent /\ w'[a].fresh = refreshes' /\ w'[a].token = w[a].token
        /\ Clients({client} \ {None}) /\ Known' = Known /\ cl' \in Seq(Client) /\ Len(cl') = Len(cl)
        /\ \A i \in 1..Len(cl) : cl'[i].key = cl[i].key /\ cl'[i].base = cl[i].base
    <3>1. "rebuild" \in Pcs
      BY DEF Pcs, Preparing
    <3>2. late' = late /\ client' = client /\ cl' = Closed(client)
      BY <1>3, <2>2
    <3> QED
      BY <1>1, <2>1, <2>3, <3>1, <3>2, ClosingMove
  <2>5. SharedOK'
    BY <1>1, <1>3, <2>2, <2>4, ClosedShared
  <2>6. ThreadOK(a)'
    <3>1. ~(a > main'.att) /\ writer \in Nat
      BY <1>1, <2>1, <2>2 DEF ThreadOK, SharedOK
    <3>2. ~Streaming(a)'
      BY <2>4 DEF Streaming
    <3>3. {w'[a].client, w'[a].old} \subseteq Known'
      BY <1>1, <2>4 DEF ThreadOK, Known
    <3> QED
      BY <2>1, <2>2, <2>4, <3>1, <3>2, <3>3 DEF ThreadOK, Preparing, Ensuring
  <2>7. ClientMove(a, {client} \ {None})
    <3>1. \A b \in Attempts : w[b].pc # "recreate"
      BY <2>1 DEF CallInv, ThreadOK, Ensuring
    <3> QED
      BY <2>1, <2>2, <2>4, <3>1 DEF ClientMove
  <2>8. NoClientLost'
    BY <2>1, <2>2 DEF NoClientLost
  <2> QED
    BY <2>5, <2>6, <2>7, <2>8, ClientStep
<1> QED
  BY <1>2, <1>3 DEF Refresh

\* One more client leaves what the threads share as it was.
LEMMA GrownShared ==
    ASSUME SharedOK, NEW k \in Nat, NEW b \in Nat, Grown(k, b), k <= refreshes, b <= refreshes,
           client' \in {client, Len(cl')}, main.pc = "make" => client' = client /\ lock' = lock,
           UNCHANGED <<wire, kwargs, main, writer, text, late, refreshes>>,
           lock' \in {lock, None}
    PROVE  SharedOK'
<1>1. ASSUME NEW c \in 1..Len(cl') PROVE cl'[c].key <= refreshes' /\ cl'[c].base <= refreshes'
  <2>1. c \in 1..Len(cl) \/ c = Len(cl')
    BY DEF Grown
  <2>2. CASE c \in 1..Len(cl)
    BY <2>2 DEF Grown, SharedOK
  <2>3. CASE c = Len(cl')
    BY <2>3 DEF Grown
  <2> QED
    BY <2>1, <2>2, <2>3
<1>2. Known \subseteq Known' /\ client' \in 1..Len(cl')
  BY DEF Known, Grown, SharedOK
<1> QED
  BY <1>1, <1>2 DEF SharedOK, Grown

\* It is built anew with the new token, or stays closed.
LEMMA RebuildKeeps == ASSUME CallInv, NEW a \in Attempts, Rebuild(a) PROVE CallInv'
<1>1. SharedOK /\ ThreadOK(a) /\ w[a] \in Thread /\ w \in [Attempts -> Thread]
  BY DEF CallInv
<1>2. CASE Go(a, "build") /\ UNCHANGED <<client, cl>>
  <2>1. wire = "anthropic" /\ kwargs' = kwargs
    BY <1>1 DEF Rebuild, ThreadOK
  <2> QED
    BY <1>1, <1>2, <2>1, PlainKeeps DEF Rebuild, SharedOK
<1>3. CASE Go(a, "rekey") /\ cl' = With(w[a].fresh, kwargs.base) /\ client' = Len(cl')
  <2>1. w[a].pc = "rebuild" /\ w[a].old = None /\ w[a].token = 0 /\ late[a] = 0
        /\ wire = "anthropic" /\ w[a].fresh \in Nat /\ w[a].fresh <= refreshes
        /\ kwargs.base \in Nat /\ kwargs.base <= refreshes /\ main.pc # "make" /\ cl \in Seq(Client)
    BY <1>1 DEF Rebuild, ThreadOK, SharedOK, Preparing, Superseded, Thread
  <2>2. UNCHANGED <<wire, kwargs, lock, main, writer, text, late, refreshes>>
    BY DEF Rebuild, stream
  <2>3. Grown(w[a].fresh, kwargs.base)
    BY <1>3, <2>1, WithGrows
  <2>4. SharedOK'
    BY <1>1, <1>3, <2>1, <2>2, <2>3, GrownShared
  <2>5. (\A b \in Attempts \ {a} : w'[b] = w[b]) /\ w'[a] = [w[a] EXCEPT !.pc = "rekey"]
    BY <1>1, <1>3 DEF Go
  <2>6. w'[a] \in Thread /\ w'[a].pc = "rekey" /\ w'[a].client = w[a].client
        /\ w'[a].old = w[a].old /\ w'[a].fresh = w[a].fresh /\ w'[a].token = w[a].token
    BY <1>1, <2>5 DEF Thread, Pcs, Preparing
  <2>7. w' \in [Attempts -> Thread]
    BY <1>1, <1>3, <2>6 DEF Go
  <2>8. ThreadOK(a)'
    <3>1. ~(a > main'.att) /\ writer \in Nat
      BY <1>1, <2>1, <2>2 DEF ThreadOK, SharedOK
    <3>2. ~Streaming(a)'
      BY <2>6 DEF Streaming
    <3>3. {w'[a].client, w'[a].old} \subseteq Known'
      BY <1>1, <2>3, <2>6 DEF ThreadOK, Known, Grown
    <3> QED
      BY <2>1, <2>2, <2>6, <3>1, <3>2, <3>3 DEF ThreadOK, Preparing, Ensuring
  <2>9. ClientMove(a, {})
    <3>1. \A b \in Attempts : w[b].pc # "recreate"
      BY <2>1 DEF CallInv, ThreadOK, Ensuring
    <3>2. Clients({})
      BY <1>3, <2>3 DEF Clients, Grown
    <3>3. \A b \in Attempts \ {a} : Alike(b)
      BY <2>2, <2>5 DEF Alike
    <3> QED
      BY <1>1, <2>1, <2>2, <2>6, <2>7, <3>1, <3>2, <3>3 DEF ClientMove, SharedOK
  <2>10. NoClientLost'
    BY <2>1, <2>2 DEF NoClientLost
  <2> QED
    BY <2>4, <2>8, <2>9, <2>10, ClientStep
<1> QED
  BY <1>2, <1>3 DEF Rebuild

\* The token is kept for later clients.
LEMMA RekeyKeeps == ASSUME CallInv, NEW a \in Attempts, Rekey(a) PROVE CallInv'
<1>1. SharedOK /\ ThreadOK(a) /\ w[a] \in Thread
  BY DEF CallInv
<1>2. wire = "anthropic" /\ w[a].fresh \in Nat /\ w[a].fresh <= refreshes
  BY <1>1 DEF Rekey, ThreadOK, Thread
<1>3. kwargs' \in [key : Nat, base : Nat] /\ kwargs'.key <= refreshes /\ kwargs'.base <= refreshes
  <2>1. kwargs' = [kwargs EXCEPT !.key = w[a].fresh] /\ kwargs \in [key : Nat, base : Nat]
    BY <1>1 DEF Rekey, SharedOK
  <2>2. kwargs'.key = w[a].fresh /\ kwargs'.base = kwargs.base
    BY <2>1
  <2> QED
    BY <1>1, <1>2, <2>1, <2>2 DEF SharedOK
<1> QED
  BY <1>2, <1>3, PlainKeeps DEF Rekey, bounds

\* A client for this call is the call's own.
LEMMA BuildKeeps == ASSUME CallInv, NEW a \in Attempts, Build(a) PROVE CallInv'
<1>1. SharedOK /\ ThreadOK(a) /\ w[a] \in Thread /\ w \in [Attempts -> Thread]
  BY DEF CallInv
<1>2. CASE Go(a, "over") /\ cl' = cl
  BY <1>1, <1>2, PlainKeeps DEF Build, SharedOK
<1>3. CASE cl' = Built /\ w' = [w EXCEPT ![a].pc = "send", ![a].client = Len(cl')]
  <2>1. w[a].pc = "build" /\ ~w[a].lent /\ w[a].old = None /\ w[a].token = 0 /\ late[a] = 0
        /\ kwargs.key \in Nat /\ kwargs.base \in Nat /\ kwargs.key <= refreshes
        /\ kwargs.base <= refreshes /\ client \in 1..Len(cl)
    BY <1>1 DEF Build, ThreadOK, SharedOK, Preparing, Superseded
  <2>2. UNCHANGED <<wire, kwargs, client, lock, main, writer, text, late, refreshes>>
    BY DEF Build, stream
  <2>3. Grown(kwargs.key, kwargs.base)
    BY <1>1, <1>3, BuiltGrows
  <2>4. SharedOK'
    BY <1>1, <2>1, <2>2, <2>3, GrownShared
  <2>5. (\A b \in Attempts \ {a} : w'[b] = w[b])
        /\ w'[a] = [w[a] EXCEPT !.pc = "send", !.client = Len(cl')]
    BY <1>1, <1>3
  <2>6. w'[a] \in Thread /\ w'[a].pc = "send" /\ w'[a].client = Len(cl') /\ ~w'[a].lent
        /\ w'[a].old = w[a].old /\ w'[a].fresh = w[a].fresh /\ w'[a].token = w[a].token
    <3>1. Len(cl') \in Nat
      BY <2>3 DEF Grown
    <3> QED
      BY <1>1, <2>1, <2>5, <3>1 DEF Thread, Pcs, InStream
  <2>7. w' \in [Attempts -> Thread]
    BY <1>1, <1>3, <2>6
  <2>8. Owns(a)'
    <3>1. Len(cl') > Len(cl) /\ Len(cl) \in Nat /\ cl'[Len(cl')].st = "open"
      BY <2>3 DEF Grown
    <3>2. client' # Len(cl') /\ main'.old # Len(cl')
      BY <1>1, <2>1, <2>2, <3>1, ModelCallAssumption DEF SharedOK, Known
    <3>3. ASSUME NEW b \in Attempts
          PROVE  w'[b].old # Len(cl') /\ (b # a => w'[b].client # Len(cl'))
      <4>1. {w[b].client, w[b].old} \subseteq Known
        BY DEF CallInv, ThreadOK
      <4>2. w[b].client # Len(cl') /\ w[b].old # Len(cl')
        BY <3>1, <4>1, ModelCallAssumption DEF Known
      <4> QED
        BY <2>5, <2>6, <4>2
    <3> QED
      BY <2>6, <3>1, <3>2, <3>3 DEF Owns
  <2>9. ThreadOK(a)'
    <3>1. ~(a > main'.att) /\ writer \in Nat
      BY <1>1, <2>1, <2>2 DEF ThreadOK, SharedOK
    <3>2. {w'[a].client, w'[a].old} \subseteq Known' /\ w'[a].client # None
      BY <2>1, <2>3, <2>6, ModelCallAssumption DEF Known, Grown
    <3>3. w'[a].fresh <= refreshes'
      BY <1>1, <2>2, <2>6 DEF ThreadOK
    <3> QED
      BY <2>1, <2>2, <2>6, <2>8, <3>1, <3>2, <3>3 DEF ThreadOK, Preparing, Ensuring
  <2>10. ClientMove(a, {})
    <3>1. Clients({})
      BY <2>2, <2>3 DEF Clients, Grown
    <3>2. \A b \in Attempts \ {a} : Alike(b)
      BY <2>2, <2>5 DEF Alike
    <3>3. w'[a].client > Len(cl)
      BY <2>3, <2>6 DEF Grown
    <3> QED
      BY <1>1, <2>1, <2>2, <2>6, <2>7, <3>1, <3>2, <3>3 DEF ClientMove, SharedOK
  <2>11. NoClientLost'
    <3>1. ASSUME NEW c \in 1..Len(cl), Used(c) PROVE Used(c)'
      <4>1. CASE c \in {client, main.old}
        BY <2>2, <4>1 DEF Used
      <4>2. CASE \E b \in Attempts : w[b].old = c \/ (w[b].client = c /\ Streaming(b))
        <5>1. PICK b \in Attempts : w[b].old = c \/ (w[b].client = c /\ Streaming(b))
          BY <4>2
        <5>2. b # a
          BY <2>1, <5>1, ModelCallAssumption DEF Streaming
        <5> QED
          BY <2>5, <5>1, <5>2 DEF Used, Streaming
      <4> QED
        BY <3>1, <4>1, <4>2 DEF Used
    <3>2. \A c \in 1..Len(cl') : c > Len(cl) => Used(c)'
      <4>1. Streaming(a)' /\ w'[a].client = Len(cl') /\ Len(cl') = Len(cl) + 1 /\ Len(cl) \in Nat
        BY <2>3, <2>6 DEF Streaming, Grown
      <4> QED
        BY <4>1 DEF Used
    <3> QED
      BY <2>2, <2>10, <3>1, <3>2, LostKept DEF ClientMove
  <2> QED
    BY <2>4, <2>9, <2>10, <2>11, ClientStep
<1> QED
  BY <1>2, <1>3 DEF Build

\* The shared client is taken for this call; it has no own.
LEMMA BorrowKeeps == ASSUME CallInv, NEW a \in Attempts, Borrow(a) PROVE CallInv'
<1> DEFINE c == IF wire = "moa" THEN w[a].client ELSE client
<1>1. SharedOK /\ ThreadOK(a) /\ w[a] \in Thread /\ w \in [Attempts -> Thread]
  BY DEF CallInv
<1>2. w[a].pc = "build" /\ w[a].lent /\ w[a].old = None /\ w[a].token = 0 /\ late[a] = 0
      /\ client \in 1..Len(cl) /\ client # None
  BY <1>1, ModelCallAssumption DEF Borrow, ThreadOK, SharedOK, Preparing, Superseded
<1>3. UNCHANGED <<wire, kwargs, client, cl, lock, main, writer, text, late, refreshes>>
  BY DEF Borrow, clients, stream, bounds
<1>4. c \in Known /\ c # None /\ c \in {client, w[a].client}
  BY <1>1, <1>2 DEF ThreadOK, Known
<1>5. (\A b \in Attempts \ {a} : w'[b] = w[b])
      /\ w'[a] = [w[a] EXCEPT !.pc = "send", !.client = c]
  BY <1>1 DEF Borrow
<1> HIDE DEF c
<1>6. w'[a] \in Thread /\ w'[a].pc = "send" /\ w'[a].client = c /\ w'[a].lent
      /\ w'[a].old = w[a].old /\ w'[a].fresh = w[a].fresh /\ w'[a].token = w[a].token
  <2>1. c \in Nat \cup {None} /\ "send" \in Pcs
    BY <1>4 DEF Known, Pcs, InStream
  <2>2. w'[a] \in Thread /\ w'[a].pc = "send" /\ w'[a].client = c /\ w'[a].lent = w[a].lent
        /\ w'[a].old = w[a].old /\ w'[a].fresh = w[a].fresh /\ w'[a].token = w[a].token
    BY <1>1, <1>5, <2>1 DEF Thread
  <2> QED
    BY <1>2, <2>2
<1>7. w' \in [Attempts -> Thread]
  BY <1>1, <1>6 DEF Borrow
<1>8. SharedOK'
  BY <1>1, <1>3 DEF SharedOK, Known
<1>9. ThreadOK(a)'
  <2>1. ~(a > main'.att) /\ writer \in Nat
    BY <1>1, <1>2, <1>3 DEF ThreadOK, SharedOK
  <2>2. {w'[a].client, w'[a].old} \subseteq Known' /\ w'[a].fresh <= refreshes'
    BY <1>1, <1>2, <1>3, <1>4, <1>6 DEF Known, ThreadOK
  <2> QED
    BY <1>2, <1>3, <1>4, <1>6, <2>1, <2>2 DEF ThreadOK, Preparing, Ensuring
<1>10. ClientMove(a, {})
  <2>1. Clients({})
    BY <1>1, <1>3 DEF Clients, SharedOK
  <2>2. \A b \in Attempts \ {a} : Alike(b)
    BY <1>3, <1>5 DEF Alike
  <2> QED
    BY <1>1, <1>3, <1>4, <1>6, <1>7, <2>1, <2>2 DEF ClientMove, SharedOK
<1>11. NoClientLost'
  <2>1. ASSUME NEW d \in 1..Len(cl), Used(d) PROVE Used(d)'
    <3>1. CASE d \in {client, main.old}
      BY <1>3, <3>1 DEF Used
    <3>2. CASE \E b \in Attempts : w[b].old = d \/ (w[b].client = d /\ Streaming(b))
      <4>1. PICK b \in Attempts : w[b].old = d \/ (w[b].client = d /\ Streaming(b))
        BY <3>2
      <4>2. b # a
        BY <1>2, <4>1, ModelCallAssumption DEF Streaming
      <4> QED
        BY <1>5, <4>1, <4>2 DEF Used, Streaming
    <3> QED
      BY <2>1, <3>1, <3>2 DEF Used
  <2>2. \A d \in 1..Len(cl') : ~(d > Len(cl))
    BY <1>1, <1>3 DEF SharedOK
  <2> QED
    BY <1>3, <1>10, <2>1, <2>2, LostKept DEF ClientMove
<1> QED
  BY <1>8, <1>9, <1>10, <1>11, ClientStep

-------------------------------------------------------------------------------
\* A step of the main thread: it closes no client but the shared one and the one
\* it replaced, and moves no attempt.
MainMove(S) ==
  /\ UNCHANGED <<wire, writer, late>> /\ main'.att = main.att
  /\ w' \in [Attempts -> Thread] /\ \A b \in Attempts : Alike(b)
  /\ refreshes' \in Nat /\ refreshes' >= refreshes
  /\ Clients(S) /\ S \subseteq {client, main.old}
  /\ main'.old \in {main.old, client, None}
  /\ \A b \in Attempts : w[b].pc = "recreate" => lock' = lock /\ client' = client

LEMMA MainStep ==
    ASSUME CallInv, NEW S, MainMove(S), SharedOK', NoClientLost'
    PROVE  CallInv'
<1>1. ASSUME NEW b \in Attempts PROVE ThreadOK(b)'
  <2>1. Alike(b) /\ Clients(S) /\ wire' = wire /\ main'.att = main.att /\ writer' = writer
        /\ writer \in Nat /\ refreshes' \in Nat /\ refreshes' >= refreshes
        /\ main'.old \in {main.old, client, None}
        /\ (w[b].pc = "recreate" => lock' = lock /\ client' = client)
    BY DEF MainMove, CallInv, SharedOK
  <2>2. ~w[b].lent => w[b].client \notin S \/ ~Streaming(b)
    BY Apart DEF MainMove
  <2>3. \A d \in Attempts : w'[d].old = w[d].old /\ w'[d].client = w[d].client
    BY DEF MainMove, Alike
  <2> QED
    BY <2>1, <2>2, <2>3, AlikeKept
<1> QED
  BY <1>1 DEF MainMove, CallInv

\* Threads that do not move use what they used.
LEMMA AlikeUsed ==
    ASSUME CallInv, NEW S, Clients(S), MainMove(S),
           wire # "anthropic" => {client, main.old} \subseteq S \cup {client', main'.old, None},
           wire # "anthropic" => client' = Len(cl') \/ Len(cl') = Len(cl),
           wire # "anthropic" => Len(cl') <= Len(cl) + 1
    PROVE  NoClientLost'
<1>1. \A b \in Attempts : w'[b].old = w[b].old /\ w'[b].client = w[b].client
                          /\ (Streaming(b)' <=> Streaming(b))
  BY DEF MainMove, Alike, Streaming
<1>2. ASSUME wire # "anthropic", NEW c \in 1..Len(cl), Used(c) PROVE c \in S \/ Used(c)'
  <2>1. CASE c \in {client, main.old}
    BY <1>2, <2>1, ModelCallAssumption DEF Used
  <2>2. CASE \E b \in Attempts : w[b].old = c \/ (w[b].client = c /\ Streaming(b))
    BY <1>1, <2>2 DEF Used
  <2> QED
    BY <1>2, <2>1, <2>2 DEF Used
<1>3. ASSUME wire # "anthropic", NEW c \in 1..Len(cl'), c > Len(cl) PROVE Used(c)'
  BY <1>3 DEF Used, Clients
<1>4. wire' = wire
  BY DEF MainMove
<1> QED
  BY <1>2, <1>3, <1>4, LostKept

\* The main thread moves and leaves the clients alone.
LEMMA QuietKeeps ==
    ASSUME CallInv, UNCHANGED <<wire, client, cl, lock, writer, text, late>>,
           w' \in [Attempts -> Thread], \A b \in Attempts : Alike(b),
           NEW p \in {"idle", "between", "base", "swap", "replace"},
           main' = [main EXCEPT !.pc = p],
           p = "swap" => wire = "anthropic", p = "replace" => wire # "anthropic",
           main.old = None, refreshes' \in {refreshes, refreshes + 1},
           kwargs' \in [key : Nat, base : Nat], kwargs'.key <= refreshes', kwargs'.base <= refreshes'
    PROVE  CallInv'
<1>1. SharedOK /\ main \in MainThread /\ refreshes \in Nat
  BY DEF CallInv, SharedOK
<1>2. main' \in MainThread /\ main'.pc = p /\ main'.att = main.att /\ main'.old = None
  BY <1>1 DEF MainThread
<1>3. SharedOK'
  <2>1. \A i \in 1..Len(cl) : cl[i].key \in Nat /\ cl[i].base \in Nat
    <3>1. \A i \in 1..Len(cl) : cl[i] \in Client
      BY <1>1 DEF SharedOK
    <3> QED
      BY <3>1 DEF Client
  <2>2. \A i \in 1..Len(cl') : cl'[i].key <= refreshes' /\ cl'[i].base <= refreshes'
    BY <1>1, <2>1 DEF SharedOK
  <2>3. main'.old \in Known' /\ refreshes' \in Nat
    BY <1>1, <1>2 DEF Known
  <2> QED
    BY <1>1, <1>2, <2>2, <2>3 DEF SharedOK
<1>4. MainMove({})
  <2>1. Clients({})
    BY <1>1 DEF Clients, SharedOK
  <2> QED
    BY <1>1, <1>2, <2>1 DEF MainMove
<1>5. NoClientLost'
  <2>1. {client, main.old} \subseteq {} \cup {client', main'.old, None}
    OBVIOUS
  <2>2. Len(cl') = Len(cl) /\ Len(cl) \in Nat /\ Clients({})
    BY <1>4 DEF MainMove, Clients
  <2> QED
    BY <1>4, <2>1, <2>2, AlikeUsed
<1> QED
  BY <1>3, <1>4, <1>5, MainStep

\* An abort shuts connections and closes nothing.
LEMMA AbortKeeps == ASSUME CallInv, Abort PROVE CallInv'
<1> PICK a \in Attempts : a = main.att
  BY DEF CallInv, SharedOK, Abort
<1> DEFINE c == w[a].client
<1>1. SharedOK /\ w \in [Attempts -> Thread] /\ main.pc = "wait"
      /\ main' = [main EXCEPT !.pc = "between"]
  BY DEF CallInv, SharedOK, Abort, MainTo
<1>2. UNCHANGED <<wire, kwargs, client, cl, lock, writer, text, late, refreshes>>
  BY DEF Abort, clients, stream
<1>3. w' = [Cut(c) EXCEPT ![a].hit = w[a].conn = "open"] \/ w' = w
  BY DEF Abort
<1> HIDE DEF c
<1>4. w' \in [Attempts -> Thread] /\ \A b \in Attempts : Alike(b)
  <2>1. CASE w' = w
    BY <1>1, <1>2, <2>1 DEF Alike
  <2>2. CASE w' = [Cut(c) EXCEPT ![a].hit = w[a].conn = "open"]
    <3>1. Cut(c) \in [Attempts -> Thread]
          /\ \A b \in Attempts :
               /\ Cut(c)[b].pc = w[b].pc /\ Cut(c)[b].client = w[b].client
               /\ Cut(c)[b].lent = w[b].lent /\ Cut(c)[b].old = w[b].old
               /\ Cut(c)[b].fresh = w[b].fresh /\ Cut(c)[b].token = w[b].token
      BY <1>1, CutKeeps
    <3> DEFINE h == w[a].conn = "open"
    <3>2. h \in BOOLEAN
      OBVIOUS
    <3>3. w' = [Cut(c) EXCEPT ![a] = [Cut(c)[a] EXCEPT !.hit = h]]
      BY <2>2
    <3> HIDE DEF h
    <3>4. (\A b \in Attempts \ {a} : w'[b] = Cut(c)[b]) /\ w'[a] = [Cut(c)[a] EXCEPT !.hit = h]
      BY <1>1, <3>1, <3>3
    <3>5. w'[a] \in Thread /\ w'[a].pc = Cut(c)[a].pc /\ w'[a].client = Cut(c)[a].client
          /\ w'[a].lent = Cut(c)[a].lent /\ w'[a].old = Cut(c)[a].old
          /\ w'[a].fresh = Cut(c)[a].fresh /\ w'[a].token = Cut(c)[a].token
      <4>1. Cut(c)[a] \in Thread
        BY <1>1, <3>1
      <4> QED
        BY <3>2, <3>4, <4>1 DEF Thread
    <3>6. w' \in [Attempts -> Thread]
      <4>1. [Cut(c)[a] EXCEPT !.hit = h] \in Thread
        BY <3>4, <3>5
      <4> QED
        BY <3>1, <3>3, <4>1
    <3>7. late' = late
      BY <1>2
    <3>8. Alike(a)
      BY <3>1, <3>5, <3>7 DEF Alike
    <3>9. \A b \in Attempts \ {a} : Alike(b)
      BY <3>1, <3>4, <3>7 DEF Alike
    <3> QED
      BY <3>6, <3>8, <3>9
  <2> QED
    BY <1>3, <2>1, <2>2
<1>5. main.old = None
  BY <1>1 DEF SharedOK
<1> QED
  BY <1>1, <1>2, <1>4, <1>5, QuietKeeps DEF SharedOK

\* The attempt answered or failed, or no other is made.
LEMMA AnsweredKeeps == ASSUME CallInv, Answered \/ GiveUp PROVE CallInv'
<1>1. SharedOK /\ w' = w /\ w \in [Attempts -> Thread]
      /\ UNCHANGED <<wire, kwargs, client, cl, lock, writer, text, late, refreshes>>
  BY DEF CallInv, Answered, GiveUp, clients, stream, bounds
<1>2. main.old = None /\ \E p \in {"idle", "between"} : main' = [main EXCEPT !.pc = p]
  BY <1>1 DEF SharedOK, Answered, GiveUp, MainTo
<1>3. \A b \in Attempts : Alike(b)
  BY <1>1 DEF Alike
<1> QED
  BY <1>1, <1>2, <1>3, QuietKeeps DEF SharedOK

\* The key is set, and then the base URL.
LEMMA SetKeyKeeps == ASSUME CallInv, SetKey \/ SetBase PROVE CallInv'
<1>1. SharedOK /\ w' = w /\ w \in [Attempts -> Thread] /\ kwargs \in [key : Nat, base : Nat]
      /\ UNCHANGED <<wire, client, cl, lock, writer, text, late>>
      /\ refreshes' \in {refreshes, refreshes + 1} /\ refreshes \in Nat
  BY DEF CallInv, SharedOK, SetKey, SetBase, stream, bounds
<1>2. main.old = None
  BY <1>1 DEF SharedOK, SetKey, SetBase
<1>3. \A b \in Attempts : Alike(b)
  BY <1>1 DEF Alike
<1>4. CASE SetKey
  <2>1. kwargs' = [kwargs EXCEPT !.key = refreshes'] /\ refreshes' \in Nat
    BY <1>1, <1>4 DEF SetKey
  <2>2. kwargs' \in [key : Nat, base : Nat] /\ kwargs'.key = refreshes' /\ kwargs'.base = kwargs.base
    BY <1>1, <2>1
  <2>3. kwargs.base \in Nat /\ kwargs.base <= refreshes
    BY <1>1 DEF SharedOK
  <2>4. kwargs'.key <= refreshes' /\ kwargs'.base <= refreshes'
    BY <1>1, <2>1, <2>2, <2>3
  <2>5. main' = [main EXCEPT !.pc = "base"]
    BY <1>4 DEF SetKey, MainTo
  <2> QED
    BY <1>1, <1>2, <1>3, <2>2, <2>4, <2>5, QuietKeeps
<1>5. CASE SetBase
  <2>1. kwargs' = [kwargs EXCEPT !.base = kwargs.key] /\ refreshes' = refreshes
    BY <1>5 DEF SetBase, bounds
  <2>2. kwargs' \in [key : Nat, base : Nat] /\ kwargs'.key = kwargs.key /\ kwargs'.base = kwargs.key
    BY <1>1, <2>1
  <2>3. kwargs'.key <= refreshes' /\ kwargs'.base <= refreshes'
    BY <1>1, <2>1, <2>2 DEF SharedOK
  <2> DEFINE p == IF wire = "anthropic" THEN "swap" ELSE "replace"
  <2>4. main' = [main EXCEPT !.pc = p]
    BY <1>5 DEF SetBase, MainTo
  <2>5. p \in {"swap", "replace"} /\ (p = "swap" => wire = "anthropic")
        /\ (p = "replace" => wire # "anthropic")
    OBVIOUS
  <2> HIDE DEF p
  <2> QED
    BY <1>1, <1>2, <1>3, <2>2, <2>3, <2>4, <2>5, QuietKeeps
<1> QED
  BY <1>4, <1>5

\* A client the main thread closes: the shared one, or the one it replaced.
LEMMA MainCloses ==
    ASSUME CallInv, NEW c \in {client, main.old}, NEW p \in {"between", "key"},
           cl' = Closed(c), w' = Cut(c), main' = [main EXCEPT !.pc = p, !.old = None],
           UNCHANGED <<wire, kwargs, client, lock, writer, text, late>>,
           refreshes' \in {refreshes, refreshes + 1},
           wire # "anthropic" => c = main.old, p = "key" => wire = "anthropic"
    PROVE  CallInv'
<1>1. SharedOK /\ w \in [Attempts -> Thread] /\ main \in MainThread /\ refreshes \in Nat
      /\ c \in Known
  BY DEF CallInv, SharedOK, Known
<1>2. main' \in MainThread /\ main'.pc = p /\ main'.old = None /\ main'.att = main.att
  BY <1>1 DEF MainThread
<1>3. /\ cl' \in Seq(Client) /\ Len(cl') = Len(cl) /\ Len(cl) \in Nat
      /\ \A i \in 1..Len(cl) :
           /\ cl'[i].key = cl[i].key /\ cl'[i].base = cl[i].base
           /\ cl'[i].st = IF i = c THEN "closed" ELSE cl[i].st
  BY <1>1, ClosedKeeps DEF SharedOK
<1>4. SharedOK'
  <2>1. \A i \in 1..Len(cl) : cl[i].key \in Nat /\ cl[i].base \in Nat
    <3>1. \A i \in 1..Len(cl) : cl[i] \in Client
      BY <1>1 DEF SharedOK
    <3> QED
      BY <3>1 DEF Client
  <2>2. \A i \in 1..Len(cl') : cl'[i].key <= refreshes' /\ cl'[i].base <= refreshes'
    <3>1. \A i \in 1..Len(cl) : cl[i].key <= refreshes /\ cl[i].base <= refreshes
      BY <1>1 DEF SharedOK
    <3> QED
      BY <1>1, <1>3, <2>1, <3>1
  <2>3. kwargs'.key <= refreshes' /\ kwargs'.base <= refreshes' /\ refreshes' \in Nat
    <3>1. kwargs.key \in Nat /\ kwargs.base \in Nat /\ kwargs.key <= refreshes
          /\ kwargs.base <= refreshes /\ kwargs' = kwargs
      BY <1>1 DEF SharedOK
    <3> QED
      BY <1>1, <3>1
  <2>4. main'.old \in Known' /\ client' \in 1..Len(cl')
    BY <1>1, <1>2, <1>3 DEF Known, SharedOK
  <2> QED
    BY <1>1, <1>2, <1>3, <2>2, <2>3, <2>4 DEF SharedOK
<1> DEFINE S == {c} \ {None}
<1>5. Clients(S)
  BY <1>3, ModelCallAssumption DEF Clients
<1>6. MainMove(S)
  <2>1. w' \in [Attempts -> Thread] /\ \A b \in Attempts : Alike(b)
    <3>1. Cut(c) \in [Attempts -> Thread]
          /\ \A b \in Attempts :
               /\ Cut(c)[b].pc = w[b].pc /\ Cut(c)[b].client = w[b].client
               /\ Cut(c)[b].lent = w[b].lent /\ Cut(c)[b].old = w[b].old
               /\ Cut(c)[b].fresh = w[b].fresh /\ Cut(c)[b].token = w[b].token
      BY <1>1, CutKeeps
    <3> QED
      BY <3>1 DEF Alike
  <2>2. S \subseteq {client, main.old}
    OBVIOUS
  <2> HIDE DEF S
  <2> QED
    BY <1>1, <1>2, <1>5, <2>1, <2>2 DEF MainMove
<1>7. NoClientLost'
  <2>1. wire # "anthropic" => {client, main.old} \subseteq S \cup {client', main'.old, None}
    OBVIOUS
  <2> HIDE DEF S
  <2> QED
    BY <1>3, <1>5, <1>6, <2>1, AlikeUsed
<1> HIDE DEF S
<1> QED
  BY <1>4, <1>6, <1>7, MainStep

\* Anthropic's shared client is closed before the swap, OpenAI's after.
LEMMA ClosesKeeps == ASSUME CallInv, CloseForSwap \/ CloseReplaced PROVE CallInv'
<1>1. SharedOK /\ main \in MainThread
  BY DEF CallInv, SharedOK
<1>2. CASE CloseForSwap
  <2>1. main' = [main EXCEPT !.pc = "key"] /\ main.old = None
    BY <1>1, <1>2 DEF CloseForSwap, MainTo, SharedOK
  <2>2. main' = [main EXCEPT !.pc = "key", !.old = None]
    BY <1>1, <2>1 DEF MainThread
  <2>3. wire = "anthropic" /\ cl' = Closed(client) /\ w' = Cut(client) /\ refreshes' = refreshes + 1
        /\ UNCHANGED <<wire, kwargs, client, lock, writer, text, late>>
    BY <1>2 DEF CloseForSwap, stream
  <2> QED
    BY <2>2, <2>3, MainCloses
<1>3. CASE CloseReplaced
  <2>1. main' = [main EXCEPT !.pc = "between", !.old = None] /\ refreshes' = refreshes
        /\ cl' = Closed(main.old) /\ w' = Cut(main.old)
        /\ UNCHANGED <<wire, kwargs, client, lock, writer, text, late>>
    BY <1>3 DEF CloseReplaced, stream, bounds
  <2> QED
    BY <2>1, MainCloses
<1> QED
  BY <1>2, <1>3

\* Anthropic's client is built with the credential swapped in.
LEMMA SwapBuildKeeps == ASSUME CallInv, SwapBuild PROVE CallInv'
<1>1. SharedOK /\ main \in MainThread /\ refreshes \in Nat /\ w' = w /\ w \in [Attempts -> Thread]
      /\ UNCHANGED <<wire, kwargs, lock, writer, text, late, refreshes>>
  BY DEF CallInv, SharedOK, SwapBuild, stream
<1>2. main.pc = "swap" /\ main.old = None /\ wire = "anthropic" /\ main' = [main EXCEPT !.pc = "between"]
      /\ \A b \in Attempts : Alike(b)
  BY <1>1 DEF SharedOK, SwapBuild, MainTo, Alike
<1>3. CASE UNCHANGED <<cl, client>>
  BY <1>1, <1>2, <1>3, QuietKeeps DEF SharedOK
<1>4. CASE cl' = Built /\ client' = Len(cl')
  <2>1. Grown(kwargs.key, kwargs.base)
    BY <1>1, <1>4, BuiltGrows
  <2>2. main' \in MainThread /\ main'.pc = "between" /\ main'.old = None /\ main'.att = main.att
    BY <1>1, <1>2 DEF MainThread
  <2>3. SharedOK'
    <3>1. ASSUME NEW c \in 1..Len(cl') PROVE cl'[c].key <= refreshes' /\ cl'[c].base <= refreshes'
      <4>1. c \in 1..Len(cl) \/ c = Len(cl')
        BY <2>1 DEF Grown
      <4>2. CASE c \in 1..Len(cl)
        BY <1>1, <2>1, <4>2 DEF Grown, SharedOK
      <4>3. CASE c = Len(cl')
        BY <1>1, <2>1, <4>3 DEF Grown, SharedOK
      <4> QED
        BY <4>1, <4>2, <4>3
    <3>2. client' \in 1..Len(cl') /\ main'.old \in Known'
      BY <1>4, <2>1, <2>2 DEF Grown, Known
    <3> QED
      BY <1>1, <2>1, <2>2, <3>1, <3>2 DEF SharedOK, Grown
  <2>4. MainMove({})
    <3>1. Clients({})
      BY <1>4, <2>1 DEF Clients, Grown
    <3>2. \A b \in Attempts : w[b].pc # "recreate"
      BY <1>2 DEF CallInv, ThreadOK, Ensuring
    <3> QED
      BY <1>1, <1>2, <2>2, <3>1, <3>2 DEF MainMove
  <2>5. NoClientLost'
    BY <1>1, <1>2 DEF NoClientLost
  <2> QED
    BY <2>3, <2>4, <2>5, MainStep
<1> QED
  BY <1>3, <1>4 DEF SwapBuild

\* _replace_primary_openai_client looks at the shared client under the lock.
LEMMA ReplaceKeeps == ASSUME CallInv, Replace PROVE CallInv'
<1>1. SharedOK /\ main \in MainThread /\ refreshes \in Nat /\ w' = w /\ w \in [Attempts -> Thread]
      /\ UNCHANGED <<wire, kwargs, client, cl, writer, text, late, refreshes>>
      /\ client \in Nat /\ client \in Known
  BY DEF CallInv, SharedOK, Replace, stream, bounds, Known
<1>2. main.pc = "replace" /\ main.old = None /\ lock = None /\ lock' = Main /\ wire # "anthropic"
      /\ main' = [main EXCEPT !.pc = "make", !.old = client]
  BY <1>1 DEF SharedOK, Replace
<1>3. main' \in MainThread /\ main'.pc = "make" /\ main'.old = client /\ main'.att = main.att
  BY <1>1, <1>2 DEF MainThread
<1>4. SharedOK'
  BY <1>1, <1>2, <1>3 DEF SharedOK, Known
<1>5. MainMove({})
  <2>1. Clients({})
    BY <1>1 DEF Clients, SharedOK
  <2>2. \A b \in Attempts : w[b].pc # "recreate" /\ Alike(b)
    BY <1>1, <1>2, ModelCallAssumption DEF CallInv, ThreadOK, Alike, Attempts
  <2> QED
    BY <1>1, <1>3, <2>1, <2>2 DEF MainMove
<1>6. NoClientLost'
  <2>1. Len(cl') = Len(cl) /\ Len(cl) \in Nat /\ Clients({})
    <3>1. cl' = cl
      BY <1>1
    <3> QED
      BY <1>5, <3>1 DEF MainMove, Clients
  <2>2. {client, main.old} \subseteq {} \cup {client', main'.old, None}
    <3>1. client' = client /\ main.old = None
      BY <1>1, <1>2
    <3> QED
      BY <3>1
  <2> QED
    BY <1>1, <1>5, <2>1, <2>2, AlikeUsed
<1> QED
  BY <1>4, <1>5, <1>6, MainStep

\* It puts a new one in its place, or leaves the old one there.
LEMMA MakeKeeps == ASSUME CallInv, Make PROVE CallInv'
<1>1. SharedOK /\ main \in MainThread /\ refreshes \in Nat /\ w' = w /\ w \in [Attempts -> Thread]
      /\ UNCHANGED <<wire, kwargs, writer, text, late, refreshes>> /\ client \in Known
  BY DEF CallInv, SharedOK, Make, stream, Known
<1>2. main.pc = "make" /\ main.old = client /\ lock = Main /\ lock' = None /\ wire # "anthropic"
  BY <1>1 DEF SharedOK, Make
<1>3. \A b \in Attempts : w[b].pc # "recreate" /\ Alike(b)
  BY <1>1, <1>2, ModelCallAssumption DEF CallInv, ThreadOK, Alike, Attempts, Main
<1>4. CASE UNCHANGED <<client, cl>> /\ main' = [main EXCEPT !.pc = "between", !.old = None]
  <2>1. main' \in MainThread /\ main'.pc = "between" /\ main'.old = None /\ main'.att = main.att
    BY <1>1, <1>4 DEF MainThread
  <2>2. SharedOK'
    <3>1. Known' = Known /\ main'.old \in Known'
      BY <1>4, <2>1 DEF Known
    <3> QED
      BY <1>1, <1>2, <1>4, <2>1, <3>1 DEF SharedOK
  <2>3. MainMove({})
    <3>1. Clients({})
      BY <1>1, <1>4 DEF Clients, SharedOK
    <3> QED
      BY <1>1, <1>3, <2>1, <3>1 DEF MainMove
  <2>4. NoClientLost'
    <3>1. Len(cl') = Len(cl) /\ Len(cl) \in Nat /\ Clients({})
      BY <1>4, <2>3 DEF MainMove, Clients
    <3>2. {client, main.old} \subseteq {} \cup {client', main'.old, None}
      BY <1>2, <1>4
    <3> QED
      BY <2>3, <3>1, <3>2, AlikeUsed
  <2> QED
    BY <2>2, <2>3, <2>4, MainStep
<1>5. CASE cl' = Built /\ client' = Len(cl') /\ MainTo("close")
  <2>1. Grown(kwargs.key, kwargs.base)
    BY <1>1, <1>5, BuiltGrows
  <2>2. main' \in MainThread /\ main'.pc = "close" /\ main'.old = client /\ main'.att = main.att
    BY <1>1, <1>2, <1>5 DEF MainThread, MainTo
  <2>3. SharedOK'
    <3>1. ASSUME NEW c \in 1..Len(cl') PROVE cl'[c].key <= refreshes' /\ cl'[c].base <= refreshes'
      <4>1. c \in 1..Len(cl) \/ c = Len(cl')
        BY <2>1 DEF Grown
      <4>2. CASE c \in 1..Len(cl)
        BY <1>1, <2>1, <4>2 DEF Grown, SharedOK
      <4>3. CASE c = Len(cl')
        BY <1>1, <2>1, <4>3 DEF Grown, SharedOK
      <4> QED
        BY <4>1, <4>2, <4>3
    <3>2. client' \in 1..Len(cl') /\ main'.old \in Known'
      BY <1>1, <1>5, <2>1, <2>2 DEF Grown, Known
    <3> QED
      BY <1>1, <1>2, <2>1, <2>2, <3>1, <3>2 DEF SharedOK, Grown
  <2>4. MainMove({})
    <3>1. Clients({})
      BY <1>5, <2>1 DEF Clients, Grown
    <3> QED
      BY <1>1, <1>3, <2>2, <3>1 DEF MainMove
  <2>5. NoClientLost'
    <3>1. Clients({}) /\ Len(cl') <= Len(cl) + 1
      BY <2>1, <2>4 DEF MainMove, Grown
    <3>2. {client, main.old} \subseteq {} \cup {client', main'.old, None}
      BY <1>2, <2>2
    <3> QED
      BY <1>5, <2>4, <3>1, <3>2, AlikeUsed
  <2> QED
    BY <2>3, <2>4, <2>5, MainStep
<1> QED
  BY <1>4, <1>5 DEF Make

\* The next attempt begins, without a client yet.
LEMMA StartKeeps == ASSUME CallInv, StartAttempt PROVE CallInv'
<1>1. SharedOK /\ main \in MainThread /\ w \in [Attempts -> Thread] /\ main.old = None
      /\ UNCHANGED <<wire, kwargs, client, cl, lock, writer, late, refreshes>>
  BY DEF CallInv, SharedOK, StartAttempt, clients, bounds
<1> PICK a \in Attempts : a = main.att + 1
  BY <1>1, ModelCallAssumption DEF MainThread, Attempts, StartAttempt
<1> DEFINE p == IF wire = "anthropic" THEN "refresh" ELSE "ensure"
<1>2. PICK l \in BOOLEAN : w' = [w EXCEPT ![a].pc = p, ![a].lent = l]
  <2>1. PICK l \in IF wire = "anthropic" THEN BOOLEAN ELSE {wire = "moa"} :
          w' = [w EXCEPT ![main.att + 1].pc = p, ![main.att + 1].lent = l]
    BY DEF StartAttempt
  <2> QED
    BY <2>1
<1>3. main.att \in Nat /\ a \in 0..MaxAttempts /\ a \in Nat
  BY <1>1, ModelCallAssumption DEF MainThread, Attempts
<1>4. w[a] \in Thread /\ ThreadOK(a) /\ w[a].pc = "none" /\ w[a].old = None
      /\ w[a].token = 0 /\ late[a] = 0 /\ a > main.att
  BY <1>1, <1>3 DEF CallInv, ThreadOK, Superseded
<1>5. main' \in MainThread /\ main'.pc = "wait" /\ main'.att = a /\ main'.old = None
  <2>1. main' = [main EXCEPT !.pc = "wait", !.att = main.att + 1]
    BY DEF StartAttempt
  <2> QED
    BY <1>1, <1>3, <2>1 DEF MainThread
<1>6. p \in {"ensure", "refresh"} /\ (p = "refresh" <=> wire = "anthropic") /\ p \in Pcs
  BY DEF Pcs, Preparing, Ensuring
<1> HIDE DEF p
<1>7. (\A b \in Attempts \ {a} : w'[b] = w[b]) /\ w'[a] = [w[a] EXCEPT !.pc = p, !.lent = l]
  BY <1>1, <1>2
<1>8. w'[a] \in Thread /\ w'[a].pc = p /\ w'[a].client = w[a].client /\ w'[a].old = None
      /\ w'[a].fresh = w[a].fresh /\ w'[a].token = 0
  <2>1. w[a] \in Thread /\ p \in Pcs /\ l \in BOOLEAN
        /\ w'[a] = [w[a] EXCEPT !.pc = p, !.lent = l]
    BY <1>4, <1>6, <1>7
  <2>2. w'[a] \in Thread /\ w'[a].pc = p /\ w'[a].client = w[a].client /\ w'[a].old = w[a].old
        /\ w'[a].fresh = w[a].fresh /\ w'[a].token = w[a].token
    BY <2>1 DEF Thread
  <2> QED
    BY <1>4, <2>2
<1>9. w' \in [Attempts -> Thread]
  <2>1. w' = [w EXCEPT ![a] = [w[a] EXCEPT !.pc = p, !.lent = l]]
    BY <1>2
  <2>2. [w[a] EXCEPT !.pc = p, !.lent = l] \in Thread
    BY <1>7, <1>8
  <2> QED
    BY <1>1, <2>1, <2>2
<1>10. SharedOK' /\ Known' = Known
  <2>1. text' \in Seq(Attempts) /\ Known' = Known /\ main'.old \in Known
    BY <1>1, <1>5 DEF SharedOK, StartAttempt, Known
  <2> QED
    BY <1>1, <1>5, <2>1 DEF SharedOK
<1>11. ThreadOK(a)'
  <2>1. ~(a > main'.att) /\ writer' \in Nat /\ w'[a].pc # "none" /\ late'[a] = 0
    BY <1>1, <1>3, <1>4, <1>5, <1>6, <1>8 DEF SharedOK
  <2>2. ~Streaming(a)'
    BY <1>6, <1>8 DEF Streaming
  <2>3. {w'[a].client, w'[a].old} \subseteq Known' /\ w'[a].fresh <= refreshes'
    BY <1>1, <1>4, <1>8, <1>10 DEF ThreadOK, Known
  <2> QED
    BY <1>1, <1>6, <1>8, <2>1, <2>2, <2>3 DEF ThreadOK, Preparing, Ensuring
<1>12. ASSUME NEW b \in Attempts \ {a} PROVE ThreadOK(b)'
  <2>1. ThreadOK(b) /\ w'[b] = w[b] /\ late'[b] = late[b]
    BY <1>1, <1>7 DEF CallInv
  <2>2. b > main'.att <=> b > main.att
    BY <1>3, <1>5 DEF Attempts
  <2>3. Owns(b) => Owns(b)'
    <3>1. \A d \in Attempts : w'[d].old = w[d].old /\ w'[d].client = w[d].client
      BY <1>4, <1>7, <1>8
    <3> QED
      BY <1>1, <1>5, <3>1 DEF Owns
  <2>4. (Superseded(b)' <=> Superseded(b)) /\ (Streaming(b)' <=> Streaming(b))
    BY <1>1, <2>1 DEF Superseded, Streaming
  <2> QED
    BY <1>1, <1>10, <2>1, <2>2, <2>3, <2>4 DEF ThreadOK
<1>13. NoClientLost'
  <2>1. NoClientLost /\ main'.old = main.old /\ UNCHANGED <<wire, client, cl>>
    BY <1>1, <1>5 DEF CallInv
  <2>2. \A b \in Attempts : w'[b].old = w[b].old /\ w'[b].client = w[b].client
                            /\ (Streaming(b) => Streaming(b)')
    BY <1>4, <1>7, <1>8 DEF Streaming
  <2> QED
    BY <2>1, <2>2 DEF NoClientLost
<1>14. \A b \in Attempts : ThreadOK(b)'
  BY <1>11, <1>12
<1> QED
  BY <1>9, <1>10, <1>13, <1>14 DEF CallInv

-------------------------------------------------------------------------------
LEMMA InitCall == ASSUME Init PROVE CallInv
<1>1. PICK st \in {"open", "closed"} : cl = <<[st |-> st, key |-> 0, base |-> 0]>>
  BY DEF Init
<1>2. cl \in Seq(Client) /\ Len(cl) = 1 /\ cl[1].key = 0 /\ cl[1].base = 0
  <2>1. [st |-> st, key |-> 0, base |-> 0] \in Client
    BY DEF Client
  <2> QED
    BY <1>1, <2>1
<1>3. main \in MainThread /\ main.pc = "idle" /\ main.att = 0 /\ main.old = None
  BY ModelCallAssumption DEF Init, MainThread
<1>4. SharedOK
  <2>1. \A c \in 1..Len(cl) : cl[c].key <= refreshes /\ cl[c].base <= refreshes
    BY <1>2 DEF Init
  <2>2. late \in [Attempts -> Nat] /\ text \in Seq(Attempts)
    BY DEF Init
  <2>3. kwargs \in [key : Nat, base : Nat] /\ kwargs.key <= refreshes /\ kwargs.base <= refreshes
    BY DEF Init
  <2> QED
    BY <1>2, <1>3, <2>1, <2>2, <2>3 DEF Init, SharedOK, Known
<1>5. NewThread \in Thread
  BY ModelCallAssumption DEF NewThread, Thread, Pcs
<1>6. ASSUME NEW a \in Attempts PROVE ThreadOK(a)
  <2>1. w[a] = NewThread /\ late[a] = 0 /\ a > main.att
    BY <1>3, ModelCallAssumption DEF Init, Attempts
  <2>2. w[a].pc = "none" /\ w[a].client = None /\ w[a].old = None /\ w[a].token = 0 /\ w[a].fresh = 0
    BY <2>1 DEF NewThread
  <2> QED
    BY <2>1, <2>2 DEF Init, ThreadOK, Known, Preparing, Ensuring, Streaming
<1>7. NoClientLost
  BY <1>2 DEF Init, NoClientLost
<1>8. w \in [Attempts -> Thread]
  BY <1>5 DEF Init
<1> QED
  BY <1>4, <1>6, <1>7, <1>8 DEF CallInv

LEMMA NextCall == ASSUME CallInv, [Next]_vars PROVE CallInv'
<1>1. CASE UNCHANGED vars
  BY <1>1 DEF vars, CallInv, SharedOK, Known, ThreadOK, Streaming, Owns, Superseded, NoClientLost
<1>2. ASSUME NEW a \in Attempts, Ready(a) PROVE CallInv'
  BY <1>2, EnsureKeeps, RecreateKeeps, CloseOldKeeps, RefreshKeeps, RebuildKeeps, RekeyKeeps,
     BuildKeeps, BorrowKeeps
  DEF Ready
<1>3. ASSUME NEW a \in Attempts, Consume(a) PROVE CallInv'
  BY <1>3, ClaimKeeps, ChunkKeeps, DeliverKeeps, NoteKeeps, AppendTextKeeps DEF Consume
<1>4. ASSUME NEW a \in Attempts, Run(a) PROVE CallInv'
  BY <1>2, <1>3, <1>4, ConnectKeeps, StreamEndsKeeps, CloseRequestKeeps DEF Run
<1>5. ASSUME StartAttempt \/ Abort \/ Answered \/ GiveUp PROVE CallInv'
  BY <1>5, StartKeeps, AbortKeeps, AnsweredKeeps
<1>6. ASSUME CloseForSwap \/ SetKey \/ SetBase \/ SwapBuild \/ Replace \/ Make \/ CloseReplaced
      PROVE  CallInv'
  BY <1>6, ClosesKeeps, SetKeyKeeps, SwapBuildKeeps, ReplaceKeeps, MakeKeeps
<1> QED
  BY <1>1, <1>4, <1>5, <1>6 DEF Next

THEOREM InvariantlyCall == Spec => []CallInv
<1> QED
  BY InitCall, NextCall, PTL DEF Spec

\* Only a chunk is counted, and only below the bound.
LEMMA InvariantlyCounted == Spec => [](chunks \in 0..MaxChunks)
<1>1. Init => chunks \in 0..MaxChunks
  BY ModelCallAssumption DEF Init
<1>2. chunks \in 0..MaxChunks /\ [Next]_vars => (chunks \in 0..MaxChunks)'
  <2> SUFFICES ASSUME chunks \in 0..MaxChunks, [Next]_vars
               PROVE  chunks' \in 0..MaxChunks
    OBVIOUS
  <2>1. ASSUME NEW a \in Attempts, Chunk(a) PROVE chunks' \in 0..MaxChunks
    BY <2>1, ModelCallAssumption DEF Chunk
  <2>2. ASSUME NEW a \in Attempts, Ready(a) \/ Connect(a) \/ Reconnect(a) \/ StreamEnds(a) \/ CloseRequest(a)
        PROVE  chunks' = chunks
    BY <2>2 DEF Ready, Ensure, Recreate, CloseOld, Refresh, Rebuild, Rekey, Build, Borrow,
                Connect, Reconnect, StreamEnds, CloseRequest, stream
  <2>3. ASSUME NEW a \in Attempts, Claim(a) \/ Deliver(a) \/ Note(a) \/ AppendText(a)
        PROVE  chunks' = chunks
    BY <2>3 DEF Claim, Deliver, Note, AppendText, stream
  <2>4. CASE StartAttempt \/ Abort \/ Answered \/ GiveUp \/ CloseForSwap \/ SetKey \/ SetBase
             \/ SwapBuild \/ Replace \/ Make \/ CloseReplaced
    BY <2>4 DEF StartAttempt, Abort, Answered, GiveUp, CloseForSwap, SetKey, SetBase, SwapBuild,
                Replace, Make, CloseReplaced, stream
  <2>5. CASE UNCHANGED vars
    BY <2>5 DEF vars
  <2> QED
    BY <2>1, <2>2, <2>3, <2>4, <2>5 DEF Next, Run, Consume
<1> QED
  BY <1>1, <1>2, PTL DEF Spec

(* Types: credentials are ones that were issued, clients ones that were     *)
(* built, and every stream, aborted or not, has one.                        *)
THEOREM TypeCorrect == Spec => []TypeOK
<1>1. ASSUME CallInv, chunks \in 0..MaxChunks PROVE TypeOK
  <2>1. SharedOK /\ main \in MainThread
    BY <1>1 DEF CallInv, SharedOK
  <2>2. ASSUME NEW c \in 1..Len(cl)
        PROVE  /\ cl[c].st \in {"open", "closed"}
               /\ cl[c].key \in 0..refreshes /\ cl[c].base \in 0..refreshes
    <3>1. cl[c] \in Client /\ cl[c].key <= refreshes /\ cl[c].base <= refreshes /\ refreshes \in Nat
      BY <2>1, <2>2 DEF SharedOK
    <3> QED
      BY <3>1 DEF Client
  <2>3. ASSUME NEW a \in Attempts
        PROVE  /\ a > main.att <=> w[a].pc = "none"
               /\ w[a].token \in 0..writer
               /\ w[a].conn \in {"none", "open", "shut"}
               /\ Streaming(a) => w[a].client \in 1..Len(cl)
    <3>1. ThreadOK(a) /\ w[a] \in Thread /\ writer \in Nat
      BY <1>1, <2>1, <2>3 DEF CallInv, SharedOK
    <3> QED
      BY <3>1 DEF ThreadOK, Thread, Known
  <2>4. kwargs.key \in 0..refreshes /\ kwargs.base \in 0..refreshes
    BY <2>1 DEF SharedOK
  <2> QED
    BY <1>1, <2>1, <2>2, <2>3, <2>4 DEF TypeOK, SharedOK, MainThread
<1> QED
  BY <1>1, InvariantlyCall, InvariantlyCounted, PTL

(* The request client of an attempt is never released by another thread:    *)
(* not by the main thread that aborts it and retries or replaces the shared *)
(* client, nor by a credential refresh, nor by another attempt's recovery   *)
(* of the shared client.                                                    *)
THEOREM OwnConnectionAlways == Spec => []OwnConnection
<1>1. ASSUME CallInv PROVE OwnConnection
  BY <1>1 DEF CallInv, ThreadOK, Owns, OwnConnection
<1> QED
  BY <1>1, InvariantlyCall, PTL

(* On OpenAI's wire a client that was built is in use, or remembered by the *)
(* one thread that will close it, or closed, though an abandoned attempt    *)
(* recreates the shared one while the main thread replaces it.              *)
THEOREM NoClientLostEver == Spec => []NoClientLost
<1>1. ASSUME CallInv PROVE NoClientLost
  BY <1>1 DEF CallInv
<1> QED
  BY <1>1, InvariantlyCall, PTL

(* A superseded stream shows at most one chunk: the one it was about to     *)
(* deliver when another stream claimed the sink.                            *)
THEOREM LateAtMostOnceEver == Spec => []LateAtMostOnce
<1>1. ASSUME CallInv PROVE LateAtMostOnce
  BY <1>1 DEF CallInv, ThreadOK, LateAtMostOnce
<1> QED
  BY <1>1, InvariantlyCall, PTL
===============================================================================
