------------------------- MODULE SessionStoreProofs --------------------------
(***************************************************************************)
(* The session store of SessionStore, for every number of messages, of     *)
(* failing appends and of crashes: what is stored stays in order, a mark   *)
(* has its row, and a transcript nothing failed for is stored whole.       *)
(***************************************************************************)
EXTENDS SessionStore, SequenceTheorems, TLAPS

Critical == {"drop", "pop", "log", "flush", "append", "mark"}
Flushing == {"flush", "append", "mark"}
Job == [pc : {"idle", "want", "wantflush"} \cup Critical, pass : 0..3,
        at : Nat \ {0}, withHistory : BOOLEAN]
Known == 1..Len(kind)

\* Messages are listed and stored in the order of their creation.
Sorted(s) ==
  /\ \A i \in 1..Len(s) : i <= s[i]
  /\ \A i, j \in 1..Len(s) : i < j => s[i] < s[j]

Shape ==
  /\ kind \in Seq(Kinds) /\ Created <= MaxMessages
  /\ live \in Seq(Known) /\ Sorted(live)
  /\ rows \in Seq(Known) /\ Sorted(rows)
  /\ log \subseteq Known /\ marked \subseteq Known /\ history \subseteq Known
  /\ bound \in BOOLEAN /\ lock \in Threads \cup {NoThread}
  /\ failures \in 0..MaxFailures /\ crashes \in 0..MaxCrashes

\* A flush has dealt with everything before its position, and the message at
\* hand has no mark yet; the last row is the one that is about to be marked.
\* Only the thread that holds the lock pops, so what it tested non-empty is.
JobOK(th) ==
  /\ lock = th <=> job[th].pc \in Critical
  /\ job[th].pc \notin Flushing => job[th].at = 1
  /\ job[th].pc = "pop" => Len(live) > 0
  /\ job[th].pc = "flush" => job[th].at <= Len(live) + 1
  /\ job[th].pc \in {"append", "mark"} =>
       /\ job[th].at <= Len(live) /\ ~Ephemeral(live[job[th].at])
       /\ live[job[th].at] \notin marked
  /\ job[th].pc \in Flushing =>
       \A i \in 1..Len(live) : i < job[th].at => Ephemeral(live[i]) \/ live[i] \in marked
  /\ job[th].pc = "mark" => rows # <<>> /\ rows[Len(rows)] = live[job[th].at]

\* The list is not yet the agent's (bound) only before a turn's first persist.
PhaseOK ==
  /\ phase \in {"idle", "early", "open", "ended", "failed"}
  /\ phase \in {"idle", "failed"} => job[Turn].pc = "idle"
  /\ phase \in {"early", "ended"} /\ job[Turn].pc # "idle" =>
       job[Turn].withHistory /\ job[Turn].pc # "wantflush"
  /\ phase = "failed" => failures > 0
  /\ ~bound => /\ phase \in {"idle", "early"}
               /\ job[Turn].pc \in {"idle", "want", "drop", "pop", "log"}
               /\ job[Closer].pc = "idle"

\* What is left of the turn's history is what its list begins with.
HistoryOK ==
  /\ \A i, j \in 1..Len(live) : i < j /\ live[j] \in history => live[i] \in history
  /\ marked \cap Range(live) \subseteq Range(rows) \cup history

\* A listed message without a mark comes after every row; the exceptions are
\* the one being marked, and a resumed conversation until its first persist
\* stamps it.
Unsaved(i) == ~Ephemeral(live[i]) /\ live[i] \notin marked
Resumed(i) ==
  \/ \E th \in Threads : job[th].pc = "mark" /\ job[th].at = i
  \/ ~bound /\ phase = "idle"
  \/ live[i] \in history /\ phase = "early" /\ (~bound \/ job[Turn].pc = "flush")
UnsavedOK ==
  \A i \in 1..Len(live) : Unsaved(i) =>
    \/ live[i] \in Range(rows) /\ Resumed(i)
    \/ \A r \in 1..Len(rows) : rows[r] < live[i]

\* While no append has failed a closed turn, and a history, is stored.
KeptOK ==
  failures = 0 =>
    /\ \A m \in history : Ephemeral(m) \/ m \in Range(rows)
    /\ phase = "idle" => \A i \in 1..Len(live) : Ephemeral(live[i]) \/ live[i] \in Range(rows)

JobsOK == job \in [Threads -> Job] /\ \A th \in Threads : JobOK(th)

StoreInv == Shape /\ JobsOK /\ PhaseOK /\ HistoryOK /\ UnsavedOK /\ KeptOK

-------------------------------------------------------------------------------
LEMMA PrefixShape ==
    ASSUME NEW X, NEW s \in Seq(X), NEW n \in 0..Len(s)
    PROVE  /\ SubSeq(s, 1, n) \in Seq(X) /\ Len(SubSeq(s, 1, n)) = n
           /\ \A k \in 1..n : SubSeq(s, 1, n)[k] = s[k]
  OBVIOUS

-------------------------------------------------------------------------------
\* The steps of the conversation loop.

LEMMA ExtendedShape ==
    ASSUME StoreInv, NEW k \in Kinds, Append1(k)
    PROVE  /\ kind' \in Seq(Kinds) /\ Created' <= MaxMessages /\ Known \subseteq Known'
           /\ Len(kind') = Len(kind) + 1 /\ kind'[Len(kind) + 1] = k
           /\ \A m \in Known : kind'[m] = kind[m] /\ (Ephemeral(m)' <=> Ephemeral(m))
           /\ live' \in Seq(Known') /\ Sorted(live') /\ Len(live') = Len(live) + 1
           /\ \A i \in 1..Len(live) : live'[i] = live[i] /\ live[i] \in Known
           /\ live'[Len(live) + 1] = Len(kind) + 1 /\ Len(live) \in Nat /\ Len(kind) \in Nat
           /\ rows \in Seq(Known') /\ \A r \in 1..Len(rows) : rows[r] \in Known
           /\ Range(rows) \subseteq Known /\ Len(rows) \in Nat
           /\ Range(live') = Range(live) \cup {Len(kind) + 1}
<1>1. /\ kind \in Seq(Kinds) /\ Created < MaxMessages /\ live \in Seq(Known) /\ Sorted(live)
      /\ rows \in Seq(Known) /\ MaxMessages \in Nat
      /\ kind' = Append(kind, k) /\ live' = Append(live, Len(kind) + 1)
  BY StoreAssumption DEF StoreInv, Shape, Append1, Created
<1>2. /\ kind' \in Seq(Kinds) /\ Len(kind') = Len(kind) + 1 /\ kind'[Len(kind) + 1] = k
      /\ \A m \in Known : kind'[m] = kind[m] /\ (Ephemeral(m)' <=> Ephemeral(m))
      /\ Known \subseteq Known' /\ Len(kind) \in Nat /\ Created' <= MaxMessages
  BY <1>1 DEF Known, Ephemeral, Created
<1>3. /\ Len(kind) + 1 \in Known' /\ live \in Seq(Known') /\ rows \in Seq(Known')
  BY <1>1, <1>2 DEF Known
<1>4. /\ live' \in Seq(Known') /\ Len(live') = Len(live) + 1 /\ Len(live) \in Nat
      /\ \A i \in 1..Len(live) : live'[i] = live[i] /\ live[i] \in Known
      /\ live'[Len(live) + 1] = Len(kind) + 1
  BY <1>1, <1>3
<1>5. Sorted(live')
  <2>1. Len(live) <= Len(kind)
    <3>1. CASE Len(live) = 0
      BY <3>1, <1>2
    <3>2. CASE Len(live) # 0
      <4>1. Len(live) \in 1..Len(live)
        BY <3>2, <1>4
      <4>2. Len(live) <= live[Len(live)] /\ live[Len(live)] \in 1..Len(kind)
        BY <4>1, <1>1, <1>4 DEF Sorted, Known
      <4> QED BY <4>1, <4>2, <1>2
    <3> QED BY <3>1, <3>2
  <2>2. ASSUME NEW i \in 1..Len(live') PROVE i <= live'[i]
    BY <1>1, <1>2, <1>4, <2>1 DEF Sorted
  <2>3. ASSUME NEW i \in 1..Len(live'), NEW j \in 1..Len(live'), i < j
        PROVE  live'[i] < live'[j]
    <3>1. i \in 1..Len(live) /\ live'[i] = live[i] /\ live[i] \in Known
      BY <2>3, <1>4
    <3>2. CASE j = Len(live) + 1
      BY <3>1, <3>2, <1>2, <1>4 DEF Known
    <3>3. CASE j # Len(live) + 1
      <4>1. j \in 1..Len(live) /\ live'[j] = live[j]
        BY <3>3, <1>4
      <4> QED BY <1>1, <2>3, <3>1, <4>1 DEF Sorted
    <3> QED BY <3>2, <3>3
  <2> QED BY <2>2, <2>3 DEF Sorted
<1>6. /\ \A r \in 1..Len(rows) : rows[r] \in Known
      /\ Range(rows) \subseteq Known /\ Len(rows) \in Nat
  BY <1>1 DEF Range
<1>7. Range(live') = Range(live) \cup {Len(kind) + 1}
  <2>1. DOMAIN live = 1..Len(live) /\ DOMAIN live' = 1..(Len(live) + 1)
    BY <1>1, <1>4
  <2> QED BY <2>1, <1>4 DEF Range
<1> QED BY <1>2, <1>3, <1>4, <1>5, <1>6, <1>7

LEMMA TurnBeginInv ==
    ASSUME StoreInv, TurnBegin
    PROVE  StoreInv'
<1> USE StoreAssumption
<1>1. Append1("user") /\ "user" \in Kinds
  <2>1. "user" \in Kinds
    BY DEF Kinds
  <2> QED BY <2>1 DEF TurnBegin
<1>2. /\ kind' \in Seq(Kinds) /\ Created' <= MaxMessages /\ Known \subseteq Known'
      /\ Len(kind') = Len(kind) + 1 /\ kind'[Len(kind) + 1] = "user"
      /\ \A m \in Known : kind'[m] = kind[m] /\ (Ephemeral(m)' <=> Ephemeral(m))
      /\ live' \in Seq(Known') /\ Sorted(live') /\ Len(live') = Len(live) + 1
      /\ \A i \in 1..Len(live) : live'[i] = live[i] /\ live[i] \in Known
      /\ live'[Len(live) + 1] = Len(kind) + 1 /\ Len(live) \in Nat /\ Len(kind) \in Nat
      /\ rows \in Seq(Known') /\ \A r \in 1..Len(rows) : rows[r] \in Known
      /\ Range(rows) \subseteq Known /\ Len(rows) \in Nat
      /\ Range(live') = Range(live) \cup {Len(kind) + 1}
  BY <1>1, ExtendedShape
<1>3. /\ UNCHANGED <<marked, bound, rows, log, lock, job, failures, crashes>>
      /\ phase = "idle" /\ phase' = "early" /\ history' = Range(live)
  BY DEF TurnBegin
<1>4. Range(live) = {live[i] : i \in 1..Len(live)} /\ Len(kind) + 1 \notin Range(live)
  BY <1>2 DEF StoreInv, Shape, Range, Known
<1>5. Shape'
  BY <1>2, <1>3, <1>4 DEF StoreInv, Shape, Sorted
<1>6. JobsOK'
  <2>1. job' \in [Threads -> Job]
    BY <1>3 DEF StoreInv, JobsOK
  <2>2. ASSUME NEW th \in Threads PROVE JobOK(th)'
    <3>1. JobOK(th) /\ job[th].at \in Nat \ {0}
      BY DEF StoreInv, JobsOK, Job
    <3>2. ASSUME NEW i \in 1..Len(live'), i < job[th].at, job[th].pc \in Flushing
          PROVE  (Ephemeral(live[i]) \/ live[i] \in marked)'
      <4>1. i \in 1..Len(live)
        BY <1>2, <3>1, <3>2 DEF JobOK, Flushing
      <4>2. live'[i] = live[i] /\ live[i] \in Known /\ marked' = marked
        BY <4>1, <1>2, <1>3
      <4>3. Ephemeral(live[i])' <=> Ephemeral(live[i])
        BY <4>2, <1>2 DEF Ephemeral
      <4> QED BY <4>1, <4>2, <4>3, <3>1, <3>2 DEF JobOK
    <3>3. job[th].pc \in {"append", "mark"} =>
            /\ job[th].at <= Len(live') /\ live'[job[th].at] = live[job[th].at]
            /\ ~Ephemeral(live[job[th].at])'
      <4>1. SUFFICES ASSUME job[th].pc \in {"append", "mark"}
                     PROVE  /\ job[th].at <= Len(live')
                            /\ live'[job[th].at] = live[job[th].at]
                            /\ ~Ephemeral(live[job[th].at])'
        OBVIOUS
      <4>2. job[th].at \in 1..Len(live) /\ ~Ephemeral(live[job[th].at]) /\ job'[th] = job[th]
        BY <1>2, <1>3, <3>1, <4>1 DEF JobOK
      <4> QED BY <1>2, <4>2 DEF Ephemeral
    <3>4. job[th].pc = "flush" => job[th].at <= Len(live') + 1
      BY <1>2, <3>1 DEF JobOK, Flushing
    <3>5. job[th].pc = "pop" => Len(live') > 0
      BY <1>2, <3>1 DEF JobOK
    <3> QED BY <1>3, <3>1, <3>2, <3>3, <3>4, <3>5 DEF JobOK
  <2> QED BY <2>1, <2>2 DEF JobsOK
<1>7. PhaseOK'
  BY <1>3 DEF StoreInv, PhaseOK
<1>8. HistoryOK'
  <2>1. marked' \cap Range(live') \subseteq Range(rows') \cup history'
    <3>1. marked \subseteq Known /\ Len(kind) + 1 \notin Known
      BY <1>2 DEF StoreInv, Shape, Known
    <3> QED BY <1>2, <1>3, <3>1
  <2>2. ASSUME NEW i \in 1..Len(live'), NEW j \in 1..Len(live'), i < j, live'[j] \in history'
        PROVE  live'[i] \in history'
    <3>1. j # Len(live) + 1
      BY <1>2, <1>3, <1>4, <2>2
    <3>2. i \in 1..Len(live)
      <4>1. Len(live') = Len(live) + 1 /\ Len(live) \in Nat
        BY <1>2
      <4> QED BY <4>1, <2>2, <3>1
    <3> QED BY <1>2, <1>3, <1>4, <3>2
  <2> QED BY <2>1, <2>2 DEF HistoryOK
<1>9. UnsavedOK'
  <2>1. ASSUME NEW i \in 1..Len(live'), Unsaved(i)'
        PROVE  \/ live'[i] \in Range(rows') /\ Resumed(i)'
               \/ \A r \in 1..Len(rows') : rows'[r] < live'[i]
    <3>1. CASE i = Len(live) + 1
      <4>1. live'[i] = Len(kind) + 1 /\ Known = 1..Len(kind) /\ rows' = rows
        BY <1>2, <1>3, <3>1 DEF Known
      <4>2. \A r \in 1..Len(rows) : rows[r] \in Known
        BY <1>2
      <4> QED BY <1>2, <4>1, <4>2
    <3>2. CASE i \in 1..Len(live)
      <4>1. live'[i] = live[i] /\ Unsaved(i) /\ live[i] \in history'
        BY <1>2, <1>3, <1>4, <2>1, <3>2 DEF Unsaved
      <4>2. Resumed(i) => Resumed(i)'
        BY <1>3, <4>1 DEF Resumed
      <4> QED BY <1>3, <3>2, <4>1, <4>2 DEF StoreInv, UnsavedOK
    <3> QED BY <1>2, <3>1, <3>2
  <2> QED BY <2>1 DEF UnsavedOK
<1>10. KeptOK'
  BY <1>2, <1>3, <1>4 DEF StoreInv, KeptOK
<1> QED BY <1>5, <1>6, <1>7, <1>8, <1>9, <1>10 DEF StoreInv

LEMMA ExtendInv ==
    ASSUME StoreInv, Extend
    PROVE  StoreInv'
<1> USE StoreAssumption
<1>1. PICK k \in Kinds :
        /\ Append1(k)
        /\ job' = [job EXCEPT ![Turn].pc = IF k = "tool" THEN "wantflush" ELSE "idle"]
        /\ phase' = IF k \in {"answer", "sentinel"} THEN "ended" ELSE "open"
  BY DEF Extend, Follows, Kinds
<1>2. /\ kind' \in Seq(Kinds) /\ Created' <= MaxMessages /\ Known \subseteq Known'
      /\ Len(kind') = Len(kind) + 1 /\ kind'[Len(kind) + 1] = k
      /\ \A m \in Known : kind'[m] = kind[m] /\ (Ephemeral(m)' <=> Ephemeral(m))
      /\ live' \in Seq(Known') /\ Sorted(live') /\ Len(live') = Len(live) + 1
      /\ \A i \in 1..Len(live) : live'[i] = live[i] /\ live[i] \in Known
      /\ live'[Len(live) + 1] = Len(kind) + 1 /\ Len(live) \in Nat /\ Len(kind) \in Nat
      /\ rows \in Seq(Known') /\ \A r \in 1..Len(rows) : rows[r] \in Known
      /\ Range(rows) \subseteq Known /\ Len(rows) \in Nat
      /\ Range(live') = Range(live) \cup {Len(kind) + 1}
  BY <1>1, ExtendedShape
<1>3. /\ UNCHANGED <<marked, history, bound, rows, log, lock, failures, crashes>>
      /\ phase = "open" /\ phase' \in {"open", "ended"} /\ bound /\ job[Turn].pc = "idle"
  BY <1>1 DEF Extend, StoreInv, PhaseOK, Shape
<1>4. /\ job' \in [Threads -> Job] /\ job'[Closer] = job[Closer]
      /\ job'[Turn].pc \in {"idle", "wantflush"} /\ job'[Turn].at = job[Turn].at
      /\ phase' = "ended" => job'[Turn].pc = "idle"
  <2>1. job \in [Threads -> Job] /\ Turn \in Threads /\ Closer \in Threads
    BY DEF StoreInv, JobsOK, Threads
  <2>2. ASSUME NEW p \in {"idle", "wantflush"}, job' = [job EXCEPT ![Turn].pc = p]
        PROVE  /\ job' \in [Threads -> Job] /\ job'[Closer] = job[Closer]
               /\ job'[Turn].pc = p /\ job'[Turn].at = job[Turn].at
    BY <2>1, <2>2 DEF Job
  <2> QED BY <1>1, <2>2
<1>5. Shape'
  BY <1>2, <1>3 DEF StoreInv, Shape, Sorted
<1>6. JobsOK'
  <2>1. JobOK(Turn)'
    BY <1>3, <1>4 DEF StoreInv, JobsOK, JobOK, Threads, Critical, Flushing
  <2>2. JobOK(Closer)'
    <3>1. JobOK(Closer) /\ job[Closer].at \in Nat \ {0}
      BY DEF StoreInv, JobsOK, Threads, Job
    <3>2. ASSUME NEW i \in 1..Len(live'), i < job[Closer].at, job[Closer].pc \in Flushing
          PROVE  (Ephemeral(live[i]) \/ live[i] \in marked)'
      <4>1. i \in 1..Len(live)
        BY <1>2, <3>1, <3>2 DEF JobOK, Flushing
      <4>2. live'[i] = live[i] /\ live[i] \in Known /\ marked' = marked
        BY <4>1, <1>2, <1>3
      <4>3. Ephemeral(live[i])' <=> Ephemeral(live[i])
        BY <4>2, <1>2 DEF Ephemeral
      <4> QED BY <4>1, <4>2, <4>3, <3>1, <3>2 DEF JobOK
    <3>3. job[Closer].pc \in {"append", "mark"} =>
            /\ job[Closer].at <= Len(live') /\ live'[job[Closer].at] = live[job[Closer].at]
            /\ ~Ephemeral(live[job[Closer].at])'
      <4>1. SUFFICES ASSUME job[Closer].pc \in {"append", "mark"}
                     PROVE  /\ job[Closer].at <= Len(live')
                            /\ live'[job[Closer].at] = live[job[Closer].at]
                            /\ ~Ephemeral(live[job[Closer].at])'
        OBVIOUS
      <4>2. /\ job[Closer].at \in 1..Len(live) /\ job'[Closer] = job[Closer]
            /\ ~Ephemeral(live[job[Closer].at])
        BY <1>2, <1>4, <3>1, <4>1 DEF JobOK
      <4> QED BY <1>2, <4>2 DEF Ephemeral
    <3>4. job[Closer].pc = "flush" => job[Closer].at <= Len(live') + 1
      BY <1>2, <3>1 DEF JobOK, Flushing
    <3>5. job[Closer].pc = "pop" => Len(live') > 0
      BY <1>2, <3>1 DEF JobOK
    <3> QED BY <1>3, <1>4, <3>1, <3>2, <3>3, <3>4, <3>5 DEF JobOK
  <2> QED BY <1>4, <2>1, <2>2 DEF JobsOK, Threads
<1>7. PhaseOK'
  BY <1>3, <1>4 DEF StoreInv, PhaseOK
<1>8. HistoryOK'
  <2>1. marked' \cap Range(live') \subseteq Range(rows') \cup history'
        /\ history \subseteq Known
    <3>1. marked \subseteq Known /\ history \subseteq Known /\ Len(kind) + 1 \notin Known
      BY <1>2 DEF StoreInv, Shape, Known
    <3> QED BY <1>2, <1>3, <3>1 DEF StoreInv, HistoryOK
  <2>2. ASSUME NEW i \in 1..Len(live'), NEW j \in 1..Len(live'), i < j, live'[j] \in history'
        PROVE  live'[i] \in history'
    <3>1. j # Len(live) + 1
      BY <1>2, <1>3, <2>1, <2>2 DEF Known
    <3>2. i \in 1..Len(live) /\ j \in 1..Len(live)
      <4>1. Len(live') = Len(live) + 1 /\ Len(live) \in Nat
        BY <1>2
      <4> QED BY <4>1, <2>2, <3>1
    <3> QED BY <1>2, <1>3, <2>2, <3>2 DEF StoreInv, HistoryOK
  <2> QED BY <2>1, <2>2 DEF HistoryOK
<1>9. UnsavedOK'
  <2>1. ASSUME NEW i \in 1..Len(live'), Unsaved(i)'
        PROVE  \/ live'[i] \in Range(rows') /\ Resumed(i)'
               \/ \A r \in 1..Len(rows') : rows'[r] < live'[i]
    <3>1. CASE i = Len(live) + 1
      <4>1. live'[i] = Len(kind) + 1 /\ Known = 1..Len(kind) /\ rows' = rows
        BY <1>2, <1>3, <3>1 DEF Known
      <4>2. \A r \in 1..Len(rows) : rows[r] \in Known
        BY <1>2
      <4> QED BY <1>2, <4>1, <4>2
    <3>2. CASE i \in 1..Len(live)
      <4>1. live'[i] = live[i] /\ Unsaved(i)
        BY <1>2, <1>3, <2>1, <3>2 DEF Unsaved
      <4>2. Resumed(i) => Resumed(i)'
        <5>1. \A th \in Threads : th = Turn \/ th = Closer
          BY DEF Threads
        <5>2. ~Resumed(i) \/ \E th \in Threads : job[th].pc = "mark" /\ job[th].at = i
          BY <1>3 DEF Resumed
        <5>3. (\E th \in Threads : job[th].pc = "mark" /\ job[th].at = i)
              => job'[Closer].pc = "mark" /\ job'[Closer].at = i /\ Closer \in Threads
          BY <1>3, <1>4, <5>1
        <5> QED BY <5>2, <5>3 DEF Resumed
      <4> QED BY <1>3, <3>2, <4>1, <4>2 DEF StoreInv, UnsavedOK
    <3> QED BY <1>2, <3>1, <3>2
  <2> QED BY <2>1 DEF UnsavedOK
<1>10. KeptOK'
  <2>1. history \subseteq Known
    BY DEF StoreInv, Shape
  <2> QED BY <1>2, <1>3, <2>1 DEF StoreInv, KeptOK
<1> QED BY <1>5, <1>6, <1>7, <1>8, <1>9, <1>10 DEF StoreInv

-------------------------------------------------------------------------------
\* The steps of a persist, of the turn's thread or the closing one.

\* The thread's job is now p, a, w and no other thread's has changed.
Moves(th, p, a, w) ==
  /\ job' \in [Threads -> Job] /\ \A u \in Threads \ {th} : job'[u] = job[u]
  /\ job'[th].pc = p /\ job'[th].at = a /\ job'[th].withHistory = w

LEMMA PcMoves ==
    ASSUME StoreInv, NEW th \in Threads,
           NEW p \in {"want", "wantflush", "drop", "pop", "log", "flush", "append", "mark"},
           job' = [job EXCEPT ![th].pc = p]
    PROVE  Moves(th, p, job[th].at, job[th].withHistory)
  BY DEF StoreInv, JobsOK, Job, Critical, Moves

LEMMA AtMoves ==
    ASSUME StoreInv, NEW th \in Threads, NEW p \in {"drop", "flush"}, NEW a \in Nat \ {0},
           job' = [job EXCEPT ![th].pc = p, ![th].at = a]
    PROVE  Moves(th, p, a, job[th].withHistory)
  BY DEF StoreInv, JobsOK, Job, Critical, Moves

LEMMA JobMoves ==
    ASSUME StoreInv, NEW th \in Threads, NEW p \in {"idle", "want"}, NEW w \in BOOLEAN,
           job' = [job EXCEPT ![th] = [pc |-> p, pass |-> 0, at |-> 1, withHistory |-> w]]
    PROVE  Moves(th, p, 1, w)
  BY DEF StoreInv, JobsOK, Job, Critical, Moves

LEMMA Threads2 ==
    /\ Turn \in Threads /\ Closer \in Threads /\ Turn # Closer /\ NoThread \notin Threads
    /\ \A th \in Threads : th = Turn \/ th = Closer
  BY StoreAssumption DEF Threads

\* Who is in the critical part holds the lock, alone; a flush has a bound list.
LEMMA Alone ==
    ASSUME StoreInv, NEW th \in Threads, job[th].pc \in Critical
    PROVE  /\ lock = th /\ \A u \in Threads : u # th => job[u].pc \notin Critical
           /\ job[th].pc \in Flushing => bound
           /\ JobOK(th) /\ job[th] \in Job /\ job[th].at \in Nat \ {0}
           /\ Len(live) \in Nat /\ Len(rows) \in Nat
<1>1. \A u \in Threads : JobOK(u) /\ job[u] \in Job /\ job[u].at \in Nat \ {0}
  BY DEF StoreInv, JobsOK, Job
<1>2. lock = th /\ \A u \in Threads : u # th => job[u].pc \notin Critical
  BY <1>1 DEF JobOK
<1>3. job[th].pc \in Flushing => bound
  BY Threads2 DEF StoreInv, PhaseOK, Flushing
<1> QED BY <1>1, <1>2, <1>3 DEF StoreInv, Shape

\* While a message is about to be appended or marked, every other listed one
\* without a mark comes after the rows.
LEMMA NotResumed ==
    ASSUME StoreInv, NEW th \in Threads, job[th].pc \in {"append", "mark"}, NEW i, Resumed(i)
    PROVE  job[th].pc = "mark" /\ i = job[th].at
<1>1. /\ \A u \in Threads : u # th => job[u].pc \notin Critical
      /\ bound
  BY Alone DEF Critical, Flushing
<1> QED BY <1>1, Threads2 DEF Resumed, Critical

\* A step that changes jobs and the lock only.
LEMMA SameStore ==
    ASSUME StoreInv, UNCHANGED <<live, kind, marked, history, rows, log>>
    PROVE  /\ \A i : (Unsaved(i)' <=> Unsaved(i)) /\ (Ephemeral(i)' <=> Ephemeral(i))
           /\ HistoryOK'
  BY DEF StoreInv, HistoryOK, Unsaved, Ephemeral

LEMMA TurnPersistsInv ==
    ASSUME StoreInv, TurnPersists
    PROVE  StoreInv'
<1>1. Moves(Turn, "want", 1, TRUE)
  BY JobMoves, Threads2 DEF TurnPersists
<1>2. /\ UNCHANGED <<live, kind, marked, history, bound, rows, log, lock, phase, failures, crashes>>
      /\ phase \in {"early", "ended"} /\ job[Turn].pc = "idle"
  BY DEF TurnPersists
<1>3. Shape' /\ KeptOK'
  BY <1>2 DEF StoreInv, Shape, KeptOK, Sorted, Ephemeral, Known, Created
<1>4. JobsOK'
  BY <1>1, <1>2, Threads2 DEF StoreInv, JobsOK, JobOK, Moves, Critical, Flushing, Ephemeral
<1>5. PhaseOK'
  BY <1>1, <1>2, Threads2 DEF StoreInv, PhaseOK, Moves
<1>6. UnsavedOK'
  BY <1>1, <1>2, Threads2 DEF StoreInv, UnsavedOK, Unsaved, Resumed, Ephemeral, Moves
<1> QED BY <1>2, <1>3, <1>4, <1>5, <1>6, SameStore DEF StoreInv

LEMMA CloserPersistsInv ==
    ASSUME StoreInv, CloserPersists
    PROVE  StoreInv'
<1>1. Moves(Closer, "want", 1, FALSE)
  BY JobMoves, Threads2 DEF CloserPersists
<1>2. /\ UNCHANGED <<live, kind, marked, history, bound, rows, log, lock, phase, failures, crashes>>
      /\ bound /\ job[Closer].pc = "idle"
  BY DEF CloserPersists
<1>3. Shape' /\ KeptOK'
  BY <1>2 DEF StoreInv, Shape, KeptOK, Sorted, Ephemeral, Known, Created
<1>4. JobsOK'
  BY <1>1, <1>2, Threads2 DEF StoreInv, JobsOK, JobOK, Moves, Critical, Flushing, Ephemeral
<1>5. PhaseOK'
  BY <1>1, <1>2, Threads2 DEF StoreInv, PhaseOK, Moves
<1>6. UnsavedOK'
  BY <1>1, <1>2, Threads2 DEF StoreInv, UnsavedOK, Unsaved, Resumed, Ephemeral, Moves
<1> QED BY <1>2, <1>3, <1>4, <1>5, <1>6, SameStore DEF StoreInv

LEMMA TurnOverInv ==
    ASSUME StoreInv, TurnOver
    PROVE  StoreInv'
<1>1. /\ UNCHANGED <<live, kind, marked, history, bound, rows, log, lock, job, failures, crashes>>
      /\ phase = "failed" /\ phase' = "idle" /\ failures > 0 /\ job[Turn].pc = "idle" /\ bound
  BY DEF TurnOver, StoreInv, PhaseOK, Shape
<1>2. Shape' /\ KeptOK'
  BY <1>1 DEF StoreInv, Shape, KeptOK, Sorted, Ephemeral, Known, Created
<1>3. JobsOK'
  BY <1>1 DEF StoreInv, JobsOK, JobOK, Ephemeral
<1>4. PhaseOK'
  BY <1>1 DEF StoreInv, PhaseOK
<1>5. UnsavedOK'
  BY <1>1 DEF StoreInv, UnsavedOK, Unsaved, Resumed, Ephemeral
<1> QED BY <1>1, <1>2, <1>3, <1>4, <1>5, SameStore DEF StoreInv

LEMMA CrashInv ==
    ASSUME StoreInv, Crash
    PROVE  StoreInv'
<1>1. /\ live' = rows /\ marked' = {} /\ history' = {} /\ bound' = FALSE /\ lock' = NoThread
      /\ job' = [th \in Threads |-> Idle] /\ phase' = "idle"
      /\ UNCHANGED <<kind, rows, log, failures>> /\ crashes' = crashes + 1 /\ crashes < MaxCrashes
  BY DEF Crash
<1>2. Shape'
  <2>1. Shape /\ crashes' \in 0..MaxCrashes
    BY <1>1, StoreAssumption DEF StoreInv, Shape
  <2> QED BY <1>1, <2>1 DEF Shape, Sorted, Known, Created
<1>3. \A th \in Threads : job'[th].pc = "idle" /\ job'[th].at = 1
  BY <1>1 DEF Idle
<1>4. JobsOK'
  <2>1. job' \in [Threads -> Job]
    BY <1>1 DEF Idle, Job
  <2>2. \A th \in Threads : JobOK(th)'
    BY <1>1, <1>3, Threads2 DEF JobOK, Critical, Flushing
  <2> QED BY <2>1, <2>2 DEF JobsOK
<1>5. PhaseOK'
  BY <1>1, <1>3, Threads2 DEF PhaseOK
<1>6. HistoryOK' /\ KeptOK'
  BY <1>1 DEF HistoryOK, KeptOK, StoreInv, Shape, Range
<1>7. UnsavedOK'
  BY <1>1 DEF UnsavedOK, Resumed, StoreInv, Shape, Range
<1> QED BY <1>2, <1>4, <1>5, <1>6, <1>7 DEF StoreInv

LEMMA AcquireInv ==
    ASSUME StoreInv, NEW th \in Threads, Acquire(th)
    PROVE  StoreInv'
<1>1. /\ UNCHANGED <<live, kind, marked, history, bound, rows, log, phase, failures, crashes>>
      /\ job[th].pc \in {"want", "wantflush"} /\ lock = NoThread /\ lock' = th
      /\ Shape /\ JobOK(th) /\ \A u \in Threads : JobOK(u) /\ job[u].pc \notin Critical
  <2>1. \A u \in Threads : JobOK(u)
    BY DEF StoreInv, JobsOK
  <2> QED BY <2>1, Threads2 DEF Acquire, StoreInv, JobOK
<1>2. PICK p \in {"drop", "flush"} :
        /\ Moves(th, p, 1, job[th].withHistory)
        /\ p = IF job[th].pc = "want" THEN "drop" ELSE "flush"
  <2>1. job \in [Threads -> Job]
    BY DEF StoreInv, JobsOK
  <2>2. /\ job[th].pc = "want" => job' = [job EXCEPT ![th].pc = "drop"]
        /\ job[th].pc = "wantflush" => job' = [job EXCEPT ![th].pc = "flush"]
    BY <1>1, <2>1 DEF Acquire, Job
  <2>3. job[th].at = 1
    BY <1>1 DEF JobOK, Flushing
  <2> QED BY <1>1, <2>2, <2>3, PcMoves
<1>3. Shape' /\ KeptOK'
  BY <1>1 DEF StoreInv, Shape, KeptOK, Sorted, Ephemeral, Known, Created
<1>4. JobsOK'
  <2>1. JobOK(th)'
    BY <1>1, <1>2 DEF Shape, JobOK, Moves, Critical, Flushing
  <2>2. ASSUME NEW u \in Threads, u # th PROVE JobOK(u)'
    <3>1. job'[u] = job[u] /\ JobOK(u) /\ job[u].pc \notin Critical
      BY <1>1, <1>2, <2>2 DEF Moves
    <3> QED BY <1>1, <2>2, <3>1 DEF JobOK, Critical, Flushing
  <2> QED BY <1>2, <2>1, <2>2 DEF JobsOK, Moves
<1>5. PhaseOK'
  BY <1>1, <1>2, Threads2 DEF StoreInv, PhaseOK, Moves
<1>6. UnsavedOK'
  BY <1>1, <1>2, Threads2 DEF StoreInv, UnsavedOK, Unsaved, Resumed, Ephemeral, Moves, Critical
<1> QED BY <1>1, <1>3, <1>4, <1>5, <1>6, SameStore DEF StoreInv

\* Of the last message only its being there is known when it is popped.
LEMMA DropTestInv ==
    ASSUME StoreInv, NEW th \in Threads, DropTest(th)
    PROVE  StoreInv'
<1>1. /\ UNCHANGED <<live, kind, marked, history, bound, rows, log, lock, phase, failures, crashes>>
      /\ job[th].pc = "drop"
  BY DEF DropTest
<1>2. PICK p \in {"drop", "pop", "log"} :
        /\ Moves(th, p, job[th].at, job[th].withHistory)
        /\ p = "pop" => Len(live) > 0
  <2>1. job \in [Threads -> Job] /\ live \in Seq(Known) /\ Len(live) \in Nat
    BY DEF StoreInv, JobsOK, Shape
  <2>2. CASE live # <<>> /\ kind[Last(live)] \in Dropped(job[th].pass)
    <3>1. job' = [job EXCEPT ![th].pc = "pop"]
      BY <2>2 DEF DropTest
    <3>2. Len(live) > 0
      BY <2>1, <2>2
    <3>3. Moves(th, "pop", job[th].at, job[th].withHistory)
      BY <3>1, PcMoves
    <3> QED BY <3>2, <3>3
  <2>3. CASE ~(live # <<>> /\ kind[Last(live)] \in Dropped(job[th].pass)) /\ job[th].pass \in {1, 2}
    <3>1. job' = [job EXCEPT ![th].pass = job[th].pass + 1]
      BY <2>3 DEF DropTest
    <3>2. Moves(th, "drop", job[th].at, job[th].withHistory)
      BY <1>1, <2>1, <2>3, <3>1 DEF Moves, Job
    <3> QED BY <3>2
  <2>4. CASE ~(live # <<>> /\ kind[Last(live)] \in Dropped(job[th].pass)) /\ job[th].pass \notin {1, 2}
    <3>1. job' = [job EXCEPT ![th].pc = "log"]
      BY <2>4 DEF DropTest
    <3>2. Moves(th, "log", job[th].at, job[th].withHistory)
      BY <3>1, PcMoves
    <3> QED BY <3>2
  <2> QED BY <2>2, <2>3, <2>4
<1>3. /\ lock = th /\ \A u \in Threads : u # th => job[u].pc \notin Critical
      /\ JobOK(th) /\ job[th].at = 1
  BY <1>1, Alone DEF Critical, Flushing, JobOK
<1>4. Shape' /\ KeptOK'
  BY <1>1 DEF StoreInv, Shape, KeptOK, Sorted, Ephemeral, Known, Created
<1>5. JobsOK'
  <2>1. JobOK(th)'
    BY <1>1, <1>2, <1>3 DEF JobOK, Moves, Critical, Flushing
  <2>2. ASSUME NEW u \in Threads, u # th PROVE JobOK(u)'
    <3>1. job'[u] = job[u] /\ JobOK(u) /\ job[u].pc \notin Critical
      BY <1>2, <1>3, <2>2 DEF StoreInv, JobsOK, Moves
    <3> QED BY <1>1, <1>3, <3>1 DEF JobOK, Critical, Flushing
  <2> QED BY <1>2, <2>1, <2>2 DEF JobsOK, Moves
<1>6. PhaseOK'
  BY <1>1, <1>2, Threads2 DEF StoreInv, PhaseOK, Moves
<1>7. UnsavedOK'
  BY <1>1, <1>2, Threads2 DEF StoreInv, UnsavedOK, Unsaved, Resumed, Ephemeral, Moves, Critical
<1> QED BY <1>1, <1>4, <1>5, <1>6, <1>7, SameStore DEF StoreInv

\* A pop takes the last message, whichever it has become since the test.
LEMMA DropPopInv ==
    ASSUME StoreInv, NEW th \in Threads, DropPop(th)
    PROVE  StoreInv'
<1>1. /\ UNCHANGED <<kind, marked, history, bound, rows, log, lock, phase, failures, crashes>>
      /\ job[th].pc = "pop" /\ live' = Front(live)
  BY DEF DropPop
<1>2. PICK p \in {"drop", "log"} : Moves(th, p, job[th].at, job[th].withHistory)
  <2>1. job \in [Threads -> Job]
    BY DEF StoreInv, JobsOK
  <2>2. CASE job[th].pass = 3
    <3>1. job' = [job EXCEPT ![th].pc = "log"]
      BY <2>2 DEF DropPop
    <3> QED BY <3>1, PcMoves
  <2>3. CASE job[th].pass # 3
    <3>1. PICK q \in 0..3 : job' = [job EXCEPT ![th].pc = "drop", ![th].pass = q]
      <4>1. job[th].pass \in 0..3
        BY <2>1 DEF Job
      <4>2. CASE job[th].pass = 0
        BY <2>1, <2>3, <4>2 DEF DropPop, Job
      <4>3. CASE job[th].pass # 0
        BY <2>1, <2>3, <4>1, <4>3 DEF DropPop, Job
      <4> QED BY <4>2, <4>3
    <3> QED BY <2>1, <3>1 DEF Moves, Job, Critical
  <2> QED BY <2>2, <2>3
<1>3. /\ lock = th /\ \A u \in Threads : u # th => job[u].pc \notin Critical /\ job'[u] = job[u]
      /\ JobOK(th) /\ job[th].at = 1 /\ Len(live) \in Nat /\ Len(live) > 0
  BY <1>1, <1>2, Alone DEF Critical, Flushing, JobOK, Moves
<1>4. PICK n \in 0..Len(live) : n = Len(live) - 1 /\ live' = SubSeq(live, 1, n)
  BY <1>1, <1>3 DEF Front
<1>5. /\ live' \in Seq(Known) /\ Len(live') = n /\ n \in Nat
      /\ \A k \in 1..n : k \in 1..Len(live) /\ live'[k] = live[k]
      /\ Range(live') \subseteq Range(live)
  <2>1. /\ live' \in Seq(Known) /\ Len(live') = n /\ n \in Nat
        /\ \A k \in 1..n : k \in 1..Len(live) /\ live'[k] = live[k]
    BY <1>3, <1>4, PrefixShape DEF StoreInv, Shape
  <2> QED BY <2>1 DEF Range, StoreInv, Shape
<1>6. Shape'
  <2>1. Sorted(live')
    BY <1>5 DEF StoreInv, Shape, Sorted
  <2>2. Shape
    BY DEF StoreInv
  <2> QED BY <1>1, <1>5, <2>1, <2>2 DEF Shape, Sorted, Known, Created
<1>7. JobsOK'
  <2>1. JobOK(th)'
    BY <1>1, <1>2, <1>3, <1>5 DEF JobOK, Moves, Critical, Flushing
  <2>2. ASSUME NEW u \in Threads, u # th PROVE JobOK(u)'
    <3>1. job'[u] = job[u] /\ JobOK(u) /\ job[u].pc \notin Critical
      BY <1>3, <2>2 DEF StoreInv, JobsOK
    <3> QED BY <1>1, <1>3, <3>1 DEF JobOK, Critical, Flushing
  <2> QED BY <1>2, <2>1, <2>2 DEF JobsOK, Moves
<1>8. PhaseOK'
  BY <1>1, <1>2, Threads2 DEF StoreInv, PhaseOK, Moves
<1>9. HistoryOK'
  <2>1. \A i, j \in 1..Len(live') : i < j /\ live'[j] \in history => live'[i] \in history
    BY <1>5 DEF StoreInv, HistoryOK
  <2>2. marked \cap Range(live') \subseteq Range(rows) \cup history
    BY <1>5 DEF StoreInv, HistoryOK
  <2> QED BY <1>1, <2>1, <2>2 DEF HistoryOK
<1>10. UnsavedOK'
  <2>1. ASSUME NEW i \in 1..Len(live'), Unsaved(i)'
        PROVE  \/ live'[i] \in Range(rows') /\ Resumed(i)'
               \/ \A r \in 1..Len(rows') : rows'[r] < live'[i]
    <3>1. i \in 1..Len(live) /\ live'[i] = live[i] /\ Unsaved(i)
      BY <1>1, <1>5, <2>1 DEF Unsaved, Ephemeral
    <3>2. CASE Resumed(i)
      <4>1. \A u \in Threads : job[u].pc \notin {"mark", "flush"}
        BY <1>1, <1>3 DEF Critical
      <4>2. ~bound /\ (phase = "idle" \/ (live[i] \in history /\ phase = "early"))
        BY <3>2, <4>1, Threads2 DEF Resumed
      <4>3. Resumed(i)'
        BY <1>1, <3>1, <4>2 DEF Resumed
      <4> QED BY <1>1, <3>1, <4>3 DEF StoreInv, UnsavedOK
    <3> QED BY <1>1, <3>1, <3>2 DEF StoreInv, UnsavedOK
  <2> QED BY <2>1 DEF UnsavedOK
<1>11. KeptOK'
  BY <1>1, <1>5 DEF StoreInv, KeptOK, Ephemeral
<1> QED BY <1>6, <1>7, <1>8, <1>9, <1>10, <1>11 DEF StoreInv

LEMMA PersistLogInv ==
    ASSUME StoreInv, NEW th \in Threads, PersistLog(th)
    PROVE  StoreInv'
<1>1. /\ UNCHANGED <<live, kind, marked, history, rows, lock, phase, failures, crashes>>
      /\ job[th].pc = "log" /\ bound' = TRUE /\ log' = SaveSessionLog(live)
  BY DEF PersistLog
<1>2. Moves(th, "flush", job[th].at, job[th].withHistory)
  BY PcMoves DEF PersistLog
<1>3. /\ lock = th /\ \A u \in Threads : u # th => job[u].pc \notin Critical /\ job'[u] = job[u]
      /\ JobOK(th) /\ job[th].at = 1 /\ Len(live) \in Nat
  BY <1>1, <1>2, Alone DEF Critical, Flushing, JobOK, Moves
<1>4. Shape'
  <2>1. log' \subseteq Known
    BY <1>1 DEF SaveSessionLog, StoreInv, Shape, Range
  <2>2. Shape
    BY DEF StoreInv
  <2> QED BY <1>1, <2>1, <2>2 DEF Shape, Sorted, Known, Created
<1>5. JobsOK'
  <2>1. JobOK(th)'
    BY <1>1, <1>2, <1>3 DEF JobOK, Moves, Critical, Flushing
  <2>2. ASSUME NEW u \in Threads, u # th PROVE JobOK(u)'
    <3>1. job'[u] = job[u] /\ JobOK(u) /\ job[u].pc \notin Critical
      BY <1>3, <2>2 DEF StoreInv, JobsOK
    <3> QED BY <1>1, <1>3, <3>1 DEF JobOK, Critical, Flushing
  <2> QED BY <1>2, <2>1, <2>2 DEF JobsOK, Moves
<1>6. PhaseOK'
  BY <1>1, <1>2, Threads2 DEF StoreInv, PhaseOK, Moves
<1>7. HistoryOK' /\ KeptOK'
  BY <1>1 DEF StoreInv, HistoryOK, KeptOK, Ephemeral
<1>8. UnsavedOK'
  <2>1. ASSUME NEW i \in 1..Len(live), Unsaved(i)
        PROVE  \/ live[i] \in Range(rows) /\ Resumed(i)'
               \/ \A r \in 1..Len(rows) : rows[r] < live[i]
    <3>1. CASE Resumed(i)
      <4>1. \A u \in Threads : job[u].pc \notin {"mark", "flush"}
        BY <1>1, <1>3 DEF Critical
      <4>2. ~bound /\ (phase = "idle" \/ (live[i] \in history /\ phase = "early"))
        BY <3>1, <4>1, Threads2 DEF Resumed
      <4>3. th = Turn /\ phase = "early" /\ live[i] \in history
        BY <1>1, <4>2, Threads2 DEF StoreInv, PhaseOK
      <4>4. Resumed(i)'
        BY <1>1, <1>2, <4>3 DEF Resumed, Moves
      <4> QED BY <2>1, <4>4 DEF StoreInv, UnsavedOK
    <3> QED BY <2>1, <3>1 DEF StoreInv, UnsavedOK
  <2>2. ASSUME NEW i \in 1..Len(live), Unsaved(i)' PROVE Unsaved(i)
    BY <1>1, <2>2 DEF Unsaved, Ephemeral
  <2> QED BY <1>1, <2>1, <2>2 DEF UnsavedOK
<1> QED BY <1>4, <1>5, <1>6, <1>7, <1>8 DEF StoreInv

LEMMA FlushSkipInv ==
    ASSUME StoreInv, NEW th \in Threads, FlushSkip(th)
    PROVE  StoreInv'
<1>1. /\ UNCHANGED <<live, kind, history, bound, rows, log, lock, phase, failures, crashes>>
      /\ job[th].pc = "flush" /\ job[th].at <= Len(live)
  BY DEF FlushSkip
<1>2. /\ lock = th /\ \A u \in Threads : u # th => job[u].pc \notin Critical
      /\ JobOK(th) /\ job[th].at \in 1..Len(live) /\ Len(live) \in Nat /\ bound
      /\ job[th].at + 1 \in Nat \ {0} /\ job[th].at + 1 <= Len(live) + 1
  BY <1>1, Alone DEF Critical, Flushing
<1>3. PICK m \in Known : /\ m = live[job[th].at] /\ (m \in marked \/ Ephemeral(m) \/ m \in history)
                         /\ marked' = IF Ephemeral(m) THEN marked ELSE marked \cup {m}
  <2> DEFINE m == live[job[th].at]
  <2>1. m \in Known
    BY <1>2 DEF StoreInv, Shape
  <2>2. m \in marked \/ Ephemeral(m) \/ m \in history
    BY DEF FlushSkip, Skips, Stamps
  <2>3. marked' = IF Ephemeral(m) THEN marked ELSE marked \cup {m}
    BY DEF FlushSkip
  <2> HIDE DEF m
  <2> QED BY <2>1, <2>2, <2>3 DEF m
<1>4. Moves(th, "flush", job[th].at + 1, job[th].withHistory)
  <2>1. job' = [job EXCEPT ![th].pc = "flush", ![th].at = job[th].at + 1]
    BY <1>1 DEF FlushSkip, StoreInv, JobsOK, Job
  <2> QED BY <1>2, <2>1, AtMoves
<1>5. /\ marked \subseteq marked' /\ marked' \subseteq marked \cup {m} /\ marked' \subseteq Known
      /\ Ephemeral(m) \/ m \in marked'
      /\ marked' \subseteq marked \cup history
  BY <1>3 DEF StoreInv, Shape
<1>6. Shape'
  BY <1>1, <1>5 DEF StoreInv, Shape, Sorted, Known, Created
<1>7. JobsOK'
  <2>1. JobOK(th)'
    <3>1. ASSUME NEW i \in 1..Len(live), i < job[th].at + 1
          PROVE  Ephemeral(live[i]) \/ live[i] \in marked'
      BY <1>1, <1>2, <1>3, <1>5, <3>1 DEF JobOK, Flushing
    <3> QED BY <1>1, <1>2, <1>4, <3>1 DEF JobOK, Moves, Critical, Flushing, Ephemeral
  <2>2. ASSUME NEW u \in Threads, u # th PROVE JobOK(u)'
    <3>1. job'[u] = job[u] /\ JobOK(u) /\ job[u].pc \notin Critical
      BY <1>2, <1>4, <2>2 DEF StoreInv, JobsOK, Moves
    <3> QED BY <1>1, <1>2, <3>1 DEF JobOK, Critical, Flushing
  <2> QED BY <1>4, <2>1, <2>2 DEF JobsOK, Moves
<1>8. PhaseOK'
  BY <1>1, <1>4, Threads2 DEF StoreInv, PhaseOK, Moves
<1>9. HistoryOK'
  BY <1>1, <1>5 DEF StoreInv, HistoryOK
<1>10. UnsavedOK'
  <2>1. ASSUME NEW i \in 1..Len(live), Unsaved(i)' PROVE Unsaved(i)
    BY <1>1, <1>5, <2>1 DEF Unsaved, Ephemeral
  <2>2. ASSUME NEW i \in 1..Len(live), Resumed(i) PROVE Resumed(i)'
    BY <1>1, <1>4, <2>2, Threads2 DEF Resumed, Moves
  <2> QED BY <1>1, <2>1, <2>2 DEF StoreInv, UnsavedOK
<1>11. KeptOK'
  BY <1>1 DEF StoreInv, KeptOK, Ephemeral
<1> QED BY <1>6, <1>7, <1>8, <1>9, <1>10, <1>11 DEF StoreInv

\* What the flush finds to append is not stored, nor is any other message of
\* the list that has no mark.
LEMMA FlushTestInv ==
    ASSUME StoreInv, NEW th \in Threads, FlushTest(th)
    PROVE  StoreInv'
<1>1. /\ UNCHANGED <<live, kind, marked, history, bound, rows, log, lock, phase, failures, crashes>>
      /\ job[th].pc = "flush" /\ job[th].at <= Len(live)
      /\ Unsaved(job[th].at) /\ ~Stamps(th, live[job[th].at])
  BY DEF FlushTest, Skips, Unsaved
<1>2. Moves(th, "append", job[th].at, job[th].withHistory)
  BY PcMoves DEF FlushTest
<1>3. /\ lock = th /\ \A u \in Threads : u # th => job[u].pc \notin Critical
      /\ JobOK(th) /\ job[th].at \in 1..Len(live) /\ Len(live) \in Nat /\ bound
  BY <1>1, Alone DEF Critical, Flushing
<1>4. Shape' /\ KeptOK'
  BY <1>1 DEF StoreInv, Shape, KeptOK, Sorted, Ephemeral, Known, Created
<1>5. JobsOK'
  <2>1. JobOK(th)'
    BY <1>1, <1>2, <1>3 DEF JobOK, Moves, Critical, Flushing, Ephemeral, Unsaved
  <2>2. ASSUME NEW u \in Threads, u # th PROVE JobOK(u)'
    <3>1. job'[u] = job[u] /\ JobOK(u) /\ job[u].pc \notin Critical
      BY <1>2, <1>3, <2>2 DEF StoreInv, JobsOK, Moves
    <3> QED BY <1>1, <1>3, <3>1 DEF JobOK, Critical, Flushing
  <2> QED BY <1>2, <2>1, <2>2 DEF JobsOK, Moves
<1>6. PhaseOK'
  BY <1>1, <1>2, Threads2 DEF StoreInv, PhaseOK, Moves
<1>7. UnsavedOK'
  <2>1. ASSUME NEW i \in 1..Len(live), Unsaved(i), Resumed(i) PROVE FALSE
    <3>1. th = Turn /\ phase = "early" /\ live[i] \in history
      BY <1>1, <1>3, <2>1, Threads2 DEF Resumed, Critical
    <3>2. job[th].withHistory /\ live[job[th].at] \notin history
      BY <1>1, <3>1 DEF StoreInv, PhaseOK, Stamps, Skips, Unsaved
    <3>3. i < job[th].at
      BY <1>3, <3>1, <3>2 DEF StoreInv, HistoryOK
    <3> QED BY <1>1, <1>3, <2>1, <3>3 DEF JobOK, Flushing, Unsaved
  <2>2. ASSUME NEW i \in 1..Len(live), Unsaved(i)' PROVE Unsaved(i)
    BY <1>1, <2>2 DEF Unsaved, Ephemeral
  <2> QED BY <1>1, <2>1, <2>2 DEF StoreInv, UnsavedOK
<1> QED BY <1>1, <1>4, <1>5, <1>6, <1>7, SameStore DEF StoreInv

LEMMA FlushAppendInv ==
    ASSUME StoreInv, NEW th \in Threads, FlushAppend(th)
    PROVE  StoreInv'
<1>1. /\ UNCHANGED <<live, kind, marked, history, bound, log, lock, phase, failures, crashes>>
      /\ job[th].pc = "append" /\ rows' = Append(rows, live[job[th].at])
  BY DEF FlushAppend
<1>2. Moves(th, "mark", job[th].at, job[th].withHistory)
  BY PcMoves DEF FlushAppend
<1>3. /\ lock = th /\ \A u \in Threads : u # th => job[u].pc \notin Critical
      /\ JobOK(th) /\ job[th].at \in 1..Len(live) /\ Len(live) \in Nat /\ bound
      /\ Len(rows) \in Nat /\ Unsaved(job[th].at)
  BY <1>1, Alone DEF Critical, Flushing, JobOK, Unsaved
<1>4. PICK m \in Known : m = live[job[th].at]
  BY <1>3 DEF StoreInv, Shape
<1>5. \A i \in 1..Len(live) : Unsaved(i) => \A r \in 1..Len(rows) : rows[r] < live[i]
  BY <1>1, NotResumed DEF StoreInv, UnsavedOK
<1>6. /\ rows \in Seq(Known) /\ rows' \in Seq(Known) /\ Len(rows') = Len(rows) + 1
      /\ \A r \in 1..Len(rows) : rows'[r] = rows[r] /\ rows[r] \in Known /\ rows[r] < m
      /\ rows'[Len(rows) + 1] = m /\ rows' # <<>> /\ m \in Nat \ {0} /\ Known \subseteq Nat
      /\ Range(rows) \subseteq Range(rows')
  <2>1. rows \in Seq(Known) /\ rows' = Append(rows, m) /\ Known \subseteq Nat \ {0}
    BY <1>1, <1>4 DEF StoreInv, Shape, Known
  <2>2. /\ rows' \in Seq(Known) /\ Len(rows') = Len(rows) + 1 /\ rows' # <<>>
        /\ \A r \in 1..Len(rows) : rows'[r] = rows[r] /\ rows[r] \in Known
        /\ rows'[Len(rows) + 1] = m
    BY <2>1
  <2>3. \A r \in 1..Len(rows) : rows[r] < m
    BY <1>3, <1>4, <1>5
  <2>4. Range(rows) \subseteq Range(rows')
    BY <1>3, <2>1, <2>2 DEF Range
  <2> QED BY <2>1, <2>2, <2>3, <2>4
<1>7. Shape'
  <2>1. Sorted(rows)
    BY DEF StoreInv, Shape
  <2>2. Len(rows) + 1 <= m
    <3>1. CASE Len(rows) = 0
      BY <3>1, <1>6
    <3>2. CASE Len(rows) # 0
      <4>1. Len(rows) \in 1..Len(rows)
        BY <3>2, <1>3
      <4>2. Len(rows) <= rows[Len(rows)] /\ rows[Len(rows)] < m /\ rows[Len(rows)] \in Nat
        BY <4>1, <1>6, <2>1 DEF Sorted
      <4> QED BY <4>2, <1>3, <1>6
    <3> QED BY <3>1, <3>2
  <2>3. ASSUME NEW i \in 1..Len(rows') PROVE i <= rows'[i]
    BY <1>3, <1>6, <2>1, <2>2 DEF Sorted
  <2>4. ASSUME NEW i \in 1..Len(rows'), NEW j \in 1..Len(rows'), i < j
        PROVE  rows'[i] < rows'[j]
    <3>1. i \in 1..Len(rows) /\ (j \in 1..Len(rows) \/ j = Len(rows) + 1)
      BY <1>3, <1>6, <2>4
    <3> QED BY <1>6, <2>1, <2>4, <3>1 DEF Sorted
  <2>5. Sorted(rows')
    BY <2>3, <2>4 DEF Sorted
  <2>6. Shape
    BY DEF StoreInv
  <2> QED BY <1>1, <1>6, <2>5, <2>6 DEF Shape, Sorted, Known, Created
<1>8. JobsOK'
  <2>1. JobOK(th)'
    BY <1>1, <1>2, <1>3, <1>4, <1>6 DEF JobOK, Moves, Critical, Flushing, Ephemeral
  <2>2. ASSUME NEW u \in Threads, u # th PROVE JobOK(u)'
    <3>1. job'[u] = job[u] /\ JobOK(u) /\ job[u].pc \notin Critical
      BY <1>2, <1>3, <2>2 DEF StoreInv, JobsOK, Moves
    <3> QED BY <1>1, <1>3, <3>1 DEF JobOK, Critical, Flushing
  <2> QED BY <1>2, <2>1, <2>2 DEF JobsOK, Moves
<1>9. PhaseOK'
  BY <1>1, <1>2, Threads2 DEF StoreInv, PhaseOK, Moves
<1>10. HistoryOK'
  BY <1>1, <1>6 DEF StoreInv, HistoryOK
<1>11. UnsavedOK'
  <2>1. ASSUME NEW i \in 1..Len(live'), Unsaved(i)'
        PROVE  \/ live'[i] \in Range(rows') /\ Resumed(i)'
               \/ \A r \in 1..Len(rows') : rows'[r] < live'[i]
    <3>1. Unsaved(i) /\ i \in 1..Len(live) /\ live' = live
      BY <1>1, <2>1 DEF Unsaved, Ephemeral
    <3>2. CASE i = job[th].at
      <4>1. live'[i] = m /\ m \in Range(rows')
        BY <1>3, <1>4, <1>6, <3>1, <3>2 DEF Range
      <4>2. Resumed(i)'
        BY <1>2, <3>2 DEF Resumed, Moves
      <4> QED BY <4>1, <4>2
    <3>3. CASE i # job[th].at
      <4>1. job[th].at < i
        BY <1>1, <1>3, <3>1, <3>3 DEF JobOK, Flushing, Unsaved
      <4>2. m < live[i]
        BY <1>3, <1>4, <3>1, <4>1 DEF StoreInv, Shape, Sorted
      <4>3. ASSUME NEW r \in 1..Len(rows') PROVE rows'[r] < live[i]
        <5>1. r \in 1..Len(rows) \/ r = Len(rows) + 1
          BY <1>3, <1>6
        <5> QED BY <1>5, <1>6, <3>1, <4>2, <5>1
      <4> QED BY <3>1, <4>3
    <3> QED BY <3>2, <3>3
  <2> QED BY <2>1 DEF UnsavedOK
<1>12. KeptOK'
  BY <1>1, <1>6 DEF StoreInv, KeptOK, Ephemeral
<1> QED BY <1>7, <1>8, <1>9, <1>10, <1>11, <1>12 DEF StoreInv

LEMMA FlushMarkInv ==
    ASSUME StoreInv, NEW th \in Threads, FlushMark(th)
    PROVE  StoreInv'
<1>1. /\ UNCHANGED <<live, kind, history, bound, rows, log, lock, phase, failures, crashes>>
      /\ job[th].pc = "mark" /\ marked' = marked \cup {live[job[th].at]}
  BY DEF FlushMark
<1>2. /\ lock = th /\ \A u \in Threads : u # th => job[u].pc \notin Critical
      /\ JobOK(th) /\ job[th].at \in 1..Len(live) /\ Len(live) \in Nat /\ bound
      /\ job[th].at + 1 \in Nat \ {0} /\ job[th].at + 1 <= Len(live) + 1
      /\ Len(rows) \in Nat /\ rows # <<>> /\ rows[Len(rows)] = live[job[th].at]
  BY <1>1, Alone DEF Critical, Flushing, JobOK
<1>3. Moves(th, "flush", job[th].at + 1, job[th].withHistory)
  BY <1>2, AtMoves DEF FlushMark
<1>4. live[job[th].at] \in Known /\ live[job[th].at] \in Range(rows)
  BY <1>2 DEF StoreInv, Shape, Range
<1>5. Shape'
  BY <1>1, <1>4 DEF StoreInv, Shape, Sorted, Known, Created
<1>6. JobsOK'
  <2>1. JobOK(th)'
    <3>1. ASSUME NEW i \in 1..Len(live), i < job[th].at + 1
          PROVE  Ephemeral(live[i]) \/ live[i] \in marked'
      <4>1. CASE i = job[th].at
        BY <1>1, <4>1
      <4>2. CASE i < job[th].at
        BY <1>1, <1>2, <4>2 DEF JobOK, Flushing
      <4> QED BY <1>2, <3>1, <4>1, <4>2
    <3> QED BY <1>1, <1>2, <1>3, <3>1 DEF JobOK, Moves, Critical, Flushing, Ephemeral
  <2>2. ASSUME NEW u \in Threads, u # th PROVE JobOK(u)'
    <3>1. job'[u] = job[u] /\ JobOK(u) /\ job[u].pc \notin Critical
      BY <1>2, <1>3, <2>2 DEF StoreInv, JobsOK, Moves
    <3> QED BY <1>1, <1>2, <3>1 DEF JobOK, Critical, Flushing
  <2> QED BY <1>3, <2>1, <2>2 DEF JobsOK, Moves
<1>7. PhaseOK'
  BY <1>1, <1>3, Threads2 DEF StoreInv, PhaseOK, Moves
<1>8. HistoryOK'
  BY <1>1, <1>4 DEF StoreInv, HistoryOK
<1>9. UnsavedOK'
  <2>1. ASSUME NEW i \in 1..Len(live), Unsaved(i)'
        PROVE  Unsaved(i) /\ ~Resumed(i)
    <3>1. Unsaved(i) /\ i # job[th].at
      BY <1>1, <2>1 DEF Unsaved, Ephemeral
    <3> QED BY <1>1, <3>1, NotResumed
  <2> QED BY <1>1, <2>1 DEF StoreInv, UnsavedOK
<1>10. KeptOK'
  BY <1>1 DEF StoreInv, KeptOK, Ephemeral
<1> QED BY <1>5, <1>6, <1>7, <1>8, <1>9, <1>10 DEF StoreInv

\* The lock is free again, and the thread's job is over.
LEMMA ReleaseJobs ==
    ASSUME StoreInv, NEW th \in Threads, job[th].pc \in Critical, Release(th),
           UNCHANGED <<live, kind, marked, rows>>
    PROVE  JobsOK' /\ Moves(th, "idle", 1, FALSE)
<1>1. /\ lock = th /\ \A u \in Threads : u # th => job[u].pc \notin Critical
  BY Alone
<1>2. Moves(th, "idle", 1, FALSE) /\ lock' = NoThread
  BY JobMoves DEF Release, Idle
<1>3. JobOK(th)'
  BY <1>2, Threads2 DEF JobOK, Moves, Critical, Flushing
<1>4. ASSUME NEW u \in Threads, u # th PROVE JobOK(u)'
  <2>1. job'[u] = job[u] /\ JobOK(u) /\ job[u].pc \notin Critical
    BY <1>1, <1>2, <1>4 DEF StoreInv, JobsOK, Moves
  <2> QED BY <1>2, <2>1, Threads2 DEF JobOK, Critical, Flushing
<1> QED BY <1>2, <1>3, <1>4 DEF JobsOK, Moves

LEMMA FlushFailsInv ==
    ASSUME StoreInv, NEW th \in Threads, FlushFails(th)
    PROVE  StoreInv'
<1>1. /\ UNCHANGED <<live, kind, marked, history, bound, rows, log, crashes>>
      /\ job[th].pc = "append" /\ failures < MaxFailures /\ failures' = failures + 1
      /\ Release(th) /\ lock' = NoThread
      /\ phase' = CASE th = Turn /\ phase = "early" -> "open"
                    [] th = Turn /\ phase = "ended" -> "failed"
                    [] OTHER -> phase
  BY DEF FlushFails, Release
<1>2. JobsOK' /\ Moves(th, "idle", 1, FALSE)
  BY <1>1, ReleaseJobs DEF Critical
<1>3. failures \in Nat /\ failures' \in 0..MaxFailures /\ failures' > 0 /\ bound
  BY <1>1, StoreAssumption, Alone DEF StoreInv, Shape, Critical, Flushing
<1>4. Shape'
  BY <1>1, <1>3 DEF StoreInv, Shape, Sorted, Known, Created
<1>5. PhaseOK'
  BY <1>1, <1>2, <1>3, Threads2 DEF StoreInv, PhaseOK, Moves
<1>6. UnsavedOK'
  BY <1>1, NotResumed DEF StoreInv, UnsavedOK, Unsaved, Ephemeral
<1>7. KeptOK'
  BY <1>3 DEF KeptOK
<1> QED BY <1>1, <1>2, <1>4, <1>5, <1>6, <1>7, SameStore DEF StoreInv

\* A flush that ends has dealt with the whole list.
LEMMA FlushDoneInv ==
    ASSUME StoreInv, NEW th \in Threads, FlushDone(th)
    PROVE  StoreInv'
<1>1. /\ UNCHANGED <<live, kind, marked, history, bound, rows, log, failures, crashes>>
      /\ job[th].pc = "flush" /\ job[th].at > Len(live)
      /\ Release(th) /\ lock' = NoThread
      /\ phase' = CASE th = Turn /\ phase = "early" -> "open"
                    [] th = Turn /\ phase = "ended" -> "idle"
                    [] OTHER -> phase
  BY DEF FlushDone, Release
<1>2. JobsOK' /\ Moves(th, "idle", 1, FALSE)
  BY <1>1, ReleaseJobs DEF Critical
<1>3. bound /\ JobOK(th) /\ job[th].at \in Nat /\ Len(live) \in Nat
  BY <1>1, Alone DEF Critical, Flushing
<1>4. \A i \in 1..Len(live) : Ephemeral(live[i]) \/ live[i] \in marked
  BY <1>1, <1>3 DEF JobOK, Flushing
<1>5. Shape'
  BY <1>1 DEF StoreInv, Shape, Sorted, Known, Created, Threads
<1>6. PhaseOK'
  BY <1>1, <1>2, <1>3, Threads2 DEF StoreInv, PhaseOK, Moves
<1>7. UnsavedOK'
  BY <1>1, <1>4 DEF UnsavedOK, Unsaved, Ephemeral
<1>8. KeptOK'
  <2>1. ASSUME failures = 0, NEW i \in 1..Len(live)
        PROVE  Ephemeral(live[i]) \/ live[i] \in Range(rows)
    <3>1. live[i] \in Range(live)
      BY <2>1 DEF StoreInv, Shape, Range
    <3> QED BY <1>4, <2>1, <3>1 DEF StoreInv, KeptOK, HistoryOK
  <2> QED BY <1>1, <2>1 DEF StoreInv, KeptOK, Ephemeral
<1> QED BY <1>1, <1>2, <1>5, <1>6, <1>7, <1>8, SameStore DEF StoreInv

-------------------------------------------------------------------------------
\* The invariant of every execution, and what follows from it.

LEMMA InitInv == Init => StoreInv
<1> SUFFICES ASSUME Init PROVE StoreInv
  OBVIOUS
<1>1. \A th \in Threads : job[th] = Idle
  BY DEF Init
<1>2. Shape
  <2>1. live \in Seq(Known) /\ rows \in Seq(Known) /\ kind \in Seq(Kinds) /\ Len(kind) = 0
    BY DEF Init
  <2>2. Sorted(live) /\ Sorted(rows)
    BY DEF Init, Sorted
  <2>3. /\ log \subseteq Known /\ marked \subseteq Known /\ history \subseteq Known
        /\ bound \in BOOLEAN /\ lock \in Threads \cup {NoThread}
        /\ failures \in 0..MaxFailures /\ crashes \in 0..MaxCrashes
    <3>1. bound \in BOOLEAN /\ lock \in Threads \cup {NoThread}
      BY Zenon DEF Init
    <3>2. log = {} /\ marked = {} /\ history = {} /\ failures = 0 /\ crashes = 0
      BY DEF Init
    <3> QED BY <3>1, <3>2, StoreAssumption
  <2> QED BY <2>1, <2>2, <2>3, StoreAssumption DEF Shape, Created
<1>3. JobsOK
  BY <1>1, Threads2 DEF Init, Idle, Job, JobsOK, JobOK, Critical, Flushing
<1>4. PhaseOK
  BY <1>1, Threads2 DEF Init, PhaseOK, Idle
<1>5. HistoryOK /\ UnsavedOK /\ KeptOK
  BY DEF Init, HistoryOK, UnsavedOK, KeptOK, Range
<1> QED BY <1>2, <1>3, <1>4, <1>5 DEF StoreInv

LEMMA StutterInv ==
    ASSUME StoreInv, UNCHANGED vars
    PROVE  StoreInv'
<1>1. /\ UNCHANGED <<live, kind, marked, history, bound, rows, log, lock, job, phase>>
      /\ UNCHANGED <<failures, crashes>>
  BY DEF vars
<1>2. Shape' /\ KeptOK'
  BY <1>1 DEF StoreInv, Shape, KeptOK, Sorted, Ephemeral, Known, Created
<1>3. JobsOK'
  BY <1>1 DEF StoreInv, JobsOK, JobOK, Ephemeral
<1>4. PhaseOK' /\ UnsavedOK'
  BY <1>1 DEF StoreInv, PhaseOK, UnsavedOK, Unsaved, Resumed, Ephemeral
<1> QED BY <1>1, <1>2, <1>3, <1>4, SameStore DEF StoreInv

LEMMA NextInv == StoreInv /\ [Next]_vars => StoreInv'
<1> SUFFICES ASSUME StoreInv, [Next]_vars PROVE StoreInv'
  OBVIOUS
<1>1. CASE TurnBegin
  BY <1>1, TurnBeginInv
<1>2. CASE Extend
  BY <1>2, ExtendInv
<1>3. CASE TurnPersists
  BY <1>3, TurnPersistsInv
<1>4. CASE CloserPersists
  BY <1>4, CloserPersistsInv
<1>5. CASE TurnOver
  BY <1>5, TurnOverInv
<1>6. CASE Crash
  BY <1>6, CrashInv
<1>7. ASSUME NEW th \in Threads, Persist(th) PROVE StoreInv'
  BY <1>7, AcquireInv, DropTestInv, DropPopInv, PersistLogInv, FlushSkipInv, FlushTestInv, FlushAppendInv,
     FlushMarkInv, FlushFailsInv, FlushDoneInv DEF Persist
<1>8. CASE UNCHANGED vars
  BY <1>8, StutterInv
<1> QED BY <1>1, <1>2, <1>3, <1>4, <1>5, <1>6, <1>7, <1>8 DEF Next

LEMMA StoreInvariant == Spec => []StoreInv
  BY InitInv, NextInv, PTL DEF Spec

\* The types of the store's state, and that _session_persist_lock is held by
\* exactly the thread that is between its acquisition and its release.
THEOREM StoreTypes == Spec => []TypeOK
<1>1. ASSUME StoreInv PROVE TypeOK
  <2>1. (\A m \in Known : m \in Ids) /\ Len(live) \in Nat /\ MaxMessages \in Nat
    BY <1>1, StoreAssumption DEF StoreInv, Shape, Known, Ids, Created
  <2>2. live \in Seq(Known) /\ rows \in Seq(Known) /\ Sorted(live)
    BY <1>1 DEF StoreInv, Shape
  <2>3. Len(live) <= MaxMessages
    <3>1. CASE Len(live) = 0
      BY <3>1, <2>1
    <3>2. CASE Len(live) # 0
      <4>1. Len(live) \in 1..Len(live)
        BY <3>2, <2>1
      <4>2. Len(live) <= live[Len(live)]
        BY <2>2, <4>1 DEF Sorted
      <4>3. live[Len(live)] \in Ids
        BY <2>2, <2>1, <4>1
      <4> QED BY <2>1, <4>2, <4>3 DEF Ids
    <3> QED BY <3>1, <3>2
  <2>4. ASSUME NEW th \in Threads PROVE job[th].at \in 1..(MaxMessages + 1)
    <3>1. JobOK(th) /\ job[th] \in Job /\ job[th].at \in Nat \ {0}
      BY <1>1 DEF StoreInv, JobsOK, Job
    <3>2. job[th].at <= Len(live) + 1
      BY <2>1, <3>1 DEF JobOK, Flushing
    <3> QED BY <2>1, <2>3, <3>1, <3>2
  <2>5. job \in [Threads -> [pc : {"idle", "want", "wantflush", "drop", "pop", "log",
                                   "flush", "append", "mark"}, pass : 0..3,
                             at : 1..(MaxMessages + 1), withHistory : BOOLEAN]]
    BY <1>1, <2>4 DEF StoreInv, JobsOK, Job, Critical
  <2>6. /\ live \in Seq(Ids) /\ rows \in Seq(Ids)
        /\ log \subseteq Ids /\ marked \subseteq Ids /\ history \subseteq Ids
    <3>1. log \subseteq Known /\ marked \subseteq Known /\ history \subseteq Known
      BY <1>1 DEF StoreInv, Shape
    <3> QED BY <2>2, <2>1, <3>1
  <2>7. /\ kind \in Seq(Kinds) /\ Created <= MaxMessages /\ bound \in BOOLEAN
        /\ lock \in Threads \cup {NoThread}
        /\ failures \in 0..MaxFailures /\ crashes \in 0..MaxCrashes
        /\ phase \in {"idle", "early", "open", "ended", "failed"}
    BY <1>1 DEF StoreInv, Shape, PhaseOK
  <2>8. \A th \in Threads : lock = th <=> job[th].pc \in {"drop", "pop", "log", "flush", "append", "mark"}
    BY <1>1 DEF StoreInv, JobsOK, JobOK, Critical
  <2> QED BY <2>5, <2>6, <2>7, <2>8 DEF TypeOK
<1> QED BY <1>1, StoreInvariant, PTL

\* Whatever appends failed, whatever process died and however the turn's and
\* the closing thread's persists interleave, append_message is called for each
\* message at most once and in the order of the conversation.
THEOREM StoreInOrder == Spec => []RowsInOrder
<1>1. ASSUME StoreInv PROVE RowsInOrder
  BY <1>1 DEF StoreInv, Shape, Sorted, RowsInOrder
<1> QED BY <1>1, StoreInvariant, PTL

\* The _db_persisted marker of a listed message is set only when its row
\* exists or when the message came with the caller's conversation_history.
THEOREM MarksAreRows == Spec => []MarkIsRow
<1>1. ASSUME StoreInv PROVE MarkIsRow
  BY <1>1 DEF StoreInv, HistoryOK, MarkIsRow
<1> QED BY <1>1, StoreInvariant, PTL

\* When a turn is over and no append has failed, every message the transcript
\* shows, the ephemeral scaffolding aside, has been written to the database.
THEOREM TranscriptStored == Spec => []NothingLost
<1>1. ASSUME StoreInv PROVE NothingLost
  <2>1. \A m \in Range(live) : \E i \in 1..Len(live) : m = live[i]
    BY <1>1 DEF StoreInv, Shape, Range
  <2> QED BY <1>1, <2>1 DEF StoreInv, KeptOK, NothingLost
<1> QED BY <1>1, StoreInvariant, PTL
===============================================================================
