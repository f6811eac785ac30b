-------------------------- MODULE DelegationProofs ---------------------------
(***************************************************************************)
(* delegate_task of Delegation, for every tree of agents, every size of    *)
(* batch and every pattern of interrupts, timeouts, failing builds and     *)
(* failing leases: one entry per task, names restored.                     *)
(***************************************************************************)
EXTENDS Delegation, FiniteSetTheorems, SequenceTheorems, TLAPS

Outcomes == {"ended", "raised", "interrupted"}
Pcs == {"idle", "build", "failed", "detach", "dispatch", "run", "join", "answered"}
Call == [pc : Pcs, by : Agents \cup {Nobody}, size : 0..MaxChildren, kids : SUBSET Kids,
         async : BOOLEAN, saved : Agents, results : Seq(Kids \X Statuses)]

Types ==
  /\ call \in [Calls -> Call]
  /\ parent \in [Kids -> Agents \cup {Nobody}] /\ depth \in [Kids -> 0..MaxDepth]
  /\ run \in [Kids -> {"none", "built", "waiting", "closing", "over"}]
  /\ work \in [Kids -> Outcomes \cup {"none", "running"}]
  /\ entry \in [Kids -> Statuses \cup {"none"}]
  /\ active \in [Agents -> SUBSET Kids] /\ registered \subseteq Kids
  /\ flag \subseteq Agents /\ due \subseteq Agents /\ fan \subseteq Agents /\ names \in Agents

\* The caller of a call in progress is an agent above the depth limit that has
\* been built, and is the parent of the call's children.
CallerOK(d) ==
  /\ call[d].pc = "idle" => call[d] = NoCall
  /\ call[d].pc # "idle" =>
       /\ call[d].by \in Agents /\ DepthOf(call[d].by) < MaxDepth /\ call[d].size > 0
       /\ call[d].by \in Kids => parent[call[d].by] # Nobody
  /\ call[d].pc \in {"idle", "build"} => ~call[d].async
  /\ Cardinality(call[d].kids) <= call[d].size
  /\ call[d].pc \notin {"idle", "build", "failed"} => Cardinality(call[d].kids) = call[d].size
  /\ \A c \in call[d].kids : parent[c] = call[d].by

\* The results are about different children of the call, and each has what
\* _run_single_child returned for the child unless the child was given up.
ResultsOK(d) ==
  /\ call[d].pc \in {"idle", "build", "detach", "dispatch"} => call[d].results = <<>>
  /\ call[d].pc \in {"join", "answered"} => Remaining(d) = {}
  /\ \A i, j \in 1..Len(call[d].results) :
       call[d].results[i][1] = call[d].results[j][1] => i = j
  /\ \A i \in 1..Len(call[d].results) :
       LET c == call[d].results[i][1] s == call[d].results[i][2] IN
       c \in call[d].kids /\ (s = "interrupted" \/ (run[c] = "over" /\ s = entry[c]))

KidOK(c) ==
  /\ run[c] = "none" <=> parent[c] = Nobody
  /\ run[c] \in {"none", "built"} => work[c] = "none"
  /\ run[c] = "waiting" => work[c] # "none"
  /\ c \in registered <=> run[c] \in {"waiting", "closing"}
  /\ \A a \in Agents : c \in active[a] => parent[c] = a
  /\ run[c] = "over" => entry[c] \in Statuses
  /\ run[c] = "closing" => entry[c] \in Statuses

\* As long as no child has delegated, only a build that runs for the top-level
\* agent has other names than that agent's, and what it restores is those.
Flat == \A c \in Kids : parent[c] \in {Root, Nobody}
NamesOK ==
  Flat => /\ \A d \in Calls : call[d].by = Root => call[d].saved = Root
          /\ names = Root \/ \E d \in Calls : call[d].pc = "build" /\ call[d].by = Root

CallsOK == \A d \in Calls : CallerOK(d) /\ ResultsOK(d)
KidsOK == \A c \in Kids : KidOK(c)
DelegationInv == Types /\ CallsOK /\ KidsOK /\ NamesOK

-------------------------------------------------------------------------------
\* Numbers, sets and sequences.

LEMMA AgentsFacts ==
    /\ Root \in Agents /\ Root \notin Kids /\ Nobody \notin Agents /\ Kids \subseteq Agents
    /\ \A a \in Agents : a = Root \/ a \in Kids
    /\ MaxDepth \in Nat /\ MaxChildren \in Nat /\ IsFiniteSet(Kids)
<1>1. Kids \subseteq Nat /\ 0 \notin Kids /\ MaxKids \in Nat
  BY DelegationAssumption DEF Kids
<1>2. IsFiniteSet(Kids)
  <2>1. 1 \in Int /\ MaxKids \in Int
    BY <1>1
  <2> QED BY <2>1, FS_Interval DEF Kids
<1>3. MaxDepth \in Nat /\ MaxChildren \in Nat
  BY DelegationAssumption
<1>4. Nobody \notin Agents
  <2>1. Nobody \notin Nat /\ Agents \subseteq Nat
    BY <1>1, DelegationAssumption DEF Agents, Root
  <2> QED BY <2>1
<1>5. Root \in Agents /\ Root \notin Kids /\ Kids \subseteq Agents
  BY <1>1 DEF Agents, Root
<1>6. \A a \in Agents : a = Root \/ a \in Kids
  BY DEF Agents
<1> QED BY <1>2, <1>3, <1>4, <1>5, <1>6

\* SetToSeq lists every element of a finite set once.
LEMMA ListsOnce ==
    ASSUME NEW S, IsFiniteSet(S)
    PROVE  /\ SetToSeq(S) \in Seq(S) /\ Len(SetToSeq(S)) \in Nat
           /\ \A i \in 1..Len(SetToSeq(S)) : SetToSeq(S)[i] \in S
           /\ \A i, j \in 1..Len(SetToSeq(S)) : SetToSeq(S)[i] = SetToSeq(S)[j] => i = j
           /\ \A x \in S : \E i \in 1..Len(SetToSeq(S)) : SetToSeq(S)[i] = x
<1> DEFINE n == Cardinality(S)
           q == SetToSeq(S)
<1>1. n \in Nat /\ ExistsBijection(1..n, S)
  BY FS_CardinalityType
<1>2. \E f \in [1..n -> S] : IsInjective(f)
  BY <1>1 DEF ExistsBijection, Bijection, Injection
<1>3. q \in [1..n -> S] /\ IsInjective(q)
  BY <1>2 DEF SetToSeq
<1> HIDE DEF q
<1>4. q \in Injection(1..n, S)
  BY <1>3 DEF Injection
<1>5. Cardinality(1..n) = n
  BY <1>1, FS_Interval
<1>6. q \in Surjection(1..n, S)
  BY <1>4, <1>5, FS_Injection
<1>7. q \in Seq(S) /\ Len(q) = n
  BY <1>1, <1>3
<1>8. \A i, j \in 1..n : q[i] = q[j] => i = j
  BY <1>3 DEF IsInjective
<1>9. \A x \in S : \E i \in 1..n : q[i] = x
  BY <1>6 DEF Surjection
<1> QED BY <1>1, <1>3, <1>7, <1>8, <1>9 DEF q

-------------------------------------------------------------------------------
\* What a step leaves alone.

\* Children that were built keep their place, and an end is an end.
Grows ==
  \A c \in Kids :
    /\ parent[c] # Nobody => parent'[c] = parent[c] /\ depth'[c] = depth[c]
    /\ run[c] = "over" => run'[c] = "over" /\ entry'[c] = entry[c]

LEMMA SameTree == (tree' = tree /\ life' = life) => Grows
  BY DEF tree, life, Grows

LEMMA CallShape ==
    ASSUME DelegationInv, NEW d \in Calls
    PROVE  /\ call[d] \in Call /\ CallerOK(d) /\ ResultsOK(d)
           /\ call[d].kids \subseteq Kids /\ call[d].size \in Nat /\ call[d].pc \in Pcs
           /\ IsFiniteSet(call[d].kids) /\ Cardinality(call[d].kids) \in Nat
           /\ Remaining(d) \subseteq call[d].kids /\ call[d].saved \in Agents
           /\ call[d].results \in Seq(Kids \X Statuses) /\ Len(call[d].results) \in Nat
           /\ call[d].by \in Agents \cup {Nobody}
<1>1. call[d] \in Call /\ CallerOK(d) /\ ResultsOK(d)
  BY DEF DelegationInv, Types, CallsOK
<1>2. /\ call[d].kids \subseteq Kids /\ call[d].size \in Nat /\ call[d].pc \in Pcs
      /\ call[d].saved \in Agents /\ call[d].results \in Seq(Kids \X Statuses)
      /\ call[d].by \in Agents \cup {Nobody}
  BY <1>1, AgentsFacts DEF Call
<1>3. IsFiniteSet(call[d].kids) /\ Cardinality(call[d].kids) \in Nat
  BY <1>2, AgentsFacts, FS_Subset, FS_CardinalityType
<1>4. Remaining(d) \subseteq call[d].kids
  BY DEF Remaining
<1> QED BY <1>1, <1>2, <1>3, <1>4

LEMMA CallerKept ==
    ASSUME DelegationInv, NEW d \in Calls, Grows,
           call'[d].by = call[d].by, call'[d].size = call[d].size,
           call'[d].pc # "idle" \/ call'[d] = call[d],
           call[d].pc # "idle" \/ call'[d] = call[d],
           call'[d].pc \in {"idle", "build"} => ~call'[d].async,
           call'[d].kids = call[d].kids,
           call'[d].pc \notin {"idle", "build", "failed"} =>
             Cardinality(call[d].kids) = call[d].size
    PROVE  CallerOK(d)'
<1>1. CallerOK(d) /\ call[d].kids \subseteq Kids
  BY CallShape
<1>2. call'[d].pc = "idle" => call'[d] = NoCall
  BY <1>1 DEF CallerOK
<1>3. ASSUME call'[d].pc # "idle"
      PROVE  /\ call[d].by \in Agents /\ DepthOf(call[d].by)' < MaxDepth /\ call[d].size > 0
             /\ call[d].by \in Kids => parent'[call[d].by] # Nobody
  <2>1. /\ call[d].by \in Agents /\ DepthOf(call[d].by) < MaxDepth /\ call[d].size > 0
        /\ call[d].by \in Kids => parent[call[d].by] # Nobody
    BY <1>1, <1>3 DEF CallerOK
  <2>2. call[d].by \in Kids => /\ parent'[call[d].by] # Nobody
                               /\ depth'[call[d].by] = depth[call[d].by]
    BY <2>1 DEF Grows
  <2> QED BY <2>1, <2>2, AgentsFacts DEF DepthOf
<1>4. \A c \in call[d].kids : parent'[c] = call[d].by
  <2>1. ASSUME NEW c \in call[d].kids PROVE parent'[c] = call[d].by
    <3>1. parent[c] = call[d].by /\ call[d].by \in Agents /\ c \in Kids
      <4>1. Cardinality(NoCall.kids) = 0 /\ NoCall.kids = {}
        BY FS_EmptySet DEF NoCall
      <4> QED BY <1>1, <4>1 DEF CallerOK
    <3> QED BY <3>1, AgentsFacts DEF Grows
  <2> QED BY <2>1
<1> QED BY <1>1, <1>2, <1>3, <1>4 DEF CallerOK

LEMMA ResultsKept ==
    ASSUME DelegationInv, NEW d \in Calls, Grows,
           call'[d].results = call[d].results, call[d].kids \subseteq call'[d].kids,
           call'[d].pc \in {"idle", "build", "detach", "dispatch"} =>
             call[d].pc \in {"idle", "build", "detach", "dispatch"},
           call'[d].pc \in {"join", "answered"} => Remaining(d) = {} /\ call'[d].kids = call[d].kids
    PROVE  ResultsOK(d)'
<1>1. ResultsOK(d) /\ call[d].kids \subseteq Kids
  BY CallShape
<1>2. call'[d].pc \in {"join", "answered"} => Remaining(d)' = {}
  BY DEF Remaining
<1>3. ASSUME NEW i \in 1..Len(call[d].results)
      PROVE  LET c == call[d].results[i][1] s == call[d].results[i][2] IN
             c \in call'[d].kids /\ (s = "interrupted" \/ (run'[c] = "over" /\ s = entry'[c]))
  BY <1>1 DEF ResultsOK, Grows
<1> QED BY <1>1, <1>2, <1>3 DEF ResultsOK

\* A call the step does not touch.
LEMMA CallKept ==
    ASSUME DelegationInv, NEW d \in Calls, Grows, call'[d] = call[d]
    PROVE  CallerOK(d)' /\ ResultsOK(d)'
<1>1. CallerOK(d) /\ ResultsOK(d)
  BY CallShape
<1>2. CallerOK(d)'
  BY <1>1, CallerKept DEF CallerOK
<1>3. ResultsOK(d)'
  BY <1>1, ResultsKept DEF ResultsOK
<1> QED BY <1>2, <1>3

LEMMA KidKept ==
    ASSUME DelegationInv, NEW c \in Kids, parent'[c] = parent[c],
           run'[c] = run[c], work'[c] = work[c], entry'[c] = entry[c],
           c \in registered' <=> c \in registered,
           \A a \in Agents : c \in active'[a] => c \in active[a]
    PROVE  KidOK(c)'
<1>1. KidOK(c)
  BY DEF DelegationInv, KidsOK
<1> QED BY <1>1 DEF KidOK

LEMMA NamesKept ==
    ASSUME DelegationInv, parent' = parent, names' = names,
           \A d \in Calls : /\ call'[d].by = call[d].by /\ call'[d].saved = call[d].saved
                            /\ call[d].pc = "build" => call'[d].pc = "build"
    PROVE  NamesOK'
  BY DEF DelegationInv, NamesOK, Flat

\* Call d goes to p with the children k, flag y and results r.
Sets(d, p, k, y, r) ==
  /\ call' \in [Calls -> Call] /\ \A e \in Calls \ {d} : call'[e] = call[e]
  /\ call'[d].pc = p /\ call'[d].kids = k /\ call'[d].async = y /\ call'[d].results = r
  /\ call'[d].by = call[d].by /\ call'[d].size = call[d].size /\ call'[d].saved = call[d].saved

LEMMA SetsPc ==
    ASSUME DelegationInv, NEW d \in Calls, NEW p \in Pcs, call' = [call EXCEPT ![d].pc = p]
    PROVE  Sets(d, p, call[d].kids, call[d].async, call[d].results)
<1>1. call[d] \in Call /\ call \in [Calls -> Call]
  BY DEF DelegationInv, Types
<1> QED BY <1>1 DEF Call, Sets

LEMMA SetsPcAsync ==
    ASSUME DelegationInv, NEW d \in Calls, NEW p \in Pcs, NEW y \in BOOLEAN,
           call' = [call EXCEPT ![d].pc = p, ![d].async = y]
    PROVE  Sets(d, p, call[d].kids, y, call[d].results)
<1>1. call[d] \in Call /\ call \in [Calls -> Call]
  BY DEF DelegationInv, Types
<1> QED BY <1>1 DEF Call, Sets

LEMMA SetsKids ==
    ASSUME DelegationInv, NEW d \in Calls, NEW k \in SUBSET Kids,
           call' = [call EXCEPT ![d].kids = k]
    PROVE  Sets(d, call[d].pc, k, call[d].async, call[d].results)
<1>1. call[d] \in Call /\ call \in [Calls -> Call]
  BY DEF DelegationInv, Types
<1> QED BY <1>1 DEF Call, Sets

LEMMA SetsResults ==
    ASSUME DelegationInv, NEW d \in Calls, NEW p \in Pcs, NEW r \in Seq(Kids \X Statuses),
           call' = [call EXCEPT ![d].pc = p, ![d].results = r]
    PROVE  Sets(d, p, call[d].kids, call[d].async, r)
<1>1. call[d] \in Call /\ call \in [Calls -> Call]
  BY DEF DelegationInv, Types
<1> QED BY <1>1 DEF Call, Sets

LEMMA SetsOneResult ==
    ASSUME DelegationInv, NEW d \in Calls, NEW r \in Seq(Kids \X Statuses),
           call' = [call EXCEPT ![d].results = r]
    PROVE  Sets(d, call[d].pc, call[d].kids, call[d].async, r)
<1>1. call[d] \in Call /\ call \in [Calls -> Call]
  BY DEF DelegationInv, Types
<1> QED BY <1>1 DEF Call, Sets

-------------------------------------------------------------------------------
\* The steps of delegate_task and of the loop that collects.

\* A step that changes one call and, at most, shortens the lists of children.
LEMMA CallStep ==
    ASSUME DelegationInv, NEW d \in Calls, NEW p, NEW k, NEW y, NEW r, Sets(d, p, k, y, r),
           tree' = tree, life' = life, signals' = signals, names' \in Agents,
           active' \in [Agents -> SUBSET Kids], \A a \in Agents : active'[a] \subseteq active[a],
           CallerOK(d)', ResultsOK(d)', NamesOK'
    PROVE  DelegationInv'
<1>1. /\ UNCHANGED <<parent, depth, run, work, entry, registered, flag, due, fan>> /\ Grows
      /\ Types
  BY SameTree DEF tree, life, signals, DelegationInv
<1>2. Types'
  BY <1>1 DEF Types, Sets
<1>3. CallsOK'
  <2>1. ASSUME NEW e \in Calls PROVE CallerOK(e)' /\ ResultsOK(e)'
    <3>1. CASE e = d
      BY <3>1
    <3>2. CASE e # d
      <4>1. call'[e] = call[e]
        BY <3>2 DEF Sets
      <4> QED BY <1>1, <4>1, CallKept
    <3> QED BY <3>1, <3>2
  <2> QED BY <2>1 DEF CallsOK
<1>4. KidsOK'
  <2>1. ASSUME NEW c \in Kids PROVE KidOK(c)'
    BY <1>1, KidKept
  <2> QED BY <2>1 DEF KidsOK
<1> QED BY <1>2, <1>3, <1>4 DEF DelegationInv

LEMMA DelegateInv ==
    ASSUME DelegationInv, NEW d \in Calls, NEW a \in Agents, Delegate(d, a)
    PROVE  DelegationInv'
<1>1. PICK n \in 1..MaxChildren :
        call' = [call EXCEPT ![d] =
            [NoCall EXCEPT !.pc = "build", !.by = a, !.size = n, !.saved = names]]
  BY DEF Delegate
<1>2. /\ UNCHANGED <<parent, depth, run, work, entry, active, registered, flag, due, fan, names>>
      /\ call[d] = NoCall /\ MayDelegate(a) /\ Types /\ Grows /\ names \in Agents
  BY SameTree DEF Delegate, tree, life, signals, DelegationInv, Types
<1>3. n \in Nat /\ n > 0 /\ n <= MaxChildren
  BY AgentsFacts
<1>4. call'[d] = [pc |-> "build", by |-> a, size |-> n, kids |-> {}, async |-> FALSE,
                  saved |-> names, results |-> <<>>]
  BY <1>1, <1>2 DEF Types, NoCall
<1>5. \A e \in Calls \ {d} : call'[e] = call[e]
  BY <1>1, <1>2 DEF Types
<1>6. Types'
  <2>1. call'[d] \in Call
    BY <1>2, <1>3, <1>4, AgentsFacts DEF Call, Pcs
  <2>2. call' \in [Calls -> Call]
    BY <1>1, <1>2, <1>4, <2>1 DEF Types
  <2> QED BY <1>2, <2>2 DEF Types
<1>7. CallerOK(d)' /\ ResultsOK(d)'
  <2>1. DepthOf(a)' < MaxDepth /\ (a \in Kids => parent'[a] # Nobody)
    <3>1. DepthOf(a)' = DepthOf(a)
      BY <1>2 DEF DepthOf
    <3>2. a \in Kids => run[a] # "none"
      BY <1>2, AgentsFacts DEF MayDelegate, DelegationInv, KidsOK, KidOK
    <3> QED BY <1>2, <3>1, <3>2 DEF MayDelegate, DelegationInv, KidsOK, KidOK
  <2>2. Cardinality(call'[d].kids) = 0
    BY <1>4, FS_EmptySet
  <2>3. DepthOf(call[d].by)' < MaxDepth
    BY <1>4, <2>1
  <2> QED BY <1>3, <1>4, <2>1, <2>2, <2>3 DEF CallerOK, ResultsOK
<1>8. CallsOK'
  BY <1>2, <1>5, <1>7, CallKept DEF CallsOK
<1>9. KidsOK'
  <2>1. ASSUME NEW c \in Kids PROVE KidOK(c)'
    BY <1>2, KidKept
  <2> QED BY <2>1 DEF KidsOK
<1>10. NamesOK'
  <2>1. SUFFICES ASSUME Flat
                 PROVE  /\ \A e \in Calls : call'[e].by = Root => call'[e].saved = Root
                        /\ \/ names = Root
                           \/ \E e \in Calls : call'[e].pc = "build" /\ call'[e].by = Root
    BY <1>2 DEF NamesOK, Flat
  <2>2. /\ \A e \in Calls : call[e].by = Root => call[e].saved = Root
        /\ names = Root \/ \E e \in Calls : call[e].pc = "build" /\ call[e].by = Root
    BY <2>1 DEF DelegationInv, NamesOK
  <2>3. \A e \in Calls : call[e].pc = "build" => e # d
    BY <1>2 DEF NoCall
  <2>4. \A e \in Calls : call[e].pc = "build" /\ call[e].by = Root => a # Root
    BY <1>2 DEF MayDelegate, Waits, DelegationInv, CallsOK, CallerOK
  <2> QED BY <1>4, <1>5, <2>2, <2>3, <2>4
<1> QED BY <1>6, <1>8, <1>9, <1>10 DEF DelegationInv

LEMMA BuildInv ==
    ASSUME DelegationInv, NEW d \in Calls, Build(d)
    PROVE  DelegationInv'
<1> DEFINE a == call[d].by
<1>1. PICK c \in Unbuilt :
        /\ parent' = [parent EXCEPT ![c] = a]
        /\ depth' = [depth EXCEPT ![c] = DepthOf(a) + 1]
        /\ run' = [run EXCEPT ![c] = "built"]
        /\ active' = [active EXCEPT ![a] = active[a] \cup {c}]
        /\ names' = c
        /\ call' = [call EXCEPT ![d].kids = call[d].kids \cup {c}]
  BY DEF Build
<1>2. /\ UNCHANGED <<work, entry, registered, flag, due, fan>> /\ call[d].pc = "build"
      /\ Cardinality(call[d].kids) < call[d].size /\ Types
  BY DEF Build, signals, DelegationInv
<1>3. /\ c \in Kids /\ c \in Agents /\ parent[c] = Nobody /\ run[c] = "none" /\ work[c] = "none"
      /\ c \notin registered /\ \A b \in Agents : c \notin active[b]
  BY <1>1, AgentsFacts DEF Unbuilt, DelegationInv, KidsOK, KidOK
<1>4. /\ CallerOK(d) /\ a \in Agents /\ DepthOf(a) < MaxDepth /\ a # Nobody /\ a # c
      /\ a \in Kids => parent[a] # Nobody
      /\ IsFiniteSet(call[d].kids) /\ call[d].kids \subseteq Kids /\ call[d].size \in Nat
  BY <1>2, <1>3, CallShape, AgentsFacts DEF CallerOK
<1>5. /\ parent'[c] = a /\ run'[c] = "built" /\ \A b \in Agents : c \in active'[b] => b = a
      /\ \A k \in Kids \ {c} : /\ parent'[k] = parent[k] /\ depth'[k] = depth[k]
                               /\ run'[k] = run[k]
                               /\ \A b \in Agents : k \in active'[b] => k \in active[b]
  BY <1>1, <1>2, <1>3, <1>4 DEF Types
<1>6. Sets(d, "build", call[d].kids \cup {c}, call[d].async, call[d].results)
  BY <1>1, <1>2, <1>3, <1>4, SetsKids
<1>7. Types'
  <2>1. DepthOf(a) + 1 \in 0..MaxDepth
    BY <1>2, <1>4, AgentsFacts DEF DepthOf, Types
  <2> HIDE DEF a
  <2>2. call' \in [Calls -> Call]
    BY <1>6 DEF Sets
  <2>3. /\ parent' \in [Kids -> Agents \cup {Nobody}] /\ depth' \in [Kids -> 0..MaxDepth]
        /\ run' \in [Kids -> {"none", "built", "waiting", "closing", "over"}]
        /\ active' \in [Agents -> SUBSET Kids]
    BY <1>1, <1>2, <1>3, <1>4, <2>1 DEF Types
  <2> QED BY <1>1, <1>2, <1>3, <2>2, <2>3 DEF Types
<1>8. Grows
  BY <1>2, <1>3, <1>5 DEF Grows
<1>9. CallerOK(d)'
  <2>1. call'[d].pc = "build" /\ call'[d].by = a /\ call'[d].size = call[d].size
        /\ call'[d].kids = call[d].kids \cup {c} /\ call'[d].async = call[d].async
    BY <1>6 DEF Sets
  <2>2. Cardinality(call'[d].kids) <= call[d].size
    <3>1. Cardinality(call[d].kids) \in Nat
      BY CallShape
    <3>2. Cardinality(call[d].kids \cup {c}) =
            IF c \in call[d].kids THEN Cardinality(call[d].kids) ELSE Cardinality(call[d].kids) + 1
      BY <1>4, FS_AddElement
    <3> QED BY <1>2, <1>4, <2>1, <3>1, <3>2
  <2>3. DepthOf(a)' < MaxDepth
    <3>1. a = Root \/ (a \in Kids \ {c} /\ depth'[a] = depth[a])
      BY <1>4, <1>5, AgentsFacts
    <3>2. DepthOf(call[d].by)' = IF a = Root THEN 0 ELSE depth'[a]
      BY <2>1 DEF DepthOf
    <3> QED BY <1>4, <2>1, <3>1, <3>2 DEF DepthOf
  <2>4. \A k \in call'[d].kids : parent'[k] = a
    BY <1>4, <1>5, <2>1 DEF CallerOK
  <2>5. a \in Kids => parent'[a] # Nobody
    BY <1>4, <1>5
  <2> QED BY <1>2, <1>4, <2>1, <2>2, <2>3, <2>4, <2>5 DEF CallerOK
<1>10. ResultsOK(d)'
  BY <1>2, <1>6, <1>8, ResultsKept DEF Sets
<1>11. CallsOK'
  BY <1>6, <1>8, <1>9, <1>10, CallKept DEF CallsOK, Sets
<1>12. KidsOK'
  <2>1. ASSUME NEW k \in Kids PROVE KidOK(k)'
    <3>1. CASE k = c
      BY <1>2, <1>3, <1>4, <1>5, <3>1 DEF KidOK
    <3>2. CASE k # c
      BY <1>2, <1>5, <3>2, KidKept
    <3> QED BY <3>1, <3>2
  <2> QED BY <2>1 DEF KidsOK
<1>13. NamesOK'
  <2>1. SUFFICES ASSUME Flat'
                 PROVE  /\ \A e \in Calls : call'[e].by = Root => call'[e].saved = Root
                        /\ \E e \in Calls : call'[e].pc = "build" /\ call'[e].by = Root
    BY DEF NamesOK
  <2>2. a = Root /\ Flat
    BY <1>3, <1>4, <1>5, <2>1 DEF Flat
  <2>3. \A e \in Calls : call[e].by = Root => call[e].saved = Root
    BY <2>2 DEF DelegationInv, NamesOK
  <2> QED BY <1>6, <2>2, <2>3 DEF Sets
<1> QED BY <1>7, <1>11, <1>12, <1>13 DEF DelegationInv

\* A build that ends, well or not, restores the names it saved.
LEMMA BuildEndsInv ==
    ASSUME DelegationInv, NEW d \in Calls, Built(d) \/ BuildFails(d)
    PROVE  DelegationInv'
<1>1. /\ UNCHANGED <<parent, depth, run, work, entry, active, registered, flag, due, fan>>
      /\ tree' = tree /\ life' = life /\ signals' = signals
      /\ call[d].pc = "build" /\ names' = call[d].saved
  BY DEF Built, BuildFails, tree, life, signals
<1>2. PICK p \in {"detach", "run", "failed"} :
        /\ call' = [call EXCEPT ![d].pc = p]
        /\ p # "failed" => Cardinality(call[d].kids) = call[d].size
        /\ call[d].kids # {} \/ Cardinality(call[d].kids) = call[d].size
  BY DEF Built, BuildFails
<1>3. Sets(d, p, call[d].kids, call[d].async, call[d].results) /\ Grows
  BY <1>1, <1>2, SetsPc, SameTree DEF Pcs
<1>4. /\ CallerOK(d) /\ ResultsOK(d) /\ call[d].saved \in Agents /\ call[d].kids \subseteq Kids
      /\ call[d].results = <<>>
  BY <1>1, CallShape DEF ResultsOK
<1>5. CallerOK(d)'
  BY <1>1, <1>2, <1>3, <1>4, CallerKept DEF Sets
<1>6. ResultsOK(d)'
  BY <1>3, <1>4 DEF Sets, ResultsOK, Remaining
<1>7. PICK c \in Kids : c \in call[d].kids
  <2>1. call[d].size > 0 /\ call[d].size \in Nat
    BY <1>1, <1>4, CallShape DEF CallerOK
  <2>2. call[d].kids # {}
    BY <1>2, <2>1, FS_EmptySet
  <2> QED BY <2>2, <1>4
<1>8. NamesOK'
  <2>1. SUFFICES ASSUME Flat
                 PROVE  /\ \A e \in Calls : call'[e].by = Root => call'[e].saved = Root
                        /\ names' = Root
    BY <1>1 DEF NamesOK, Flat
  <2>2. call[d].by = Root
    BY <1>1, <1>4, <1>7, <2>1, AgentsFacts DEF CallerOK, Flat
  <2> QED BY <1>1, <1>3, <2>1, <2>2 DEF DelegationInv, NamesOK, Sets
<1>9. active' \in [Agents -> SUBSET Kids] /\ \A b \in Agents : active'[b] \subseteq active[b]
  BY <1>1 DEF DelegationInv, Types
<1> QED BY <1>1, <1>3, <1>4, <1>5, <1>6, <1>8, <1>9, CallStep

LEMMA DetachInv ==
    ASSUME DelegationInv, NEW d \in Calls, Detach(d)
    PROVE  DelegationInv'
<1>1. /\ tree' = tree /\ life' = life /\ signals' = signals /\ names' = names /\ parent' = parent
      /\ call[d].pc = "detach" /\ call' = [call EXCEPT ![d].pc = "dispatch"]
      /\ active' = [active EXCEPT ![call[d].by] = active[call[d].by] \ call[d].kids]
  BY DEF Detach, tree
<1>2. Sets(d, "dispatch", call[d].kids, call[d].async, call[d].results) /\ Grows
  BY <1>1, SetsPc, SameTree DEF Pcs
<1>3. CallerOK(d) /\ ResultsOK(d) /\ Types
  BY CallShape DEF DelegationInv
<1>4. CallerOK(d)'
  BY <1>1, <1>2, <1>3, CallerKept DEF Sets, CallerOK
<1>5. ResultsOK(d)'
  BY <1>1, <1>2, <1>3, ResultsKept DEF Sets
<1>6. NamesOK'
  BY <1>1, <1>2, NamesKept DEF Sets
<1>7. active' \in [Agents -> SUBSET Kids] /\ \A b \in Agents : active'[b] \subseteq active[b]
  BY <1>1, <1>3 DEF Types
<1>8. names' \in Agents
  BY <1>1, <1>3 DEF Types
<1> QED BY <1>1, <1>2, <1>4, <1>5, <1>6, <1>7, <1>8, CallStep

LEMMA DispatchInv ==
    ASSUME DelegationInv, NEW d \in Calls, Dispatch(d)
    PROVE  DelegationInv'
<1>1. PICK y \in BOOLEAN : call' = [call EXCEPT ![d].pc = "run", ![d].async = y]
  <2> DEFINE n == Cardinality({e \in Calls : InProgress(e)})
             y == n < MaxChildren
  <2>1. y \in BOOLEAN
    OBVIOUS
  <2>2. call' = [call EXCEPT ![d].pc = "run", ![d].async = y]
    BY DEF Dispatch
  <2> HIDE DEF y
  <2> QED BY <2>1, <2>2
<1>2. /\ tree' = tree /\ life' = life /\ signals' = signals /\ names' = names /\ parent' = parent
      /\ active' = active /\ call[d].pc = "dispatch"
  BY DEF Dispatch, tree
<1>3. Sets(d, "run", call[d].kids, y, call[d].results) /\ Grows
  BY <1>1, <1>2, SetsPcAsync, SameTree DEF Pcs
<1>4. CallerOK(d) /\ ResultsOK(d) /\ Types
  BY CallShape DEF DelegationInv
<1>5. CallerOK(d)'
  BY <1>2, <1>3, <1>4, CallerKept DEF Sets, CallerOK
<1>6. ResultsOK(d)'
  BY <1>2, <1>3, <1>4, ResultsKept DEF Sets
<1>7. NamesOK'
  BY <1>2, <1>3, NamesKept DEF Sets
<1>8. /\ active' \in [Agents -> SUBSET Kids] /\ names' \in Agents
      /\ \A b \in Agents : active'[b] \subseteq active[b]
  BY <1>2, <1>4 DEF Types
<1> QED BY <1>2, <1>3, <1>5, <1>6, <1>7, <1>8, CallStep

LEMMA AnswerInv ==
    ASSUME DelegationInv, NEW d \in Calls, Answer(d)
    PROVE  DelegationInv'
<1>1. /\ tree' = tree /\ life' = life /\ signals' = signals /\ names' = names /\ parent' = parent
      /\ active' = active /\ call[d].pc \in {"run", "join"}
      /\ call[d].pc = "run" => Remaining(d) = {}
      /\ call' = [call EXCEPT ![d].pc = "answered"]
  BY DEF Answer, tree
<1>2. Sets(d, "answered", call[d].kids, call[d].async, call[d].results) /\ Grows
  BY <1>1, SetsPc, SameTree DEF Pcs
<1>3. CallerOK(d) /\ ResultsOK(d) /\ Types
  BY CallShape DEF DelegationInv
<1>4. CallerOK(d)'
  BY <1>1, <1>2, <1>3, CallerKept DEF Sets, CallerOK
<1>5. ResultsOK(d)'
  <2>1. Remaining(d) = {}
    BY <1>1, <1>3 DEF ResultsOK
  <2> QED BY <1>1, <1>2, <2>1, ResultsKept DEF Sets
<1>6. NamesOK'
  BY <1>1, <1>2, NamesKept DEF Sets
<1>7. /\ active' \in [Agents -> SUBSET Kids] /\ names' \in Agents
      /\ \A b \in Agents : active'[b] \subseteq active[b]
  BY <1>1, <1>3 DEF Types
<1> QED BY <1>1, <1>2, <1>4, <1>5, <1>6, <1>7, CallStep

\* Entries about children of a call that have none yet, each child once, and
\* what the results are with them.
Fresh(d, T) ==
  /\ \A i \in 1..Len(T) :
       /\ T[i][1] \in Remaining(d)
       /\ T[i][2] = "interrupted" \/ (run[T[i][1]] = "over" /\ T[i][2] = entry[T[i][1]])
  /\ \A i, j \in 1..Len(T) : T[i][1] = T[j][1] => i = j
Extended(d, T, r) ==
  /\ r \in Seq(Kids \X Statuses)
  /\ \A i, j \in 1..Len(r) : r[i][1] = r[j][1] => i = j
  /\ \A i \in 1..Len(r) :
       /\ r[i][1] \in call[d].kids
       /\ r[i][2] = "interrupted" \/ (run[r[i][1]] = "over" /\ r[i][2] = entry[r[i][1]])
  /\ \A c \in call[d].kids \ Remaining(d) : \E j \in 1..Len(r) : r[j][1] = c
  /\ \A i \in 1..Len(T) : \E j \in 1..Len(r) : r[j][1] = T[i][1]

LEMMA ResultsExtended ==
    ASSUME DelegationInv, NEW d \in Calls, NEW T \in Seq(Kids \X Statuses), Fresh(d, T)
    PROVE  Extended(d, T, call[d].results \o T)
<1> DEFINE r == call[d].results \o T
<1> DEFINE q == call[d].results
<1>1. /\ q \in Seq(Kids \X Statuses) /\ Len(q) \in Nat /\ ResultsOK(d)
      /\ Remaining(d) \subseteq call[d].kids /\ Len(T) \in Nat
  BY CallShape
<1>2. /\ r \in Seq(Kids \X Statuses) /\ Len(r) = Len(q) + Len(T) /\ DOMAIN r = 1..Len(r)
      /\ \A i \in 1..Len(q) : r[i] = q[i]
      /\ \A i \in 1..Len(T) : r[Len(q) + i] = T[i]
  BY <1>1
<1>3. \A i \in 1..Len(q) : q[i][1] \notin Remaining(d)
  <2>1. DOMAIN q = 1..Len(q)
    BY <1>1
  <2> QED BY <2>1 DEF Remaining
<1>4. /\ \A i, j \in 1..Len(q) : q[i][1] = q[j][1] => i = j
      /\ \A i \in 1..Len(q) :
           /\ q[i][1] \in call[d].kids
           /\ q[i][2] = "interrupted" \/ (run[q[i][1]] = "over" /\ q[i][2] = entry[q[i][1]])
  BY <1>1 DEF ResultsOK
<1> HIDE DEF q, r
<1>5. /\ \A i \in 1..Len(T) :
           /\ T[i][1] \in Remaining(d)
           /\ T[i][2] = "interrupted" \/ (run[T[i][1]] = "over" /\ T[i][2] = entry[T[i][1]])
      /\ \A i, j \in 1..Len(T) : T[i][1] = T[j][1] => i = j
  BY DEF Fresh
<1>6. ASSUME NEW i \in 1..Len(r), i \notin 1..Len(q)
      PROVE  \E k \in 1..Len(T) : i = Len(q) + k /\ r[i] = T[k]
  <2>1. PICK k \in 1..Len(T) : i = Len(q) + k
    <3>1. i - Len(q) \in 1..Len(T) /\ i = Len(q) + (i - Len(q))
      BY <1>1, <1>2, <1>6
    <3> QED BY <3>1
  <2>2. r[Len(q) + k] = T[k]
    BY <1>2
  <2> QED BY <2>1, <2>2
<1>7. ASSUME NEW i \in 1..Len(r), NEW j \in 1..Len(r), r[i][1] = r[j][1] PROVE i = j
  <2>1. CASE i \in 1..Len(q) /\ j \in 1..Len(q)
    BY <1>2, <1>4, <1>7, <2>1
  <2>2. CASE i \notin 1..Len(q) /\ j \notin 1..Len(q)
    <3>1. PICK k \in 1..Len(T) : i = Len(q) + k /\ r[i] = T[k]
      BY <1>6, <2>2
    <3>2. PICK l \in 1..Len(T) : j = Len(q) + l /\ r[j] = T[l]
      BY <1>6, <2>2
    <3>3. T[k][1] = T[l][1]
      BY <1>7, <3>1, <3>2
    <3>4. k = l
      BY <1>5, <3>3
    <3> QED BY <3>1, <3>2, <3>4
  <2>3. CASE i \in 1..Len(q) /\ j \notin 1..Len(q)
    <3>1. PICK k \in 1..Len(T) : r[j] = T[k]
      BY <1>6, <2>3
    <3>2. q[i][1] = T[k][1]
      BY <1>2, <1>7, <2>3, <3>1
    <3> QED BY <1>5, <1>3, <2>3, <3>2
  <2>4. CASE i \notin 1..Len(q) /\ j \in 1..Len(q)
    <3>1. PICK k \in 1..Len(T) : r[i] = T[k]
      BY <1>6, <2>4
    <3>2. q[j][1] = T[k][1]
      BY <1>2, <1>7, <2>4, <3>1
    <3> QED BY <1>5, <1>3, <2>4, <3>2
  <2> QED BY <2>1, <2>2, <2>3, <2>4
<1>8. ASSUME NEW i \in 1..Len(r)
      PROVE  /\ r[i][1] \in call[d].kids
             /\ r[i][2] = "interrupted" \/ (run[r[i][1]] = "over" /\ r[i][2] = entry[r[i][1]])
  <2>1. CASE i \in 1..Len(q)
    BY <1>2, <1>4, <2>1
  <2>2. CASE i \notin 1..Len(q)
    <3>1. PICK k \in 1..Len(T) : r[i] = T[k]
      BY <1>6, <2>2
    <3>2. T[k][1] \in call[d].kids
      BY <1>5, <1>1
    <3> QED BY <1>5, <3>1, <3>2
  <2> QED BY <2>1, <2>2
<1>9. ASSUME NEW c \in call[d].kids \ Remaining(d) PROVE \E j \in 1..Len(r) : r[j][1] = c
  <2>1. DOMAIN q = 1..Len(q) /\ 1..Len(q) \subseteq 1..Len(r)
    BY <1>1, <1>2
  <2>2. PICK i \in 1..Len(q) : c = q[i][1]
    BY <2>1 DEF Remaining, q
  <2> QED BY <1>2, <2>1, <2>2
<1>10. ASSUME NEW i \in 1..Len(T) PROVE \E j \in 1..Len(r) : r[j][1] = T[i][1]
  <2>1. Len(q) + i \in 1..Len(r)
    BY <1>1, <1>2
  <2>2. r[Len(q) + i] = T[i]
    BY <1>2
  <2> QED BY <2>1, <2>2
<1> QED BY <1>2, <1>7, <1>8, <1>9, <1>10 DEF q, r, Extended

LEMMA CollectInv ==
    ASSUME DelegationInv, NEW d \in Calls, Collect(d)
    PROVE  DelegationInv'
<1>1. PICK c \in Over(d) \cap Remaining(d) :
        call' = [call EXCEPT ![d].results = Append(call[d].results, <<c, entry[c]>>)]
  BY DEF Collect
<1>2. /\ tree' = tree /\ life' = life /\ signals' = signals /\ names' = names /\ parent' = parent
      /\ active' = active /\ call[d].pc = "run" /\ run' = run /\ entry' = entry /\ Types
  BY DEF Collect, tree, life, DelegationInv
<1>3. c \in Kids /\ c \in Remaining(d) /\ run[c] = "over" /\ entry[c] \in Statuses
  <2>1. c \in Kids /\ run[c] = "over" /\ c \in Remaining(d)
    BY CallShape DEF Over
  <2>2. KidOK(c)
    BY <2>1 DEF DelegationInv, KidsOK
  <2> QED BY <2>1, <2>2 DEF KidOK
<1> DEFINE T == <<<<c, entry[c]>>>>
           r == call[d].results \o T
<1>4. /\ T \in Seq(Kids \X Statuses) /\ Len(T) = 1 /\ T[1] = <<c, entry[c]>>
      /\ Append(call[d].results, <<c, entry[c]>>) = r
  <2>1. call[d].results \in Seq(Kids \X Statuses) /\ <<c, entry[c]>> \in Kids \X Statuses
    BY <1>3, CallShape
  <2>2. PICK X : X = Kids \X Statuses
    OBVIOUS
  <2>3. PICK x \in X : x = <<c, entry[c]>>
    BY <2>1, <2>2
  <2>4. PICK q \in Seq(X) : q = call[d].results
    BY <2>1, <2>2
  <2>5. <<x>> \in Seq(X) /\ Len(<<x>>) = 1 /\ <<x>>[1] = x /\ Append(q, x) = q \o <<x>>
    OBVIOUS
  <2> QED BY <2>2, <2>3, <2>4, <2>5
<1> HIDE DEF T
<1>5. Fresh(d, T)
  BY <1>3, <1>4 DEF Fresh
<1>6. /\ r \in Seq(Kids \X Statuses)
      /\ \A i, j \in 1..Len(r) : r[i][1] = r[j][1] => i = j
      /\ \A i \in 1..Len(r) :
           /\ r[i][1] \in call[d].kids
           /\ r[i][2] = "interrupted" \/ (run[r[i][1]] = "over" /\ r[i][2] = entry[r[i][1]])
  <2>1. Extended(d, T, r)
    BY <1>4, <1>5, ResultsExtended
  <2> QED BY <2>1 DEF Extended
<1> HIDE DEF r
<1>7. Sets(d, "run", call[d].kids, call[d].async, r) /\ Grows
  BY <1>1, <1>2, <1>4, <1>6, SetsOneResult, SameTree
<1>8. CallerOK(d) /\ ResultsOK(d)
  BY CallShape
<1>9. CallerOK(d)'
  BY <1>2, <1>7, <1>8, CallerKept DEF Sets, CallerOK
<1>10. ResultsOK(d)'
  BY <1>2, <1>6, <1>7 DEF Sets, ResultsOK
<1>11. NamesOK'
  BY <1>2, <1>7, NamesKept DEF Sets
<1>12. /\ active' \in [Agents -> SUBSET Kids] /\ names' \in Agents
       /\ \A b \in Agents : active'[b] \subseteq active[b]
  BY <1>2 DEF Types
<1> QED BY <1>2, <1>7, <1>9, <1>10, <1>11, <1>12, CallStep

LEMMA AbandonInv ==
    ASSUME DelegationInv, NEW d \in Calls, Abandon(d)
    PROVE  DelegationInv'
<1> DEFINE S == {GivenUp(c) : c \in Remaining(d)}
           T == SetToSeq(S)
           r == call[d].results \o T
<1>1. /\ tree' = tree /\ life' = life /\ signals' = signals /\ names' = names /\ parent' = parent
      /\ active' = active /\ call[d].pc = "run" /\ run' = run /\ entry' = entry /\ Types
      /\ call' = [call EXCEPT ![d].pc = "join", ![d].results = r]
  BY DEF Abandon, tree, life, DelegationInv
<1>2. /\ \A c \in Remaining(d) : GivenUp(c)[1] = c /\ GivenUp(c) \in Kids \X Statuses
      /\ \A c \in Remaining(d) :
           GivenUp(c)[2] = "interrupted" \/ (run[c] = "over" /\ GivenUp(c)[2] = entry[c])
  <2>1. ASSUME NEW c \in Remaining(d)
        PROVE  /\ GivenUp(c)[1] = c /\ GivenUp(c) \in Kids \X Statuses
               /\ GivenUp(c)[2] = "interrupted" \/ (run[c] = "over" /\ GivenUp(c)[2] = entry[c])
    <3>1. c \in Kids
      BY CallShape
    <3>2. KidOK(c)
      BY <3>1 DEF DelegationInv, KidsOK
    <3>3. run[c] = "over" => entry[c] \in Statuses
      BY <3>2 DEF KidOK
    <3> QED BY <3>1, <3>3 DEF GivenUp, Statuses
  <2> QED BY <2>1
<1>3. IsFiniteSet(S)
  <2> DEFINE f == [c \in Remaining(d) |-> GivenUp(c)]
  <2>1. f \in Surjection(Remaining(d), S)
    BY DEF Surjection
  <2>2. IsFiniteSet(Remaining(d))
    BY CallShape, FS_Subset
  <2> HIDE DEF S, f
  <2> QED BY <2>1, <2>2, FS_Surjection
<1>4. /\ T \in Seq(S) /\ \A i \in 1..Len(T) : T[i] \in S
      /\ \A i, j \in 1..Len(T) : T[i] = T[j] => i = j
      /\ \A x \in S : \E i \in 1..Len(T) : T[i] = x
  <2> HIDE DEF S
  <2> QED BY <1>3, ListsOnce
<1> HIDE DEF T
<1>5. T \in Seq(Kids \X Statuses)
  <2>1. \A x \in S : x \in Kids \X Statuses
    BY <1>2
  <2> HIDE DEF S
  <2> QED BY <1>4, <2>1
<1>6. /\ \A i \in 1..Len(T) :
             /\ T[i][1] \in Remaining(d)
             /\ T[i][2] = "interrupted" \/ (run[T[i][1]] = "over" /\ T[i][2] = entry[T[i][1]])
      /\ \A i, j \in 1..Len(T) : T[i][1] = T[j][1] => i = j
      /\ \A c \in Remaining(d) : \E i \in 1..Len(T) : T[i][1] = c
  <2>1. \A i \in 1..Len(T) : \E c \in Remaining(d) : T[i] = GivenUp(c)
    BY <1>4
  <2>2. ASSUME NEW i \in 1..Len(T), NEW j \in 1..Len(T), T[i][1] = T[j][1] PROVE i = j
    <3>1. PICK c \in Remaining(d), e \in Remaining(d) : T[i] = GivenUp(c) /\ T[j] = GivenUp(e)
      BY <2>1
    <3>2. c = e
      BY <1>2, <2>2, <3>1
    <3> QED BY <1>4, <3>1, <3>2
  <2>3. ASSUME NEW c \in Remaining(d) PROVE \E i \in 1..Len(T) : T[i][1] = c
    <3>1. GivenUp(c) \in S
      OBVIOUS
    <3> QED BY <1>2, <1>4, <3>1
  <2>4. ASSUME NEW i \in 1..Len(T)
        PROVE  /\ T[i][1] \in Remaining(d)
               /\ T[i][2] = "interrupted" \/ (run[T[i][1]] = "over" /\ T[i][2] = entry[T[i][1]])
    <3>1. PICK c \in Remaining(d) : T[i] = GivenUp(c)
      BY <2>1
    <3> QED BY <1>2, <3>1
  <2> QED BY <2>2, <2>3, <2>4
<1>7. /\ r \in Seq(Kids \X Statuses)
      /\ \A i, j \in 1..Len(r) : r[i][1] = r[j][1] => i = j
      /\ \A i \in 1..Len(r) :
           /\ r[i][1] \in call[d].kids
           /\ r[i][2] = "interrupted" \/ (run[r[i][1]] = "over" /\ r[i][2] = entry[r[i][1]])
      /\ \A c \in call[d].kids \ Remaining(d) : \E j \in 1..Len(r) : r[j][1] = c
      /\ \A i \in 1..Len(T) : \E j \in 1..Len(r) : r[j][1] = T[i][1]
  <2>1. Fresh(d, T)
    BY <1>6 DEF Fresh
  <2>2. Extended(d, T, r)
    BY <1>5, <2>1, ResultsExtended
  <2> QED BY <2>2 DEF Extended
<1> HIDE DEF r
<1>8. Sets(d, "join", call[d].kids, call[d].async, r) /\ Grows
  BY <1>1, <1>7, SetsResults, SameTree DEF Pcs
<1>9. CallerOK(d) /\ ResultsOK(d)
  BY CallShape
<1>10. CallerOK(d)'
  BY <1>1, <1>8, <1>9, CallerKept DEF Sets, CallerOK
<1>11. Remaining(d)' = {}
  <2>1. call'[d].kids = call[d].kids /\ call'[d].results = r
    BY <1>8 DEF Sets
  <2>2. ASSUME NEW c \in call[d].kids PROVE \E j \in 1..Len(r) : r[j][1] = c
    <3>1. CASE c \in Remaining(d)
      <4>1. PICK i \in 1..Len(T) : T[i][1] = c
        BY <1>6, <3>1
      <4> QED BY <1>7, <4>1
    <3>2. CASE c \notin Remaining(d)
      BY <1>7, <3>2
    <3> QED BY <3>1, <3>2
  <2>3. DOMAIN r = 1..Len(r)
    BY <1>7
  <2> QED BY <2>1, <2>2, <2>3 DEF Remaining
<1>12. ResultsOK(d)'
  BY <1>1, <1>7, <1>8, <1>11 DEF Sets, ResultsOK
<1>13. NamesOK'
  BY <1>1, <1>8, NamesKept DEF Sets
<1>14. /\ active' \in [Agents -> SUBSET Kids] /\ names' \in Agents
       /\ \A b \in Agents : active'[b] \subseteq active[b]
  BY <1>1 DEF Types
<1> QED BY <1>1, <1>8, <1>10, <1>12, <1>13, <1>14, CallStep

-------------------------------------------------------------------------------
\* The steps of the children's threads.

\* A step of child c leaves the calls and the tree alone.
LEMMA ChildStep ==
    ASSUME DelegationInv, NEW c \in Kids, tree' = tree, call' = call, names' = names, Grows,
           run' \in [Kids -> {"none", "built", "waiting", "closing", "over"}],
           work' \in [Kids -> Outcomes \cup {"none", "running"}],
           entry' \in [Kids -> Statuses \cup {"none"}],
           active' = active, registered' \subseteq Kids, flag' = flag, due' \subseteq Agents,
           fan' = fan, \A k \in Kids \ {c} : /\ run'[k] = run[k] /\ work'[k] = work[k]
                                             /\ entry'[k] = entry[k]
                                             /\ k \in registered' <=> k \in registered,
           KidOK(c)'
    PROVE  DelegationInv'
<1>1. parent' = parent /\ depth' = depth /\ Types
  BY DEF tree, DelegationInv
<1>2. Types'
  BY <1>1 DEF Types
<1>3. CallsOK'
  BY CallKept DEF CallsOK
<1>4. KidsOK'
  <2>1. ASSUME NEW k \in Kids PROVE KidOK(k)'
    <3>1. CASE k = c
      BY <3>1
    <3>2. CASE k # c
      BY <1>1, <3>2, KidKept
    <3> QED BY <3>1, <3>2
  <2> QED BY <2>1 DEF KidsOK
<1>5. NamesOK'
  BY <1>1, NamesKept
<1> QED BY <1>2, <1>3, <1>4, <1>5 DEF DelegationInv

LEMMA KidFacts ==
    ASSUME DelegationInv, NEW c \in Kids
    PROVE  KidOK(c) /\ Types /\ c \in Agents
  BY AgentsFacts DEF DelegationInv, KidsOK

LEMMA StartInv ==
    ASSUME DelegationInv, NEW d \in Calls, NEW c \in Kids, Start(d, c)
    PROVE  DelegationInv'
<1>1. /\ tree' = tree /\ parent' = parent /\ depth' = depth
      /\ UNCHANGED <<call, entry, active, flag, due, fan, names>>
      /\ run[c] = "built" /\ run' = [run EXCEPT ![c] = "waiting"]
      /\ work' = [work EXCEPT ![c] = "running"] /\ registered' = registered \cup {c}
  BY DEF Start, tree, signals
<1>2. KidOK(c) /\ Types
  BY KidFacts
<1>3. Grows
  BY <1>1, <1>2 DEF Grows, Types
<1>4. KidOK(c)'
  BY <1>1, <1>2 DEF KidOK, Types
<1>5. /\ run' \in [Kids -> {"none", "built", "waiting", "closing", "over"}]
      /\ work' \in [Kids -> Outcomes \cup {"none", "running"}]
      /\ entry' \in [Kids -> Statuses \cup {"none"}] /\ registered' \subseteq Kids
      /\ due' \subseteq Agents
      /\ \A k \in Kids \ {c} : /\ run'[k] = run[k] /\ work'[k] = work[k] /\ entry'[k] = entry[k]
                               /\ k \in registered' <=> k \in registered
  BY <1>1, <1>2 DEF Types
<1> QED BY <1>1, <1>3, <1>4, <1>5, ChildStep

\* A child whose lease raises is over at once; its call fails if it is alone.
LEMMA LeaseFailsInv ==
    ASSUME DelegationInv, NEW d \in Calls, NEW c \in Kids, LeaseFails(d, c)
    PROVE  DelegationInv'
<1>1. /\ UNCHANGED <<parent, depth, work, active, registered, flag, due, fan, names>>
      /\ run[c] = "built" /\ run' = [run EXCEPT ![c] = "over"]
      /\ entry' = [entry EXCEPT ![c] = "error"] /\ call[d].pc \in {"run", "join"}
  BY DEF LeaseFails, tree, signals
<1>2. PICK p \in {"run", "join", "failed"} :
        /\ call' = [call EXCEPT ![d].pc = p]
        /\ p = call[d].pc \/ (p = "failed" /\ call[d].size = 1)
  <2>1. CASE call[d].size = 1
    BY <2>1 DEF LeaseFails
  <2>2. CASE call[d].size # 1
    BY <1>1, <2>2 DEF LeaseFails
  <2> QED BY <2>1, <2>2
<1>3. Sets(d, p, call[d].kids, call[d].async, call[d].results)
  BY <1>2, SetsPc DEF Pcs
<1>4. KidOK(c) /\ Types /\ CallerOK(d) /\ ResultsOK(d)
  BY KidFacts, CallShape
<1>5. Grows
  BY <1>1, <1>4 DEF Grows, Types
<1>6. Types'
  <2>1. /\ call' \in [Calls -> Call] /\ run' \in [Kids -> {"none", "built", "waiting", "closing", "over"}]
        /\ entry' \in [Kids -> Statuses \cup {"none"}]
    BY <1>1, <1>3, <1>4 DEF Sets, Types, Statuses
  <2> QED BY <1>1, <1>4, <2>1 DEF Types
<1>7. CallsOK'
  <2>1. CallerOK(d)'
    BY <1>1, <1>2, <1>3, <1>4, <1>5, CallerKept DEF Sets, CallerOK
  <2>2. ResultsOK(d)'
    BY <1>1, <1>2, <1>3, <1>4, <1>5, ResultsKept DEF Sets, ResultsOK
  <2>3. ASSUME NEW e \in Calls, e # d PROVE CallerOK(e)' /\ ResultsOK(e)'
    <3>1. call'[e] = call[e]
      BY <1>3, <2>3 DEF Sets
    <3> QED BY <1>5, <3>1, CallKept
  <2> QED BY <2>1, <2>2, <2>3 DEF CallsOK
<1>8. KidsOK'
  <2>1. ASSUME NEW k \in Kids PROVE KidOK(k)'
    <3>1. CASE k = c
      BY <1>1, <1>4, <3>1 DEF KidOK, Types, Statuses
    <3>2. CASE k # c
      <4>1. run'[k] = run[k] /\ entry'[k] = entry[k]
        BY <1>1, <1>4, <3>2 DEF Types
      <4> QED BY <1>1, <4>1, KidKept
    <3> QED BY <3>1, <3>2
  <2> QED BY <2>1 DEF KidsOK
<1>9. NamesOK'
  <2>1. \A e \in Calls : /\ call'[e].by = call[e].by /\ call'[e].saved = call[e].saved
                         /\ call[e].pc = "build" => call'[e].pc = "build"
    BY <1>1, <1>3 DEF Sets
  <2> QED BY <1>1, <2>1, NamesKept
<1> QED BY <1>6, <1>7, <1>8, <1>9 DEF DelegationInv

LEMMA ConverseInv ==
    ASSUME DelegationInv, NEW c \in Kids, Converse(c)
    PROVE  DelegationInv'
<1>1. PICK o \in Outcomes : work' = [work EXCEPT ![c] = o]
  BY DEF Converse, Outcomes
<1>2. /\ tree' = tree /\ parent' = parent /\ depth' = depth /\ work[c] = "running"
      /\ UNCHANGED <<call, run, entry, active, registered, flag, due, fan, names>>
  BY DEF Converse, tree, signals
<1>3. KidOK(c) /\ Types
  BY KidFacts
<1>4. Grows
  BY <1>2 DEF Grows
<1>5. KidOK(c)'
  BY <1>1, <1>2, <1>3 DEF KidOK, Types, Outcomes
<1>6. /\ run' \in [Kids -> {"none", "built", "waiting", "closing", "over"}]
      /\ work' \in [Kids -> Outcomes \cup {"none", "running"}]
      /\ entry' \in [Kids -> Statuses \cup {"none"}] /\ registered' \subseteq Kids
      /\ due' \subseteq Agents
      /\ \A k \in Kids \ {c} : /\ run'[k] = run[k] /\ work'[k] = work[k] /\ entry'[k] = entry[k]
                               /\ k \in registered' <=> k \in registered
  BY <1>1, <1>2, <1>3 DEF Types
<1> QED BY <1>2, <1>4, <1>5, <1>6, ChildStep

\* The child's result, its exception or its time limit ends the wait for it.
LEMMA WaitEndsInv ==
    ASSUME DelegationInv, NEW c \in Kids, Deliver(c) \/ Timeout(c)
    PROVE  DelegationInv'
<1>1. /\ tree' = tree /\ parent' = parent /\ depth' = depth /\ run[c] = "waiting"
      /\ UNCHANGED <<call, work, active, registered, flag, fan, names>>
      /\ run' = [run EXCEPT ![c] = "closing"] /\ (due' = due \/ due' = due \cup {c})
  BY DEF Deliver, Timeout, tree
<1>2. KidOK(c) /\ Types /\ c \in Agents
  BY KidFacts
<1>3. PICK s \in Statuses : entry' = [entry EXCEPT ![c] = s]
  BY DEF Deliver, Timeout, Statuses
<1>4. work[c] # "none"
  BY <1>1, <1>2 DEF KidOK
<1>5. Grows
  BY <1>1, <1>2, <1>3 DEF Grows, Types
<1>6. KidOK(c)'
  BY <1>1, <1>2, <1>3, <1>4 DEF KidOK, Types
<1>7. /\ run' \in [Kids -> {"none", "built", "waiting", "closing", "over"}]
      /\ work' \in [Kids -> Outcomes \cup {"none", "running"}]
      /\ entry' \in [Kids -> Statuses \cup {"none"}] /\ registered' \subseteq Kids
      /\ due' \subseteq Agents
      /\ \A k \in Kids \ {c} : /\ run'[k] = run[k] /\ work'[k] = work[k] /\ entry'[k] = entry[k]
                               /\ k \in registered' <=> k \in registered
  BY <1>1, <1>2, <1>3, <1>4 DEF Types
<1> QED BY <1>1, <1>5, <1>6, <1>7, ChildStep

\* The finally block restores the names its call saved.
LEMMA CloseInv ==
    ASSUME DelegationInv, NEW c \in Kids, Close(c)
    PROVE  DelegationInv'
<1>1. /\ UNCHANGED <<parent, depth, call, work, entry, flag, due, fan>>
      /\ run[c] = "closing" /\ run' = [run EXCEPT ![c] = "over"]
      /\ registered' = registered \ {c}
      /\ active' = [a \in Agents |-> IF a \in Below(c) THEN {} ELSE active[a] \ {c}]
  BY DEF Close, tree, signals
<1>2. PICK d \in Calls : c \in call[d].kids /\ names' = call[d].saved
  BY DEF Close
<1>3. KidOK(c) /\ Types /\ c \in Agents /\ call[d].saved \in Agents /\ CallerOK(d)
  BY KidFacts, CallShape
<1>4. Grows
  BY <1>1, <1>3 DEF Grows, Types
<1>5. \A a \in Agents : active'[a] \subseteq active[a]
  BY <1>1
<1>6. Types'
  <2>1. active' \in [Agents -> SUBSET Kids]
    BY <1>1, <1>3 DEF Types
  <2> QED BY <1>1, <1>2, <1>3, <2>1 DEF Types
<1>7. CallsOK'
  BY <1>1, <1>4, CallKept DEF CallsOK
<1>8. KidsOK'
  <2>1. ASSUME NEW k \in Kids PROVE KidOK(k)'
    <3>1. CASE k = c
      BY <1>1, <1>3, <1>5, <3>1 DEF KidOK, Types
    <3>2. CASE k # c
      <4>1. run'[k] = run[k] /\ (k \in registered' <=> k \in registered)
        BY <1>1, <1>3, <3>2 DEF Types
      <4> QED BY <1>1, <1>5, <4>1, KidKept
    <3> QED BY <3>1, <3>2
  <2> QED BY <2>1 DEF KidsOK
<1>9. NamesOK'
  <2>1. SUFFICES ASSUME Flat PROVE names' = Root /\ \A e \in Calls : call[e].by = Root =>
                                                                    call[e].saved = Root
    BY <1>1 DEF NamesOK, Flat
  <2>2. \A e \in Calls : call[e].by = Root => call[e].saved = Root
    BY <2>1 DEF DelegationInv, NamesOK
  <2>3. parent[c] = call[d].by /\ parent[c] # Nobody
    BY <1>1, <1>2, <1>3 DEF CallerOK, KidOK
  <2>4. call[d].by = Root
    BY <2>1, <2>3 DEF Flat
  <2> QED BY <1>2, <2>2, <2>4
<1> QED BY <1>6, <1>7, <1>8, <1>9 DEF DelegationInv

\* An interrupt changes nothing but the signals.
LEMMA SignalsInv ==
    ASSUME DelegationInv, tree' = tree, call' = call, life' = life, active' = active,
           names' = names, flag' \subseteq Agents, due' \subseteq Agents, fan' \subseteq Agents
    PROVE  DelegationInv'
<1>1. /\ UNCHANGED <<parent, depth, run, work, entry, registered>> /\ Types /\ Grows
  BY SameTree DEF tree, life, DelegationInv
<1>2. Types'
  BY <1>1 DEF Types
<1>3. CallsOK'
  BY <1>1, CallKept DEF CallsOK
<1>4. KidsOK'
  BY <1>1, KidKept DEF KidsOK
<1>5. NamesOK'
  BY <1>1, NamesKept
<1> QED BY <1>2, <1>3, <1>4, <1>5 DEF DelegationInv

LEMMA InterruptsInv ==
    ASSUME DelegationInv,
           (\E a \in Agents : Flag(a) \/ FanOut(a)) \/ Interrupt \/ TurnEnds
    PROVE  DelegationInv'
<1>1. Types
  BY DEF DelegationInv
<1>2. ASSUME NEW a \in Agents, Flag(a) PROVE DelegationInv'
  <2>1. /\ tree' = tree /\ call' = call /\ life' = life /\ active' = active /\ names' = names
        /\ flag' = flag \cup {a} /\ due' = due \ {a} /\ fan' = fan \cup {a}
    BY <1>2 DEF Flag
  <2> QED BY <1>1, <2>1, SignalsInv DEF Types
<1>3. ASSUME NEW a \in Agents, FanOut(a) PROVE DelegationInv'
  <2>1. /\ tree' = tree /\ call' = call /\ life' = life /\ active' = active /\ names' = names
        /\ flag' = flag /\ due' = due \cup active[a] /\ fan' = fan \ {a}
    BY <1>3 DEF FanOut
  <2>2. active[a] \subseteq Agents
    BY <1>1, AgentsFacts DEF Types
  <2> QED BY <1>1, <2>1, <2>2, SignalsInv DEF Types
<1>4. CASE Interrupt
  <2>1. /\ tree' = tree /\ call' = call /\ life' = life /\ active' = active /\ names' = names
        /\ flag' = flag /\ fan' = fan /\ due \subseteq due'
    BY <1>4 DEF Interrupt
  <2>2. due' \subseteq Agents
    <3>1. \A d \in Calls : call[d].kids \subseteq Agents
      BY CallShape, AgentsFacts
    <3> QED BY <1>1, <1>4, <3>1, AgentsFacts DEF Interrupt, Types
  <2> QED BY <1>1, <2>1, <2>2, SignalsInv DEF Types
<1>5. CASE TurnEnds
  <2>1. /\ tree' = tree /\ call' = call /\ life' = life /\ active' = active /\ names' = names
        /\ flag' = flag \ {Root} /\ due' = due /\ fan' = fan
    BY <1>5 DEF TurnEnds
  <2> QED BY <1>1, <2>1, SignalsInv, AgentsFacts DEF Types
<1> QED BY <1>2, <1>3, <1>4, <1>5

-------------------------------------------------------------------------------
\* The invariant of every execution, and what follows from it.

LEMMA InitInv == Init => DelegationInv
<1> SUFFICES ASSUME Init PROVE DelegationInv
  OBVIOUS
<1>1. NoCall \in Call
  BY AgentsFacts DEF NoCall, Call, Pcs
<1>2. Types
  BY <1>1, AgentsFacts DEF Init, Types
<1>3. ASSUME NEW d \in Calls PROVE CallerOK(d) /\ ResultsOK(d)
  <2>1. call[d] = NoCall /\ Cardinality({}) = 0
    BY FS_EmptySet DEF Init
  <2> QED BY <2>1, AgentsFacts DEF NoCall, CallerOK, ResultsOK
<1>4. ASSUME NEW c \in Kids PROVE KidOK(c)
  BY DEF Init, KidOK
<1>5. NamesOK
  BY AgentsFacts DEF Init, NamesOK, NoCall
<1> QED BY <1>2, <1>3, <1>4, <1>5 DEF DelegationInv, CallsOK, KidsOK

LEMMA NextInv == DelegationInv /\ [Next]_vars => DelegationInv'
<1> SUFFICES ASSUME DelegationInv, [Next]_vars PROVE DelegationInv'
  OBVIOUS
<1>1. ASSUME NEW d \in Calls, NEW a \in Agents, Delegate(d, a) PROVE DelegationInv'
  BY <1>1, DelegateInv
<1>2. ASSUME NEW d \in Calls, Proceed(d) \/ BuildFails(d) \/ \E c \in Kids : LeaseFails(d, c)
      PROVE  DelegationInv'
  BY <1>2, BuildInv, BuildEndsInv, DetachInv, DispatchInv, StartInv, LeaseFailsInv, CollectInv,
     AbandonInv, AnswerInv DEF Proceed
<1>3. ASSUME NEW c \in Kids, Converse(c) \/ Deliver(c) \/ Timeout(c) \/ Close(c)
      PROVE  DelegationInv'
  BY <1>3, ConverseInv, WaitEndsInv, CloseInv
<1>4. CASE (\E a \in Agents : Flag(a) \/ FanOut(a)) \/ Interrupt \/ TurnEnds
  BY <1>4, InterruptsInv
<1>5. CASE UNCHANGED vars
  <2>1. /\ tree' = tree /\ call' = call /\ life' = life /\ active' = active /\ names' = names
        /\ flag' = flag /\ due' = due /\ fan' = fan
    BY <1>5 DEF vars, tree, life
  <2> QED BY <2>1, SignalsInv DEF DelegationInv, Types
<1> QED BY <1>1, <1>2, <1>3, <1>4, <1>5 DEF Next

LEMMA DelegationInvariant == Spec => []DelegationInv
  BY InitInv, NextInv, PTL DEF Spec

\* The types of the delegation state; a list of attached children has only
\* children of that agent, and a child is registered, its credential leased,
\* exactly while _run_single_child waits for it or closes it.
THEOREM DelegationTypes == Spec => []TypeOK
<1>1. ASSUME DelegationInv PROVE TypeOK
  <2>1. Types
    BY <1>1 DEF DelegationInv
  <2>2. ASSUME NEW d \in Calls
        PROVE  /\ call[d].pc \in {"idle", "build", "failed", "detach", "dispatch", "run", "join",
                                  "answered"}
               /\ call[d].by \in Agents \cup {Nobody} /\ call[d].async \in BOOLEAN
               /\ call[d].kids \subseteq Kids /\ Cardinality(call[d].kids) <= call[d].size
               /\ call[d].results \in Seq(Kids \X Statuses)
    <3>1. call[d] \in Call /\ CallerOK(d)
      BY <1>1, CallShape
    <3> QED BY <3>1 DEF Call, CallerOK, Pcs
  <2>3. \A a \in Agents : active[a] \subseteq {c \in Kids : parent[c] = a}
    BY <1>1, <2>1 DEF DelegationInv, KidsOK, KidOK, Types
  <2>4. registered = {c \in Kids : run[c] \in {"waiting", "closing"}}
    BY <1>1, <2>1 DEF DelegationInv, KidsOK, KidOK, Types
  <2> QED BY <2>1, <2>2, <2>3, <2>4 DEF TypeOK, Types
<1> QED BY <1>1, DelegationInvariant, PTL DEF Spec

\* A call that has answered has one entry for each of its tasks and for none
\* twice, whatever its children did while _execute_and_aggregate collected.
THEOREM OneEntryEach == Spec => []OneEntryPerTask
<1>1. ASSUME DelegationInv PROVE OneEntryPerTask
  <2>1. ASSUME NEW d \in Calls, call[d].pc = "answered"
        PROVE  Len(call[d].results) = call[d].size /\ Remaining(d) = {}
    <3> DEFINE n == Len(call[d].results)
               f == [i \in 1..n |-> call[d].results[i][1]]
    <3>1. /\ Remaining(d) = {} /\ Cardinality(call[d].kids) = call[d].size
          /\ IsFiniteSet(call[d].kids) /\ n \in Nat /\ ResultsOK(d)
          /\ DOMAIN call[d].results = 1..n
      BY <1>1, <2>1, CallShape DEF CallerOK, ResultsOK
    <3>2. f \in [1..n -> call[d].kids] /\ \A i, j \in 1..n : f[i] = f[j] => i = j
      BY <3>1 DEF ResultsOK
    <3>3. \A c \in call[d].kids : \E i \in 1..n : f[i] = c
      BY <3>1 DEF Remaining
    <3> HIDE DEF f, n
    <3>4. f \in Bijection(1..n, call[d].kids)
      BY <3>2, <3>3 DEF Bijection, Injection, Surjection, IsInjective
    <3>5. IsFiniteSet(1..n) /\ Cardinality(1..n) = n
      BY <3>1, FS_Interval
    <3>6. Cardinality(call[d].kids) = n
      BY <3>4, <3>5, FS_Bijection DEF ExistsBijection
    <3> QED BY <3>1, <3>6 DEF n
  <2> QED BY <2>1 DEF OneEntryPerTask
<1> QED BY <1>1, DelegationInvariant, PTL

\* As long as no child has delegated in its turn, the process-wide tool names
\* are the top-level agent's whenever no call is building its children.
THEOREM NamesAreRestored == Spec => []NamesRestored
<1>1. ASSUME DelegationInv PROVE NamesRestored
  BY <1>1 DEF DelegationInv, NamesOK, Flat, NamesRestored
<1> QED BY <1>1, DelegationInvariant, PTL
===============================================================================
