--------------------------- MODULE FileToolsProofs ---------------------------
(***************************************************************************)
(* The file tools of FileTools, for every number of agents, concurrent     *)
(* calls, files and cache entries: dicts that stay dicts, locks nobody     *)
(* waits for in a circle, and patches that are never lost.                 *)
(***************************************************************************)
EXTENDS FileTools, SequenceTheorems, WellFoundedInduction, TLAPS

------------------------------------------------------------------------------
(* The dicts of the tracker.                                               *)

\* What a key is mapped to is the value of an entry with that key.
LEMMA LookupIs ==
    ASSUME NEW d, NEW k, NEW v
    PROVE  v \in Lookup(d, k) <=> \E i \in DOMAIN d : d[i].key = k /\ d[i].val = v
BY DEF Lookup

\* The entries of a dict.
LEMMA DictIs ==
    ASSUME NEW V, NEW d \in Dicts(V)
    PROVE  /\ d \in Seq([key : Paths, val : V]) /\ Len(d) \in Nat /\ Len(d) <= Cap
           /\ DOMAIN d = 1..Len(d)
           /\ \A i \in DOMAIN d : d[i] \in [key : Paths, val : V]
           /\ \A i, j \in DOMAIN d : d[i].key = d[j].key => i = j
<1>1. d \in Seq([key : Paths, val : V])
  BY DEF Dicts
<1> QED
  BY <1>1, LenProperties, ElementOfSeq DEF Dicts

\* A function on an initial segment is a sequence.
LEMMA FunctionIsSeq ==
    ASSUME NEW S, NEW n \in Nat, NEW f \in [1..n -> S]
    PROVE  f \in Seq(S) /\ Len(f) = n
<1>1. f \in Seq(S)
  BY SeqDef
<1>2. Len(f) \in Nat /\ 1..Len(f) = 1..n
  BY <1>1, LenProperties
<1> QED
  BY <1>1, <1>2

\* Evicting the oldest entries of a dict that may hold one too many leaves a
\* dict without new entries.
LEMMA CappedDict ==
    ASSUME NEW V, NEW d \in Seq([key : Paths, val : V]), Len(d) <= Cap + 1,
           \A i, j \in DOMAIN d : d[i].key = d[j].key => i = j
    PROVE  /\ Capped(d) \in Dicts(V)
           /\ \A k : Lookup(Capped(d), k) \subseteq Lookup(d, k)
<1>1. Cap \in Nat \ {0} /\ Len(d) \in Nat /\ DOMAIN d = 1..Len(d)
  BY FileToolsAssumption, LenProperties
<1>2. CASE Len(d) <= Cap
  BY <1>1, <1>2 DEF Capped, Dicts
<1>3. CASE Len(d) = Cap + 1
  <2> DEFINE e == SubSeq(d, 2, Len(d))
  <2>1. Capped(d) = e
    BY <1>1, <1>3 DEF Capped
  <2>2. /\ e \in Seq([key : Paths, val : V]) /\ Len(e) = Cap
        /\ \A i \in 1..Cap : e[i] = d[i + 1]
    <3>1. \A i \in 2..Len(d) : d[i] \in [key : Paths, val : V]
      <4>1. \A i \in 2..Len(d) : i \in 1..Len(d)
        BY <1>1
      <4> QED
        BY <4>1, ElementOfSeq
    <3>2. /\ e \in Seq([key : Paths, val : V])
          /\ Len(e) = IF 2 <= Len(d) THEN Len(d) - 2 + 1 ELSE 0
          /\ \A i \in 1..(Len(d) - 2 + 1) : e[i] = d[2 + i - 1]
      BY <1>1, <3>1, SubSeqProperties
    <3> HIDE DEF e
    <3>3. /\ Len(e) = Cap /\ Len(d) - 2 + 1 = Cap
          /\ \A i \in 1..Cap : 2 + i - 1 = i + 1
      BY <1>1, <1>3, <3>2
    <3> QED
      BY <3>2, <3>3
  <2>3. DOMAIN e = 1..Cap
    BY <2>2, LenProperties
  <2>4. \A i, j \in DOMAIN e : e[i].key = e[j].key => i = j
    <3> SUFFICES ASSUME NEW i \in DOMAIN e, NEW j \in DOMAIN e, e[i].key = e[j].key
                 PROVE  i = j
      OBVIOUS
    <3> HIDE DEF e
    <3>1. i + 1 \in DOMAIN d /\ j + 1 \in DOMAIN d /\ e[i] = d[i + 1] /\ e[j] = d[j + 1]
      BY <1>1, <1>3, <2>2, <2>3
    <3>2. i + 1 = j + 1
      BY <3>1
    <3> QED
      BY <3>2, <2>3, <1>1
  <2>5. \A k : Lookup(e, k) \subseteq Lookup(d, k)
    <3> SUFFICES ASSUME NEW k, NEW v \in Lookup(e, k) PROVE v \in Lookup(d, k)
      OBVIOUS
    <3> HIDE DEF e
    <3>1. PICK i \in DOMAIN e : e[i].key = k /\ e[i].val = v
      BY LookupIs
    <3>2. i + 1 \in DOMAIN d /\ e[i] = d[i + 1]
      BY <1>1, <1>3, <2>2, <2>3
    <3> QED
      BY <3>1, <3>2, LookupIs
  <2> HIDE DEF e
  <2>6. Len(e) <= Cap
    BY <2>2, <1>1
  <2>7. e \in Dicts(V)
    BY <2>2, <2>4, <2>6 DEF Dicts
  <2> QED
    BY <2>1, <2>5, <2>7
<1>4. Len(d) <= Cap \/ Len(d) = Cap + 1
  <2>1. \A m, n \in Nat : m <= n + 1 => m <= n \/ m = n + 1
    OBVIOUS
  <2> QED
    BY <1>1, <2>1
<1> QED
  BY <1>2, <1>3, <1>4

\* Assigning to a key leaves a dict that maps it to the value, or has evicted
\* it, and the other keys to what they were.
LEMMA PutDict ==
    ASSUME NEW V, NEW d \in Dicts(V), NEW k \in Paths, NEW v \in V
    PROVE  /\ Capped(Put(d, k, v)) \in Dicts(V)
           /\ Lookup(Capped(Put(d, k, v)), k) \subseteq {v}
           /\ \A p : p # k => Lookup(Capped(Put(d, k, v)), p) \subseteq Lookup(d, p)
<1> DEFINE e == Put(d, k, v)
<1>0. Cap \in Nat
  BY FileToolsAssumption
<1>1. CASE Lookup(d, k) = {}
  <2>1. e = Append(d, [key |-> k, val |-> v])
    BY <1>1 DEF Put
  <2>2. /\ e \in Seq([key : Paths, val : V]) /\ Len(e) = Len(d) + 1
        /\ \A i \in 1..Len(d) : e[i] = d[i]
        /\ e[Len(d) + 1] = [key |-> k, val |-> v]
    <3>1. d \in Seq([key : Paths, val : V])
          /\ [key |-> k, val |-> v] \in [key : Paths, val : V]
      BY DictIs
    <3> QED
      BY <2>1, <3>1, AppendProperties
  <2>3. DOMAIN e = 1..(Len(d) + 1)
    BY <2>2, LenProperties
  <2> HIDE DEF e
  <2>4. \A i \in DOMAIN d : d[i].key # k
    BY <1>1, LookupIs
  <2>5. \A i, j \in DOMAIN e : e[i].key = e[j].key => i = j
    BY <2>2, <2>3, <2>4, DictIs
  <2>6. \A p : p # k => Lookup(e, p) \subseteq Lookup(d, p)
    BY <2>2, <2>3, DictIs, LookupIs
  <2>7. Lookup(e, k) \subseteq {v}
    BY <2>2, <2>3, <2>4, DictIs, LookupIs
  <2>8. Len(e) <= Cap + 1
    BY <2>2, DictIs, <1>0
  <2>9. Capped(e) \in Dicts(V) /\ \A p : Lookup(Capped(e), p) \subseteq Lookup(e, p)
    BY <2>2, <2>5, <2>8, CappedDict
  <2> QED
    BY <2>6, <2>7, <2>9 DEF e
<1>2. CASE Lookup(d, k) # {}
  <2>1. e = [i \in DOMAIN d |-> IF d[i].key = k THEN [d[i] EXCEPT !.val = v] ELSE d[i]]
    BY <1>2 DEF Put
  <2> HIDE DEF e
  <2>0. /\ Len(d) \in Nat /\ Len(d) <= Cap /\ DOMAIN d = 1..Len(d)
        /\ \A i \in DOMAIN d : d[i] \in [key : Paths, val : V]
        /\ \A i, j \in DOMAIN d : d[i].key = d[j].key => i = j
    BY DictIs
  <2>2. DOMAIN e = 1..Len(d) /\ e \in [1..Len(d) -> [key : Paths, val : V]]
    BY <2>0, <2>1
  <2>3. e \in Seq([key : Paths, val : V]) /\ Len(e) = Len(d)
    BY <2>0, <2>2, FunctionIsSeq
  <2>4. \A i \in DOMAIN e :
           e[i].key = d[i].key /\ e[i].val = IF d[i].key = k THEN v ELSE d[i].val
    BY <2>0, <2>1
  <2>5. \A i, j \in DOMAIN e : e[i].key = e[j].key => i = j
    BY <2>0, <2>2, <2>4
  <2>6. \A p : p # k => Lookup(e, p) \subseteq Lookup(d, p)
    BY <2>2, <2>4, DictIs, LookupIs
  <2>7. Lookup(e, k) \subseteq {v}
    BY <2>2, <2>4, DictIs, LookupIs
  <2>8. Len(e) <= Cap + 1
    BY <2>3, DictIs, <1>0
  <2>9. Capped(e) \in Dicts(V) /\ \A p : Lookup(Capped(e), p) \subseteq Lookup(e, p)
    BY <2>3, <2>5, <2>8, CappedDict
  <2> QED
    BY <2>6, <2>7, <2>9 DEF e
<1> QED
  BY <1>1, <1>2

\* Dropping a key leaves a dict without new entries.
LEMMA DropDict ==
    ASSUME NEW V, NEW d \in Dicts(V), NEW k
    PROVE  /\ Drop(d, k) \in Dicts(V)
           /\ \A p : Lookup(Drop(d, k), p) \subseteq Lookup(d, p)
<1>1. CASE Lookup(d, k) = {}
  BY <1>1 DEF Drop
<1>2. CASE Lookup(d, k) # {}
  <2> DEFINE i == CHOOSE j \in DOMAIN d : d[j].key = k
             L == SubSeq(d, 1, i - 1)
             R == SubSeq(d, i + 1, Len(d))
             e == L \o R
  <2>1. i \in DOMAIN d
    BY <1>2, LookupIs
  <2>0. /\ d \in Seq([key : Paths, val : V])
        /\ Len(d) \in Nat /\ Len(d) <= Cap /\ DOMAIN d = 1..Len(d)
        /\ \A j \in DOMAIN d : d[j] \in [key : Paths, val : V]
        /\ \A j, l \in DOMAIN d : d[j].key = d[l].key => j = l
    BY DictIs
  <2>2. i \in 1..Len(d)
    BY <2>0, <2>1
  <2>3. Drop(d, k) = e
    BY <1>2 DEF Drop, RemoveAt
  <2> HIDE DEF i
  <2>4. /\ L \in Seq([key : Paths, val : V]) /\ Len(L) = i - 1
        /\ \A j \in 1..(i - 1) : L[j] = d[j]
    <3>1. /\ L \in Seq([key : Paths, val : V])
          /\ Len(L) = IF 1 <= i - 1 THEN i - 1 - 1 + 1 ELSE 0
          /\ \A j \in 1..(i - 1 - 1 + 1) : L[j] = d[1 + j - 1]
      BY <2>0, <2>2, SubSeqProperties
    <3> HIDE DEF L
    <3> QED
      BY <2>0, <2>2, <3>1
  <2>5. /\ R \in Seq([key : Paths, val : V]) /\ Len(R) = Len(d) - i
        /\ \A j \in 1..(Len(d) - i) : R[j] = d[i + j]
    <3>1. /\ R \in Seq([key : Paths, val : V])
          /\ Len(R) = IF i + 1 <= Len(d) THEN Len(d) - (i + 1) + 1 ELSE 0
          /\ \A j \in 1..(Len(d) - (i + 1) + 1) : R[j] = d[i + 1 + j - 1]
      BY <2>0, <2>2, SubSeqProperties
    <3> HIDE DEF R
    <3>2. /\ Len(d) - (i + 1) + 1 = Len(d) - i
          /\ ~(i + 1 <= Len(d)) => Len(d) - i = 0
      <4>1. \A m \in Nat : \A n \in 1..m : /\ m - (n + 1) + 1 = m - n
                                           /\ ~(n + 1 <= m) => m - n = 0
        OBVIOUS
      <4> QED
        BY <2>0, <2>2, <4>1
    <3>3. \A j \in 1..(Len(d) - i) : i + 1 + j - 1 = i + j
      BY <2>0, <2>2
    <3> QED
      BY <3>1, <3>2, <3>3
  <2> HIDE DEF L, R
  <2>6. /\ e \in Seq([key : Paths, val : V]) /\ Len(e) = Len(d) - 1
        /\ \A j \in 1..(Len(d) - 1) : e[j] = IF j < i THEN d[j] ELSE d[j + 1]
    <3>1. /\ e \in Seq([key : Paths, val : V]) /\ Len(e) = Len(L) + Len(R)
          /\ \A j \in 1..(Len(L) + Len(R)) :
                e[j] = IF j <= Len(L) THEN L[j] ELSE R[j - Len(L)]
      BY <2>4, <2>5, ConcatProperties
    <3> HIDE DEF e
    <3>2. Len(L) + Len(R) = Len(d) - 1
      BY <2>0, <2>2, <2>4, <2>5
    <3>3. ASSUME NEW j \in 1..(Len(d) - 1)
          PROVE  e[j] = IF j < i THEN d[j] ELSE d[j + 1]
      <4>1. CASE j < i
        <5>1. j \in 1..(i - 1) /\ j <= Len(L)
          BY <2>0, <2>2, <2>4, <4>1
        <5> QED
          BY <5>1, <2>4, <3>1, <3>2, <4>1
      <4>2. CASE ~(j < i)
        <5>1. /\ j - (i - 1) \in 1..(Len(d) - i) /\ ~(j <= Len(L))
              /\ i + (j - (i - 1)) = j + 1
          BY <2>0, <2>2, <2>4, <4>2
        <5>2. e[j] = R[j - (i - 1)]
          BY <2>4, <3>1, <3>2, <5>1
        <5>3. R[j - (i - 1)] = d[i + (j - (i - 1))]
          BY <2>5, <5>1
        <5> QED
          BY <4>2, <5>1, <5>2, <5>3
      <4> QED
        BY <4>1, <4>2
    <3> QED
      BY <3>1, <3>2, <3>3
  <2> HIDE DEF e
  <2>7. DOMAIN e = 1..(Len(d) - 1)
    BY <2>6, LenProperties
  <2>8. \A j \in DOMAIN e : (IF j < i THEN j ELSE j + 1) \in DOMAIN d
    BY <2>0, <2>2, <2>7
  <2>9. \A j, l \in DOMAIN e : e[j].key = e[l].key => j = l
    <3> SUFFICES ASSUME NEW j \in DOMAIN e, NEW l \in DOMAIN e, e[j].key = e[l].key
                 PROVE  j = l
      OBVIOUS
    <3>1. (IF j < i THEN j ELSE j + 1) = (IF l < i THEN l ELSE l + 1)
      BY <2>0, <2>2, <2>6, <2>7, <2>8
    <3> QED
      BY <3>1, <2>0, <2>2, <2>7
  <2>10. \A p : Lookup(e, p) \subseteq Lookup(d, p)
    BY <2>6, <2>7, <2>8, LookupIs
  <2>11. Len(e) <= Cap
    BY <2>0, <2>6, FileToolsAssumption
  <2> QED
    BY <2>3, <2>6, <2>9, <2>10, <2>11 DEF Dicts
<1> QED
  BY <1>1, <1>2

\* What a dict maps to is among its values.
LEMMA LookupTypes ==
    ASSUME NEW V, NEW d \in Dicts(V), NEW k
    PROVE  Lookup(d, k) \subseteq V
<1> SUFFICES ASSUME NEW v \in Lookup(d, k) PROVE v \in V
  OBVIOUS
<1>1. PICK i \in DOMAIN d : d[i].key = k /\ d[i].val = v
  BY LookupIs
<1>2. d[i] \in [key : Paths, val : V]
  BY DictIs
<1> QED
  BY <1>1, <1>2

\* A dict of old mtimes is one of old and new mtimes.
LEMMA DictGrows ==
    ASSUME NEW V, NEW W, V \subseteq W, NEW d \in Dicts(V)
    PROVE  d \in Dicts(W)
<1>1. /\ Len(d) \in Nat /\ Len(d) <= Cap /\ d \in [1..Len(d) -> [key : Paths, val : V]]
      /\ \A i, j \in DOMAIN d : d[i].key = d[j].key => i = j
  BY DictIs, LenProperties
<1>2. d \in [1..Len(d) -> [key : Paths, val : W]]
  BY <1>1
<1>3. d \in Seq([key : Paths, val : W])
  BY <1>1, <1>2, FunctionIsSeq
<1> QED
  BY <1>1, <1>3 DEF Dicts

\* The value of a key that is there is one of its values.
LEMMA CountIs ==
    ASSUME NEW V, NEW d \in Dicts(V), NEW k, Lookup(d, k) # {}
    PROVE  Count(d, k) \in Lookup(d, k) /\ Count(d, k) \in V
<1>1. Count(d, k) \in Lookup(d, k)
  BY DEF Count
<1>2. PICK i \in DOMAIN d : d[i].key = k /\ d[i].val = Count(d, k)
  BY <1>1, LookupIs
<1>3. d[i] \in [key : Paths, val : V]
  BY DictIs
<1> QED
  BY <1>1, <1>2, <1>3

\* An mtime that may not be there is stored, or nothing is.
LEMMA PutAllDict ==
    ASSUME NEW V, NEW d \in Dicts(V), NEW k \in Paths, NEW vs \in SUBSET V
    PROVE  PutAll(d, k, vs) \in Dicts(V)
<1>1. CASE vs = {}
  BY <1>1 DEF PutAll
<1>2. CASE vs # {}
  <2>1. PICK v \in vs : v = CHOOSE w \in vs : TRUE
    BY <1>2
  <2>2. PutAll(d, k, vs) = Capped(Put(d, k, v))
    BY <1>2, <2>1 DEF PutAll
  <2> QED
    BY <2>1, <2>2, PutDict
<1> QED
  BY <1>1, <1>2

------------------------------------------------------------------------------
(* Types.                                                                  *)

Locked == {"lock", "load", "store", "stamp", "restamp", "note", "unlock"}
Reading == {"stat", "read", "track", "record"}
Ops == {"none", "read", "write", "replace", "v4a"}
Calls == [pc : {"idle"} \cup Locked \cup Reading, op : Ops, names : Seq(Names), at : Seq(Paths),
          mine : SUBSET Paths, todo : SUBSET Paths, next : Nat \ {0}, got : Known,
          shown : SUBSET (Paths \X Known), base : Seq([path : Paths, edits : SUBSET Known]),
          warn : BOOLEAN, gone : BOOLEAN]

\* A read has one name; a change has some, and one whose stamp is next; every
\* name has a path, and a patch that writes has loaded one content for each.
Shaped(c) ==
    /\ Len(c.at) = Len(c.names)
    /\ c.pc \in Reading => Len(c.names) = 1
    /\ c.pc \in Locked => Len(c.names) > 0
    /\ c.pc \in {"stamp", "restamp", "note"} => c.next \in DOMAIN c.names
    /\ c.pc \notin {"stamp", "note", "unlock"} => c.next = 1
    /\ c.pc = "store" /\ c.op # "write" => Len(c.base) = Len(c.names)

FilesTyped == /\ changes \in Nat
              /\ file \in [Paths -> [there : BOOLEAN, ver : Known, edits : SUBSET Known]]
              /\ kept \in [Paths -> SUBSET Known] /\ stray \in SUBSET Paths
PlaceTyped == /\ host \in {"same", "none", "other"} /\ shell \in Dirs
              /\ cwd \in [Owners -> Dirs \cup {Unset}]
TracksTyped == tracker \in [Tasks -> Trackers]
SharedTyped == /\ registry \in [known : SUBSET (Tasks \X Paths), stale : SUBSET (Tasks \X Paths)]
               /\ registry.stale \subseteq registry.known
LocksTyped == locks \in [Paths -> Slots \cup {NoCall}]
SeenTyped == seen \in [Tasks -> SUBSET (Paths \X Known)]
CallsTyped == call \in [Slots -> Calls] /\ \A s \in Slots : Shaped(call[s])

TypeInv == /\ FilesTyped /\ PlaceTyped /\ TracksTyped /\ SharedTyped /\ LocksTyped
           /\ SeenTyped /\ CallsTyped

\* The types of the specification are among them.
LEMMA TypesAreOK == TypeInv => TypeOK
BY DEF TypeInv, FilesTyped, PlaceTyped, TracksTyped, SharedTyped, LocksTyped, TypeOK

\* What a name means is a path, for the tools and for the shell.
LEMMA ResolvedPath ==
    ASSUME PlaceTyped, NEW n \in Names
    PROVE  ShellPath(n) \in Paths /\ \A t \in Owners : ResolvePath(n, t) \in Paths
<1>1. \A t \in Owners : BaseDir(t) \in Dirs
  BY FileToolsAssumption DEF PlaceTyped, BaseDir, WorkspaceRoot
<1>2. n # Relative => n \in Paths
  BY DEF Names
<1>3. \A d \in Dirs : <<d>> \in Paths
  BY FileToolsAssumption
<1> QED
  BY <1>1, <1>2, <1>3 DEF ResolvePath, ShellPath, PlaceTyped

\* So is what each of a call's names means.
LEMMA ResolvedPaths ==
    ASSUME PlaceTyped, NEW t \in Owners, NEW ns \in Seq(Names)
    PROVE  /\ Resolved(ns, t) \in Seq(Paths) /\ Len(Resolved(ns, t)) = Len(ns)
           /\ Len(ns) \in Nat /\ DOMAIN ns = 1..Len(ns)
           /\ \A i \in DOMAIN ns : ns[i] \in Names
           /\ Range(Resolved(ns, t)) \subseteq Paths
<1>1. DOMAIN ns = 1..Len(ns) /\ Len(ns) \in Nat /\ \A i \in DOMAIN ns : ns[i] \in Names
  BY LenProperties, ElementOfSeq
<1>2. Resolved(ns, t) \in [1..Len(ns) -> Paths]
  BY <1>1, ResolvedPath DEF Resolved
<1>3. Resolved(ns, t) \in Seq(Paths) /\ Len(Resolved(ns, t)) = Len(ns)
  BY <1>1, <1>2, FunctionIsSeq
<1> QED
  BY <1>1, <1>2, <1>3 DEF Range

\* A slot's agent has its directory.
LEMMA Agents == \A s \in Slots : TaskOf[s] \in Tasks /\ TaskOf[s] \in Owners /\ Default \in Owners
BY FileToolsAssumption DEF Owners

\* The files a call in progress writes are paths.
LEMMA TargetPath ==
    ASSUME TypeInv, NEW s \in Slots, NEW i \in DOMAIN call[s].names
    PROVE  Target(s, i) \in Paths /\ call[s].names[i] \in Names /\ call[s].at[i] \in Paths
<1>1. /\ call[s].names \in Seq(Names) /\ call[s].at \in Seq(Paths)
      /\ Len(call[s].at) = Len(call[s].names) /\ PlaceTyped
  BY DEF TypeInv, CallsTyped, Calls, Shaped
<1>2. call[s].names[i] \in Names /\ i \in DOMAIN call[s].at
  BY <1>1, LenProperties, ElementOfSeq
<1>3. call[s].at[i] \in Paths
  BY <1>1, <1>2, LenProperties, ElementOfSeq
<1> QED
  BY <1>1, <1>2, <1>3, ResolvedPath DEF Target

\* An mtime is one of the changes.
LEMMA MtimeIs ==
    ASSUME FilesTyped, NEW p \in Paths
    PROVE  Mtime(p) \in SUBSET Known
BY DEF FilesTyped, Mtime, Known

\* As changes are made, the old ones stay known.
LEMMA Grows ==
    ASSUME FilesTyped, changes' \in {changes, changes + 1}
    PROVE  /\ Known \subseteq Known' /\ 0 \in Known /\ changes' \in Known' /\ changes' \in Nat
           /\ Calls \subseteq Calls' /\ Trackers \subseteq Trackers'
<1>1. Known \subseteq Known' /\ 0 \in Known /\ changes' \in Known' /\ changes' \in Nat
  BY DEF FilesTyped, Known
<1>2. \A d \in Dicts(Known) : d \in Dicts(Known')
  BY <1>1, DictGrows
<1>3. Trackers \subseteq Trackers'
  <2>1. Trackers' = [made : BOOLEAN, key : Keys, count : Nat, dedup : Dicts(Known'),
                     hits : Dicts(Nat), stamps : Dicts(Known')]
    BY DEF Trackers, Keys, Names, Paths, Dicts
  <2> QED
    BY <1>2, <2>1 DEF Trackers
<1>4. ASSUME NEW b \in Seq([path : Paths, edits : SUBSET Known])
      PROVE  b \in Seq([path : Paths, edits : SUBSET Known'])
  <2>1. [path : Paths, edits : SUBSET Known] \subseteq [path : Paths, edits : SUBSET Known']
    BY <1>1
  <2>2. Len(b) \in Nat /\ b \in [1..Len(b) -> [path : Paths, edits : SUBSET Known]]
    BY LenProperties
  <2>3. b \in [1..Len(b) -> [path : Paths, edits : SUBSET Known']]
    BY <2>1, <2>2
  <2> QED
    BY <2>2, <2>3, FunctionIsSeq
<1>5. SUBSET (Paths \X Known) \subseteq SUBSET (Paths \X Known')
  BY <1>1
<1>6. Calls' = [pc : {"idle"} \cup Locked \cup Reading, op : Ops, names : Seq(Names), at : Seq(Paths),
          mine : SUBSET Paths, todo : SUBSET Paths, next : Nat \ {0}, got : Known',
          shown : SUBSET (Paths \X Known'), base : Seq([path : Paths, edits : SUBSET Known']),
          warn : BOOLEAN, gone : BOOLEAN]
  BY DEF Calls, Names, Paths
<1>7. Calls \subseteq Calls'
  BY <1>1, <1>4, <1>5, <1>6 DEF Calls
<1> QED
  BY <1>1, <1>3, <1>7

\* What a step leaves alone keeps its type.
LEMMA KeptTypes ==
    ASSUME TypeInv, changes' \in {changes, changes + 1}
    PROVE  /\ UNCHANGED <<file, kept, stray>> => FilesTyped'
           /\ UNCHANGED place => PlaceTyped'
           /\ UNCHANGED tracker => TracksTyped'
           /\ UNCHANGED registry => SharedTyped'
           /\ UNCHANGED locks => LocksTyped'
           /\ UNCHANGED seen => SeenTyped'
           /\ UNCHANGED call => CallsTyped'
<1>1. /\ Known \subseteq Known' /\ changes' \in Nat
      /\ Calls \subseteq Calls' /\ Trackers \subseteq Trackers'
  BY Grows DEF TypeInv
<1>2. UNCHANGED <<file, kept, stray>> => FilesTyped'
  BY <1>1 DEF TypeInv, FilesTyped
<1>3. UNCHANGED place => PlaceTyped'
  BY DEF TypeInv, PlaceTyped, place, Owners
<1>4. UNCHANGED tracker => TracksTyped'
  BY <1>1 DEF TypeInv, TracksTyped
<1>5. UNCHANGED registry => SharedTyped'
  BY DEF TypeInv, SharedTyped
<1>6. UNCHANGED locks => LocksTyped'
  BY DEF TypeInv, LocksTyped
<1>7. UNCHANGED seen => SeenTyped'
  BY <1>1 DEF TypeInv, SeenTyped
<1>8. UNCHANGED call => CallsTyped'
  BY <1>1 DEF TypeInv, CallsTyped, Shaped
<1> QED
  BY <1>2, <1>3, <1>4, <1>5, <1>6, <1>7, <1>8

\* The step changes no call but s, whose record keeps its type.
CallStep(s) ==
    /\ call' = [call EXCEPT ![s] = call'[s]]
    /\ call'[s] \in Calls /\ Shaped(call'[s])
    /\ changes' \in {changes, changes + 1}

\* Then all calls keep theirs.
LEMMA CallTypes ==
    ASSUME TypeInv, NEW s \in Slots, CallStep(s)
    PROVE  CallsTyped' /\ \A o \in Slots : o # s => call'[o] = call[o]
<1>1. Calls \subseteq Calls'
  BY Grows DEF TypeInv, CallStep
<1>2. call' \in [Slots -> Calls] /\ \A o \in Slots : o # s => call'[o] = call[o]
  BY DEF TypeInv, CallsTyped, CallStep
<1>3. \A o \in Slots : Shaped(call'[o])
  BY <1>2 DEF TypeInv, CallsTyped, CallStep
<1> QED
  BY <1>1, <1>2, <1>3 DEF CallsTyped, Shaped

\* What one call is when its record is replaced.
LEMMA CallIs ==
    ASSUME TypeInv, NEW s \in Slots, NEW c, call' = [call EXCEPT ![s] = c]
    PROVE  /\ call'[s] = c /\ call' = [call EXCEPT ![s] = call'[s]]
           /\ call[s] \in Calls /\ Shaped(call[s])
BY DEF TypeInv, CallsTyped

\* The entry of one agent is replaced.
LEMMA TrackStep ==
    ASSUME TypeInv, NEW t \in Tasks, NEW c \in Trackers, tracker' = [tracker EXCEPT ![t] = c],
           changes' = changes
    PROVE  TracksTyped'
<1>1. Trackers \subseteq Trackers'
  BY Grows DEF TypeInv
<1> QED
  BY <1>1 DEF TypeInv, TracksTyped

\* Idle has the type of a call.
LEMMA IdleCall ==
    ASSUME TypeInv
    PROVE  Idle \in Calls /\ Shaped(Idle)
<1>1. 0 \in Known
  BY DEF TypeInv, FilesTyped, Known
<1>2. <<>> \in Seq(Names) /\ <<>> \in Seq(Paths)
      /\ <<>> \in Seq([path : Paths, edits : SUBSET Known]) /\ Len(<<>>) = 0
  BY EmptySeq
<1>3. Idle \in Calls
  BY <1>1, <1>2 DEF Idle, Calls, Ops
<1>4. Shaped(Idle)
  BY <1>2 DEF Idle, Shaped, Reading, Locked
<1> QED
  BY <1>3, <1>4

------------------------------------------------------------------------------
(* The steps of a call.                                                    *)

\* The call goes on, with its files and the locks it has.
Moves(s) ==
    /\ CallStep(s)
    /\ call'[s].mine = call[s].mine /\ call'[s].todo = call[s].todo /\ call'[s].op = call[s].op
    /\ call'[s].pc \in Locked <=> call[s].pc \in Locked
    /\ call'[s].pc # call[s].pc => call[s].pc # "lock" \/ call[s].todo = {}

\* A change of the place in the program, to one that needs nothing new.
LEMMA GotoMoves ==
    ASSUME TypeInv, NEW s \in Slots, NEW pc, Goto(s, pc), changes' \in {changes, changes + 1},
           \/ call[s].pc \in {"stat", "read"} /\ pc \in {"read", "track"}
           \/ call[s].pc = "store" /\ pc \in {"stamp", "restamp", "unlock"}
           \/ call[s].pc = "stamp" /\ pc = "note"
           \/ call[s].pc = "restamp" /\ pc = "unlock"
    PROVE  Moves(s) /\ call'[s] = [call[s] EXCEPT !.pc = pc]
<1>1. call' = [call EXCEPT ![s] = [call[s] EXCEPT !.pc = pc]]
  BY DEF Goto
<1>2. /\ call'[s] = [call[s] EXCEPT !.pc = pc] /\ call' = [call EXCEPT ![s] = call'[s]]
      /\ call[s] \in Calls /\ Shaped(call[s])
  BY <1>1, CallIs
<1>3. call'[s] \in Calls
  BY <1>2 DEF Calls, Locked, Reading
<1>4. Len(call[s].names) \in Nat /\ DOMAIN call[s].names = 1..Len(call[s].names)
  BY <1>2, LenProperties DEF Calls
<1>5. Shaped(call'[s])
  BY <1>2, <1>4 DEF Calls, Shaped, Locked, Reading
<1>6. /\ call'[s].mine = call[s].mine /\ call'[s].todo = call[s].todo /\ call'[s].op = call[s].op
      /\ call'[s].pc = pc
  BY <1>2 DEF Calls
<1> QED
  BY <1>2, <1>3, <1>5, <1>6 DEF Moves, CallStep, Locked

\* The shell reads.
LEMMA ReadContentMoves ==
    ASSUME TypeInv, NEW s \in Slots, ReadContent(s)
    PROVE  Moves(s) /\ call'[s].pc = "track"
<1> DEFINE p == ShellPath(call[s].names[1])
           sh == {<<p, file[p].ver>>}
           c == [call[s] EXCEPT !.pc = "track", !.shown = sh]
<1>1. call' = [call EXCEPT ![s] = c] /\ call[s].pc = "read" /\ changes' = changes
  BY DEF ReadContent, counters
<1>2. call'[s] = c /\ call' = [call EXCEPT ![s] = call'[s]] /\ call[s] \in Calls /\ Shaped(call[s])
  BY <1>1, CallIs
<1>3. call[s].names[1] \in Names
  <2>1. Len(call[s].names) = 1 /\ call[s].names \in Seq(Names)
    BY <1>1, <1>2 DEF Shaped, Reading, Calls
  <2> QED
    BY <2>1, LenProperties, ElementOfSeq
<1>4. p \in Paths /\ file[p].ver \in Known
  BY <1>3, ResolvedPath DEF TypeInv, FilesTyped
<1>5. sh \in SUBSET (Paths \X Known)
  BY <1>4
<1> HIDE DEF sh
<1>6. c \in Calls
  BY <1>2, <1>5 DEF Calls, Reading
<1>7. Shaped(c)
  BY <1>1, <1>2 DEF Calls, Shaped, Locked, Reading
<1>8. c.mine = call[s].mine /\ c.todo = call[s].todo /\ c.op = call[s].op /\ c.pc = "track"
  BY <1>2 DEF Calls
<1> QED
  BY <1>1, <1>2, <1>6, <1>7, <1>8 DEF Moves, CallStep, Locked

\* A read is tracked; a call is given up.
LEMMA FlagMoves ==
    ASSUME TypeInv, NEW s \in Slots, ReadTrack(s) \/ GiveUp(s)
    PROVE  Moves(s) /\ (GiveUp(s) => call'[s].pc = call[s].pc /\ call'[s].base = call[s].base
                                     /\ call'[s].names = call[s].names)
<1>1. call[s] \in Calls /\ Shaped(call[s]) /\ Len(call[s].names) \in Nat
  BY LenProperties DEF TypeInv, CallsTyped, Calls
<1>2. ASSUME ReadTrack(s) PROVE Moves(s)
  <2> DEFINE w == Repeated(Counted(tracker[TaskOf[s]], <<"read", call[s].names[1]>>))
  <2>0. w \in BOOLEAN
    BY DEF Repeated
  <2>1. call' = [call EXCEPT ![s] = [call[s] EXCEPT !.pc = "record", !.warn = w]] /\ w \in BOOLEAN
    BY <1>2, <2>0 DEF ReadTrack
  <2> HIDE DEF w
  <2> DEFINE c == [call[s] EXCEPT !.pc = "record", !.warn = w]
  <2>2. call'[s] = c /\ call' = [call EXCEPT ![s] = call'[s]] /\ call[s].pc = "track" /\ changes' = changes
    BY <1>2, <2>1, CallIs DEF ReadTrack, counters
  <2>3. c \in Calls
    BY <1>1, <2>1 DEF Calls, Reading
  <2>4. Shaped(c)
    BY <1>1, <2>2 DEF Calls, Shaped, Locked, Reading
  <2>5. c.mine = call[s].mine /\ c.todo = call[s].todo /\ c.op = call[s].op /\ c.pc = "record"
    BY <1>1 DEF Calls
  <2> QED
    BY <2>2, <2>3, <2>4, <2>5 DEF Moves, CallStep, Locked
<1>3. ASSUME GiveUp(s) PROVE Moves(s) /\ call'[s].pc = call[s].pc /\ call'[s].base = call[s].base
                             /\ call'[s].names = call[s].names
  <2> DEFINE c == [call[s] EXCEPT !.gone = TRUE]
  <2>1. call' = [call EXCEPT ![s] = c] /\ changes' = changes
    BY <1>3 DEF GiveUp, Other
  <2>2. call'[s] = c /\ call' = [call EXCEPT ![s] = call'[s]]
    BY <2>1, CallIs
  <2>3. c \in Calls
    BY <1>1 DEF Calls
  <2>4. Shaped(c)
    BY <1>1 DEF Calls, Shaped
  <2>5. /\ c.mine = call[s].mine /\ c.todo = call[s].todo /\ c.op = call[s].op /\ c.pc = call[s].pc
        /\ c.base = call[s].base /\ c.names = call[s].names
    BY <1>1 DEF Calls
  <2> QED
    BY <2>1, <2>2, <2>3, <2>4, <2>5 DEF Moves, CallStep
<1> QED
  BY <1>2, <1>3

\* The warnings are collected, under the locks.
LEMMA CheckMoves ==
    ASSUME TypeInv, NEW s \in Slots, Check(s)
    PROVE  Moves(s) /\ call'[s].pc = (IF call[s].op = "write" THEN "store" ELSE "load")
<1> DEFINE w == Warned(s)
           a == Looked(s)
           pc == IF call[s].op = "write" THEN "store" ELSE "load"
           c == [call[s] EXCEPT !.warn = w, !.at = a, !.pc = pc]
<1>1. call' = [call EXCEPT ![s] = c] /\ call[s].pc = "lock" /\ call[s].todo = {} /\ changes' = changes
  BY DEF Check, AtCheck, counters
<1> HIDE DEF w, a, pc
<1>2. call'[s] = c /\ call' = [call EXCEPT ![s] = call'[s]] /\ call[s] \in Calls /\ Shaped(call[s])
  BY <1>1, CallIs
<1>3. w \in BOOLEAN /\ pc \in {"store", "load"} /\ (pc = "store" <=> call[s].op = "write")
  <2>1. w \in BOOLEAN
    <3>1. Warned(s) \in BOOLEAN
      <4>1. CASE Warned(s)
        BY <4>1
      <4>2. CASE ~Warned(s)
        <5>1. Warned(s) = FALSE
          BY <4>2 DEF Warned
        <5> QED
          BY <5>1
      <4> QED
        BY <4>1, <4>2
    <3> QED
      BY <3>1 DEF w
  <2> QED
    BY <2>1 DEF pc
<1>4. a \in Seq(Paths) /\ Len(a) = Len(call[s].names)
  <2>1. call[s].names \in Seq(Names) /\ call[s].at \in Seq(Paths) /\ Len(call[s].at) = Len(call[s].names)
    BY <1>2 DEF Calls, Shaped
  <2> QED
    BY <2>1, Agents, ResolvedPaths DEF Looked, TypeInv, a
<1>5. c \in Calls
  BY <1>2, <1>3, <1>4 DEF Calls, Locked
<1>6. Shaped(c)
  BY <1>1, <1>2, <1>3, <1>4 DEF Calls, Shaped, Locked, Reading
<1>7. c.mine = call[s].mine /\ c.todo = call[s].todo /\ c.op = call[s].op /\ c.pc = pc
  BY <1>2 DEF Calls
<1>8. Moves(s)
  BY <1>1, <1>2, <1>3, <1>5, <1>6, <1>7 DEF Moves, CallStep, Locked
<1> QED
  BY <1>2, <1>7, <1>8 DEF pc

\* A patch loads, for each name, one file's edits.
LEMMA LoadMoves ==
    ASSUME TypeInv, NEW s \in Slots, Load(s)
    PROVE  /\ Moves(s) /\ call'[s].pc = "store" /\ call'[s].names = call[s].names
           /\ \A i \in DOMAIN call[s].names :
                 call'[s].base[i].path \in Paths
                 /\ call'[s].base[i].edits = file[call'[s].base[i].path].edits
<1> DEFINE b == [i \in DOMAIN call[s].names |-> [path |-> Target(s, i), edits |-> file[Target(s, i)].edits]]
           c == [call[s] EXCEPT !.pc = "store", !.base = b]
<1>1. call' = [call EXCEPT ![s] = c] /\ call[s].pc = "load" /\ changes' = changes
  BY DEF Load, counters
<1>2. call'[s] = c /\ call' = [call EXCEPT ![s] = call'[s]] /\ call[s] \in Calls /\ Shaped(call[s])
  BY <1>1, CallIs
<1>3. DOMAIN call[s].names = 1..Len(call[s].names) /\ Len(call[s].names) \in Nat
  BY <1>2, LenProperties DEF Calls
<1>4. \A i \in DOMAIN call[s].names : b[i] \in [path : Paths, edits : SUBSET Known]
  BY TargetPath DEF TypeInv, FilesTyped
<1>5. b \in [1..Len(call[s].names) -> [path : Paths, edits : SUBSET Known]]
  BY <1>3, <1>4
<1>6. b \in Seq([path : Paths, edits : SUBSET Known]) /\ Len(b) = Len(call[s].names)
  BY <1>3, <1>5, FunctionIsSeq
<1>7. \A i \in DOMAIN call[s].names : b[i].path \in Paths /\ b[i].edits = file[b[i].path].edits
  BY TargetPath
<1> HIDE DEF b
<1>8. c \in Calls
  BY <1>2, <1>6 DEF Calls, Locked
<1>9. Shaped(c)
  BY <1>1, <1>2, <1>3, <1>6 DEF Calls, Shaped, Locked, Reading
<1>10. /\ c.mine = call[s].mine /\ c.todo = call[s].todo /\ c.op = call[s].op /\ c.pc = "store"
       /\ c.base = b /\ c.names = call[s].names
  BY <1>2 DEF Calls
<1> QED
  <2>1. Moves(s)
    BY <1>1, <1>2, <1>8, <1>9, <1>10 DEF Moves, CallStep, Locked
  <2> QED
    BY <1>2, <1>7, <1>10, <2>1

\* The next name has its turn.
LEMMA NoteMoves ==
    ASSUME TypeInv, NEW s \in Slots, Note(s)
    PROVE  Moves(s) /\ call'[s].pc \in {"stamp", "unlock"}
<1> DEFINE more == call[s].next < Len(call[s].names)
           pc == IF more THEN "stamp" ELSE "unlock"
           c == [call[s] EXCEPT !.pc = pc, !.next = call[s].next + 1]
<1>1. call' = [call EXCEPT ![s] = c] /\ call[s].pc = "note" /\ changes' = changes
  BY DEF Note, counters
<1>2. call'[s] = c /\ call' = [call EXCEPT ![s] = call'[s]] /\ call[s] \in Calls /\ Shaped(call[s])
  BY <1>1, CallIs
<1>3. DOMAIN call[s].names = 1..Len(call[s].names) /\ Len(call[s].names) \in Nat
      /\ call[s].next \in Nat \ {0}
  BY <1>2, LenProperties DEF Calls
<1>4. pc \in {"stamp", "unlock"} /\ call[s].next + 1 \in Nat \ {0}
      /\ (pc = "stamp" => call[s].next + 1 \in DOMAIN call[s].names)
  BY <1>3
<1> HIDE DEF pc
<1>5. c \in Calls
  BY <1>2, <1>4 DEF Calls, Locked
<1>6. Shaped(c)
  BY <1>1, <1>2, <1>3, <1>4 DEF Calls, Shaped, Locked, Reading
<1>7. c.mine = call[s].mine /\ c.todo = call[s].todo /\ c.op = call[s].op /\ c.pc = pc
  BY <1>2 DEF Calls
<1> QED
  BY <1>1, <1>2, <1>4, <1>5, <1>6, <1>7 DEF Moves, CallStep, Locked

\* The steps that leave everything but the call alone.
Quiet(s) == \/ ReadChanged(s) \/ ReadContent(s) \/ (ReadFails(s) /\ Goto(s, "track"))
            \/ Check(s) \/ Load(s) \/ StoreFails(s) \/ GiveUp(s)

LEMMA QuietTypes ==
    ASSUME TypeInv, NEW s \in Slots, Quiet(s)
    PROVE  /\ Moves(s) /\ TypeInv' /\ UNCHANGED <<file, kept, stray, locks, changes>>
           /\ call'[s].pc = "store" => Check(s) \/ Load(s) \/ GiveUp(s)
<1>1. UNCHANGED <<file, place, tracker, registry, locks, seen, kept, stray, changes>>
  BY DEF Quiet, ReadChanged, ReadContent, ReadFails, Check, Load, StoreFails, GiveUp, Other,
         ghosts, counters, place
<1>2. ASSUME ReadChanged(s) PROVE Moves(s) /\ call'[s].pc = "read"
  <2>1. Goto(s, "read") /\ call[s].pc = "stat"
    BY <1>2 DEF ReadChanged
  <2>2. Moves(s) /\ call'[s] = [call[s] EXCEPT !.pc = "read"] /\ call[s] \in Calls
    BY <1>1, <2>1, GotoMoves DEF TypeInv, CallsTyped
  <2> QED
    BY <2>2 DEF Calls
<1>3. ASSUME ReadFails(s), Goto(s, "track") PROVE Moves(s) /\ call'[s].pc = "track"
  <2>1. call[s].pc = "read"
    BY <1>3 DEF ReadFails
  <2>2. Moves(s) /\ call'[s] = [call[s] EXCEPT !.pc = "track"] /\ call[s] \in Calls
    BY <1>1, <1>3, <2>1, GotoMoves DEF TypeInv, CallsTyped
  <2> QED
    BY <2>2 DEF Calls
<1>4. ASSUME StoreFails(s) PROVE Moves(s) /\ call'[s].pc # "store"
  <2>1. PICK pc \in {"restamp", "unlock"} : Goto(s, pc) /\ call[s].pc = "store"
    BY <1>4 DEF StoreFails
  <2>2. Moves(s) /\ call'[s] = [call[s] EXCEPT !.pc = pc] /\ call[s] \in Calls
    BY <1>1, <2>1, GotoMoves DEF TypeInv, CallsTyped
  <2> QED
    BY <2>2 DEF Calls
<1>5. Moves(s) /\ (call'[s].pc = "store" => Check(s) \/ Load(s) \/ GiveUp(s))
  BY <1>2, <1>3, <1>4, ReadContentMoves, CheckMoves, LoadMoves, FlagMoves DEF Quiet
<1> QED
  BY <1>1, <1>5, CallTypes, KeptTypes DEF Moves, TypeInv

------------------------------------------------------------------------------
(* The other steps keep the types.                                         *)

\* A call that is over.
LEMMA FinishIs ==
    ASSUME TypeInv, NEW s \in Slots, Finish(s), changes' = changes
    PROVE  CallStep(s) /\ call'[s] = Idle
<1>1. call' = [call EXCEPT ![s] = Idle]
  BY DEF Finish
<1> QED
  BY <1>1, CallIs, IdleCall DEF CallStep

\* The entry of an agent and its parts.
LEMMA TrackerTypes ==
    ASSUME TypeInv, NEW t \in Tasks
    PROVE  /\ tracker[t] \in Trackers /\ tracker[t].hits \in Dicts(Nat)
           /\ tracker[t].dedup \in Dicts(Known) /\ tracker[t].stamps \in Dicts(Known)
<1>1. tracker[t] \in Trackers
  BY DEF TypeInv, TracksTyped
<1> QED
  BY <1>1 DEF Trackers

\* The name a call is at, one of those it was given.
LEMMA NamesOf ==
    ASSUME TypeInv, NEW s \in Slots
    PROVE  /\ call[s] \in Calls /\ Shaped(call[s])
           /\ call[s].names \in Seq(Names) /\ call[s].at \in Seq(Paths)
           /\ Len(call[s].names) \in Nat /\ DOMAIN call[s].names = 1..Len(call[s].names)
           /\ call[s].pc \in Reading => call[s].names[1] \in Names /\ call[s].at[1] \in Paths
           /\ call[s].pc \in {"stamp", "restamp", "note"} =>
                /\ call[s].names[call[s].next] \in Names /\ call[s].at[call[s].next] \in Paths
                /\ \A t \in Owners : ResolvePath(call[s].names[call[s].next], t) \in Paths
<1>1. call[s] \in Calls /\ Shaped(call[s])
  BY DEF TypeInv, CallsTyped
<1>2. /\ call[s].names \in Seq(Names) /\ call[s].at \in Seq(Paths)
      /\ Len(call[s].names) \in Nat /\ DOMAIN call[s].names = 1..Len(call[s].names)
  BY <1>1, LenProperties DEF Calls
<1>3. call[s].pc \in Reading => 1 \in DOMAIN call[s].names
  <2>1. call[s].pc \in Reading => Len(call[s].names) = 1
    BY <1>1 DEF Shaped
  <2>2. Len(call[s].names) = 1 => 1 \in DOMAIN call[s].names
    BY <1>2
  <2> QED
    BY <2>1, <2>2
<1>4. call[s].pc \in {"stamp", "restamp", "note"} => call[s].next \in DOMAIN call[s].names
  BY <1>1 DEF Shaped
<1> QED
  BY <1>1, <1>2, <1>3, <1>4, TargetPath, ResolvedPath DEF TypeInv

\* Counting a call leaves the dicts.
LEMMA CountedIs ==
    ASSUME TypeInv, NEW t \in Tasks, NEW key \in Keys
    PROVE  LET tr == Counted(tracker[t], key) IN
           /\ tr \in Trackers /\ tr.hits = tracker[t].hits /\ tr.dedup = tracker[t].dedup
           /\ tr.stamps = tracker[t].stamps
<1> DEFINE k == IF tracker[t].key = key THEN tracker[t].count + 1 ELSE 1
<1>1. tracker[t] \in Trackers
  BY TrackerTypes
<1>2. k \in Nat
  BY <1>1 DEF Trackers
<1>3. Counted(tracker[t], key) = [tracker[t] EXCEPT !.made = TRUE, !.key = key, !.count = k]
  BY DEF Counted
<1> HIDE DEF k
<1> QED
  BY <1>1, <1>2, <1>3 DEF Trackers

\* Counting and forgetting refusals leaves a dict.
LEMMA HitsKept ==
    ASSUME TypeInv, NEW t \in Tasks, NEW p \in Paths
    PROVE  /\ Capped(Put(tracker[t].hits, p, Count(tracker[t].hits, p) + 1)) \in Dicts(Nat)
           /\ Capped(Drop(tracker[t].hits, p)) \in Dicts(Nat)
<1>1. tracker[t].hits \in Dicts(Nat)
  BY TrackerTypes
<1>2. Count(tracker[t].hits, p) \in Nat
  BY <1>1, CountIs DEF Count
<1>3. Count(tracker[t].hits, p) + 1 \in Nat
  BY <1>2
<1>4. Drop(tracker[t].hits, p) \in Dicts(Nat)
  BY <1>1, DropDict
<1>5. Capped(Drop(tracker[t].hits, p)) = Drop(tracker[t].hits, p)
  <2>1. Len(Drop(tracker[t].hits, p)) <= Cap /\ Len(Drop(tracker[t].hits, p)) \in Nat
    BY <1>4, DictIs
  <2>2. ~(Len(Drop(tracker[t].hits, p)) > Cap)
    BY <2>1, FileToolsAssumption
  <2> QED
    BY <2>2 DEF Capped
<1> QED
  BY <1>1, <1>3, <1>4, <1>5, PutDict

\* A read begins, with the dedup entry of the region or none.
LEMMA ReadBeginTypes ==
    ASSUME TypeInv, NEW s \in Slots, NEW n \in Names, ReadBegin(s, n)
    PROVE  TypeInv' /\ CallStep(s) /\ call[s].pc = "idle" /\ call'[s].mine = {} /\ call'[s].todo = {}
           /\ call'[s].pc \in Reading
<1> DEFINE t == TaskOf[s]
           p == ResolvePath(n, t)
           cached == Count(tracker[t].dedup, p)
           pc == IF Lookup(tracker[t].dedup, p) # {} THEN "stat" ELSE "read"
           ns == <<n>>
           ps == <<p>>
           c == [Idle EXCEPT !.pc = pc, !.op = "read", !.names = ns, !.at = ps, !.got = cached]
           tr == [tracker[t] EXCEPT !.made = TRUE]
<1>1. /\ call' = [call EXCEPT ![s] = c] /\ tracker' = [tracker EXCEPT ![t] = tr]
      /\ UNCHANGED <<file, place, registry, locks, seen, kept, stray, changes>>
      /\ call[s].pc = "idle"
  BY DEF ReadBegin, Begin, ghosts
<1>2. t \in Tasks /\ t \in Owners /\ p \in Paths /\ tr \in Trackers
  BY Agents, ResolvedPath, TrackerTypes DEF TypeInv, Trackers
<1>3. cached \in Known
  <2>1. 0 \in Known
    BY DEF TypeInv, FilesTyped, Known
  <2>2. tracker[t].dedup \in Dicts(Known)
    BY <1>2, TrackerTypes
  <2> QED
    BY <2>1, <2>2, CountIs DEF Count
<1>4. /\ pc \in {"stat", "read"} /\ ns \in Seq(Names) /\ Len(ns) = 1
      /\ ps \in Seq(Paths) /\ Len(ps) = 1
  BY <1>2
<1> HIDE DEF cached, pc, ns, ps, tr
<1>5. call'[s] = c /\ call' = [call EXCEPT ![s] = call'[s]]
  BY <1>1, CallIs
<1>6. c \in Calls
  BY <1>3, <1>4, IdleCall DEF Calls, Reading, Ops, Idle
<1>7. Shaped(c) /\ c.mine = {} /\ c.todo = {} /\ c.pc = pc
  BY <1>4 DEF Shaped, Reading, Locked, Idle
<1>8. CallStep(s)
  BY <1>1, <1>5, <1>6, <1>7 DEF CallStep
<1>9. TypeInv'
  BY <1>1, <1>2, <1>8, CallTypes, TrackStep, KeptTypes DEF TypeInv
<1> QED
  BY <1>1, <1>4, <1>5, <1>7, <1>8, <1>9 DEF Reading

\* The end of a read, in the ways it has.
LEMMA ReadEndTypes ==
    ASSUME TypeInv, NEW s \in Slots,
           ReadUnchanged(s) \/ ReadAnswer(s) \/ (ReadFails(s) /\ Finish(s))
    PROVE  TypeInv' /\ CallStep(s) /\ call'[s] = Idle /\ call[s].pc \in Reading
<1> DEFINE t == TaskOf[s]
           p == call[s].at[1]
<1>1. /\ call[s].pc \in Reading /\ Finish(s)
      /\ UNCHANGED <<file, place, locks, kept, stray, changes>>
  BY DEF ReadUnchanged, ReadAnswer, ReadFails, Unmodified, counters, ghosts, Reading
<1>2. CallStep(s) /\ call'[s] = Idle
  BY <1>1, FinishIs
<1>3. t \in Tasks /\ p \in Paths
  BY <1>1, Agents, NamesOf
<1>4. CASE ReadUnchanged(s)
  <2> DEFINE h == Capped(Put(tracker[t].hits, p, Count(tracker[t].hits, p) + 1))
             tr == [tracker[t] EXCEPT !.hits = h]
  <2>1. tracker' = [tracker EXCEPT ![t] = tr] /\ UNCHANGED <<registry, seen>>
    BY <1>4 DEF ReadUnchanged, ghosts
  <2>2. h \in Dicts(Nat) /\ tracker[t] \in Trackers
    BY <1>3, HitsKept, TrackerTypes
  <2> HIDE DEF h
  <2>3. tr \in Trackers
    BY <2>2 DEF Trackers
  <2> HIDE DEF tr
  <2>4. TracksTyped'
    BY <1>1, <1>3, <2>1, <2>3, TrackStep
  <2> QED
    BY <1>1, <1>2, <2>1, <2>4, CallTypes, KeptTypes DEF TypeInv
<1>5. CASE ReadAnswer(s)
  <2>1. /\ registry' = [known |-> registry.known \cup {<<t, p>>},
                        stale |-> registry.stale \ {<<t, p>>}]
        /\ seen' = seen \/ seen' = [seen EXCEPT ![t] = @ \cup call[s].shown]
        /\ UNCHANGED tracker
    BY <1>5 DEF ReadAnswer
  <2>2. SharedTyped'
    BY <1>3, <2>1 DEF TypeInv, SharedTyped
  <2>3. SeenTyped'
    <3>1. call[s].shown \in SUBSET (Paths \X Known) /\ Known' = Known
      BY <1>1, NamesOf DEF Calls, Known
    <3> QED
      BY <1>3, <2>1, <3>1 DEF TypeInv, SeenTyped
  <2> QED
    BY <1>1, <1>2, <2>1, <2>2, <2>3, CallTypes, KeptTypes DEF TypeInv
<1>6. CASE ReadFails(s)
  <2>1. UNCHANGED <<tracker, registry, seen>>
    BY <1>6 DEF ReadFails, ghosts
  <2> QED
    BY <1>1, <1>2, <2>1, CallTypes, KeptTypes DEF TypeInv
<1> QED
  BY <1>1, <1>2, <1>4, <1>5, <1>6

\* A read is tracked: its file's mtimes, if there are any.
LEMMA ReadTrackTypes ==
    ASSUME TypeInv, NEW s \in Slots, ReadTrack(s)
    PROVE  TypeInv' /\ Moves(s) /\ UNCHANGED <<file, kept, stray, locks, changes>>
           /\ call'[s].pc # "store"
<1> DEFINE t == TaskOf[s]
           p == call[s].at[1]
           tr == Counted(tracker[t], <<"read", call[s].names[1]>>)
           h == Capped(Drop(tracker[t].hits, p))
           d == PutAll(tracker[t].dedup, p, Mtime(p))
           m == PutAll(tracker[t].stamps, p, Mtime(p))
           new == [tr EXCEPT !.hits = h, !.dedup = d, !.stamps = m]
<1>1. /\ tracker' = [tracker EXCEPT ![t] = [tr EXCEPT !.hits = Capped(Drop(@, p)),
                         !.dedup = PutAll(@, p, Mtime(p)), !.stamps = PutAll(@, p, Mtime(p))]]
      /\ UNCHANGED <<file, place, registry, locks, seen, kept, stray, changes>>
      /\ call[s].pc = "track"
  BY DEF ReadTrack, counters, ghosts
<1>2. t \in Tasks /\ p \in Paths /\ call[s].names[1] \in Names
  BY <1>1, Agents, NamesOf DEF Reading
<1>3. /\ tr \in Trackers /\ tr.hits = tracker[t].hits /\ tr.dedup = tracker[t].dedup
      /\ tr.stamps = tracker[t].stamps
  <2>1. <<"read", call[s].names[1]>> \in Keys
    BY <1>2 DEF Keys
  <2> QED
    BY <1>2, <2>1, CountedIs
<1>4. h \in Dicts(Nat) /\ d \in Dicts(Known) /\ m \in Dicts(Known)
  BY <1>2, HitsKept, TrackerTypes, MtimeIs, PutAllDict DEF TypeInv
<1>5. tracker' = [tracker EXCEPT ![t] = new]
  BY <1>1, <1>3
<1> HIDE DEF tr, h, d, m
<1>6. new \in Trackers
  BY <1>3, <1>4 DEF Trackers
<1> HIDE DEF new
<1>7. Moves(s) /\ call'[s].pc # "store"
  <2>1. Moves(s)
    BY FlagMoves
  <2> DEFINE w == Repeated(Counted(tracker[TaskOf[s]], <<"read", call[s].names[1]>>))
             c == [call[s] EXCEPT !.pc = "record", !.warn = w]
  <2>2. call' = [call EXCEPT ![s] = c]
    BY DEF ReadTrack
  <2> HIDE DEF w
  <2>3. call'[s] = c /\ call[s] \in Calls
    BY <2>2, CallIs
  <2>4. c.pc = "record"
    BY <2>3 DEF Calls
  <2> QED
    BY <2>1, <2>3, <2>4
<1>8. TracksTyped'
  BY <1>1, <1>2, <1>5, <1>6, TrackStep
<1> QED
  BY <1>1, <1>7, <1>8, CallTypes, KeptTypes DEF Moves, TypeInv

\* A search counts.
LEMMA SearchTypes ==
    ASSUME TypeInv, NEW s \in Slots, Search(s)
    PROVE  TypeInv' /\ UNCHANGED <<file, kept, stray, locks, call, changes>>
<1> DEFINE t == TaskOf[s]
           tr == Counted(tracker[t], <<"search">>)
<1>1. /\ tracker' = [tracker EXCEPT ![t] = tr]
      /\ UNCHANGED <<file, place, registry, locks, call, seen, kept, stray, changes>>
  BY DEF Search, Begin, ghosts
<1>2. t \in Tasks /\ tr \in Trackers
  BY Agents, CountedIs DEF Keys
<1> HIDE DEF tr
<1>3. TracksTyped'
  BY <1>1, <1>2, TrackStep
<1> QED
  BY <1>1, <1>3, KeptTypes DEF TypeInv

\* A change begins, with the paths of its names to lock.
LEMMA ChangeBeginTypes ==
    ASSUME TypeInv, NEW s \in Slots, NEW op \in {"write", "replace", "v4a"},
           NEW ns \in Seq(Names), ns # <<>>, ChangeBegin(s, op, ns)
    PROVE  /\ TypeInv' /\ CallStep(s) /\ call[s].pc = "idle" /\ call'[s].pc = "lock"
           /\ call'[s].mine = call'[s].todo /\ call'[s].todo # {}
           /\ UNCHANGED <<file, kept, stray, locks, changes>>
<1> DEFINE ps == Resolved(ns, TaskOf[s])
           m == Range(ps)
           c == [Idle EXCEPT !.pc = "lock", !.op = op, !.names = ns, !.at = ps, !.mine = m, !.todo = m]
<1>1. /\ call' = [call EXCEPT ![s] = c] /\ call[s].pc = "idle"
      /\ UNCHANGED <<file, place, tracker, registry, locks, seen, kept, stray, changes>>
  BY DEF ChangeBegin, Begin, ghosts
<1>2. /\ ps \in Seq(Paths) /\ Len(ps) = Len(ns) /\ m \subseteq Paths
      /\ Len(ns) \in Nat /\ DOMAIN ns = 1..Len(ns)
  BY Agents, ResolvedPaths DEF TypeInv
<1>3. Len(ns) > 0
  BY <1>2, EmptySeq
<1>4. m # {}
  <2>1. 1 \in DOMAIN ns
    BY <1>2, <1>3
  <2> QED
    BY <2>1 DEF Range, Resolved
<1> HIDE DEF ps, m
<1>5. call'[s] = c /\ call' = [call EXCEPT ![s] = call'[s]]
  BY <1>1, CallIs
<1>6. c \in Calls
  BY <1>2, IdleCall DEF Calls, Locked, Ops, Idle
<1>7. Shaped(c) /\ c.mine = m /\ c.todo = m /\ c.pc = "lock"
  BY <1>2, <1>3 DEF Shaped, Reading, Locked, Idle
<1>8. CallStep(s)
  BY <1>1, <1>5, <1>6, <1>7 DEF CallStep
<1> QED
  BY <1>1, <1>4, <1>5, <1>7, <1>8, CallTypes, KeptTypes DEF TypeInv

\* A lock is taken.
LEMMA LockPathTypes ==
    ASSUME TypeInv, NEW s \in Slots, LockPath(s)
    PROVE  /\ TypeInv' /\ CallStep(s) /\ UNCHANGED <<file, kept, stray, changes>>
           /\ \E p \in First(call[s].todo) :
                /\ locks[p] = NoCall /\ locks' = [locks EXCEPT ![p] = s]
                /\ call'[s].todo = call[s].todo \ {p}
           /\ call[s].pc = "lock" /\ call'[s].pc = "lock" /\ call'[s].mine = call[s].mine
           /\ call'[s].op = call[s].op
<1>1. PICK p \in First(call[s].todo) :
         /\ call[s].pc = "lock" /\ locks[p] = NoCall
         /\ locks' = [locks EXCEPT ![p] = s]
         /\ call' = [call EXCEPT ![s] = [call[s] EXCEPT !.todo = @ \ {p}]]
  BY DEF LockPath
<1>2. UNCHANGED <<file, place, tracker, registry, seen, kept, stray, changes>>
  BY DEF LockPath, ghosts, counters
<1> DEFINE c == [call[s] EXCEPT !.todo = @ \ {p}]
<1>3. call'[s] = c /\ call' = [call EXCEPT ![s] = call'[s]] /\ call[s] \in Calls /\ Shaped(call[s])
  BY <1>1, CallIs
<1>4. c \in Calls /\ c.todo = call[s].todo \ {p} /\ c.pc = call[s].pc /\ c.mine = call[s].mine
      /\ c.op = call[s].op
  BY <1>3 DEF Calls
<1>5. Shaped(c)
  BY <1>3 DEF Calls, Shaped
<1>6. CallStep(s)
  BY <1>2, <1>3, <1>4, <1>5 DEF CallStep
<1>7. LocksTyped'
  BY <1>1 DEF TypeInv, LocksTyped
<1> QED
  BY <1>1, <1>2, <1>3, <1>4, <1>6, <1>7, CallTypes, KeptTypes DEF TypeInv

\* The files a change goes to, and what a patch writes there.
Hit(s, done) == {Target(s, i) : i \in done}
From(s, done, p) == UNION {call[s].base[i].edits : i \in Into(s, done, p)}

\* A change is written to some of the files a call names.
LEMMA WriteIs ==
    ASSUME TypeInv, NEW s \in Slots, NEW done \in SUBSET DOMAIN call[s].names, Write(s, done),
           call[s].pc = "store"
    PROVE  /\ changes' = changes + 1
           /\ \A p \in Paths \ Hit(s, done) : file'[p] = file[p] /\ kept'[p] = kept[p]
           /\ \A p \in Hit(s, done) :
                /\ p \in Paths
                /\ file'[p].edits = IF call[s].op = "write" THEN {}
                                    ELSE {changes + 1} \cup From(s, done, p)
                /\ kept'[p] = IF call[s].op = "write" THEN {} ELSE kept[p] \cup {changes + 1}
                /\ p \notin stray' => /\ p \in call[s].mine
                                      /\ call[s].op # "write" =>
                                           \A i \in Into(s, done, p) : call[s].base[i].path = p
           /\ stray \subseteq stray'
           /\ FilesTyped' /\ SeenTyped' /\ UNCHANGED <<place, tracker, registry, locks>>
<1> DEFINE hit == Hit(s, done)
           fresh == call[s].op = "write"
           v == changes + 1
           new(p) == IF fresh THEN {} ELSE {v} \cup From(s, done, p)
           own(p) == p \in call[s].mine /\ (fresh \/ \A i \in Into(s, done, p) : call[s].base[i].path = p)
<1>1. /\ changes' = v
      /\ file' = [p \in Paths |->
                    IF p \in hit THEN [there |-> TRUE, ver |-> v, edits |-> new(p)] ELSE file[p]]
      /\ kept' = [p \in Paths |->
                    IF p \notin hit THEN kept[p] ELSE IF fresh THEN {} ELSE kept[p] \cup {v}]
      /\ seen' = seen \/ seen' = [seen EXCEPT ![TaskOf[s]] = @ \cup {<<p, v>> : p \in hit}]
      /\ stray' = stray \cup {p \in hit : ~own(p)}
      /\ UNCHANGED <<place, tracker, registry, locks>>
  <2>1. changes' = v /\ UNCHANGED <<place, tracker, registry, locks>>
    BY DEF Write
  <2>2. file' = [p \in Paths |->
                   IF p \in hit THEN [there |-> TRUE, ver |-> v, edits |-> new(p)] ELSE file[p]]
    BY DEF Write, Hit, From
  <2>3. kept' = [p \in Paths |->
                   IF p \notin hit THEN kept[p] ELSE IF fresh THEN {} ELSE kept[p] \cup {v}]
    BY DEF Write, Hit
  <2>4. seen' = seen \/ seen' = [seen EXCEPT ![TaskOf[s]] = @ \cup {<<p, v>> : p \in hit}]
    BY DEF Write, Hit
  <2>5. stray' = stray \cup {p \in hit : ~own(p)}
    BY DEF Write, Hit
  <2> QED
    BY <2>1, <2>2, <2>3, <2>4, <2>5
<1>2. changes' \in Nat /\ Known \subseteq Known' /\ v \in Known'
  BY <1>1, Grows DEF TypeInv
<1>3. hit \subseteq Paths
  BY TargetPath DEF Hit
<1>4. ~fresh => \A p \in Paths : From(s, done, p) \subseteq Known
  <2> SUFFICES ASSUME ~fresh, NEW p \in Paths, NEW i \in Into(s, done, p)
               PROVE  call[s].base[i].edits \subseteq Known
    BY DEF From
  <2>1. /\ call[s].base \in Seq([path : Paths, edits : SUBSET Known])
        /\ Len(call[s].base) = Len(call[s].names) /\ i \in DOMAIN call[s].names
    BY NamesOf DEF Shaped, Calls, Into
  <2>2. i \in 1..Len(call[s].base)
    BY <2>1, NamesOf
  <2>3. call[s].base[i] \in [path : Paths, edits : SUBSET Known]
    BY <2>1, <2>2, ElementOfSeq
  <2> QED
    BY <2>3
<1> HIDE DEF hit, v
<1>5. \A p \in Paths : new(p) \subseteq Known'
  BY <1>2, <1>4
<1>6. file' \in [Paths -> [there : BOOLEAN, ver : Known', edits : SUBSET Known']]
  <2>1. \A p \in Paths : file[p] \in [there : BOOLEAN, ver : Known', edits : SUBSET Known']
    BY <1>2 DEF TypeInv, FilesTyped
  <2> HIDE DEF new
  <2>2. \A p \in Paths : [there |-> TRUE, ver |-> v, edits |-> new(p)]
                            \in [there : BOOLEAN, ver : Known', edits : SUBSET Known']
    BY <1>2, <1>5
  <2> QED
    BY <1>1, <2>1, <2>2
<1>7. kept' \in [Paths -> SUBSET Known']
  BY <1>1, <1>2 DEF TypeInv, FilesTyped
<1>8. stray' \in SUBSET Paths /\ stray \subseteq stray'
  BY <1>1, <1>3 DEF TypeInv, FilesTyped
<1>9. FilesTyped'
  BY <1>2, <1>6, <1>7, <1>8 DEF FilesTyped
<1>10. SeenTyped'
  <2>1. TaskOf[s] \in Tasks /\ {<<p, v>> : p \in hit} \subseteq Paths \X Known'
    BY <1>2, <1>3, Agents
  <2>2. seen \in [Tasks -> SUBSET (Paths \X Known')]
    BY <1>2 DEF TypeInv, SeenTyped
  <2> QED
    BY <1>1, <2>1, <2>2 DEF SeenTyped
<1>11. \A p \in hit : file'[p].edits = new(p) /\ kept'[p] = (IF fresh THEN {} ELSE kept[p] \cup {v})
                      /\ (p \notin stray' => own(p))
  BY <1>1, <1>3
<1>12. \A p \in Paths \ hit : file'[p] = file[p] /\ kept'[p] = kept[p]
  BY <1>1
<1> QED
  BY <1>1, <1>3, <1>8, <1>9, <1>10, <1>11, <1>12 DEF hit, v

\* A change is stored, all of it or some of its files.
LEMMA StoreTypes ==
    ASSUME TypeInv, NEW s \in Slots, Store(s) \/ StorePart(s)
    PROVE  /\ TypeInv' /\ Moves(s) /\ call'[s].pc # "store" /\ call[s].pc = "store"
           /\ \E done \in SUBSET DOMAIN call[s].names : Write(s, done)
<1>1. PICK done \in SUBSET DOMAIN call[s].names :
         Write(s, done) /\ call[s].pc = "store" /\ (Goto(s, "stamp") \/ Goto(s, "unlock"))
  BY DEF Store, StorePart
<1>2. changes' = changes + 1 /\ FilesTyped' /\ SeenTyped' /\ UNCHANGED <<place, tracker, registry, locks>>
  BY <1>1, WriteIs
<1>3. Moves(s) /\ call'[s].pc \in {"stamp", "unlock"}
  <2>1. PICK pc \in {"stamp", "unlock"} : Goto(s, pc)
    BY <1>1
  <2>2. Moves(s) /\ call'[s] = [call[s] EXCEPT !.pc = pc] /\ call[s] \in Calls
    BY <1>1, <1>2, <2>1, GotoMoves, NamesOf
  <2> QED
    BY <2>1, <2>2 DEF Calls
<1> QED
  BY <1>1, <1>2, <1>3, CallTypes, KeptTypes DEF Moves, TypeInv

\* A stamp is refreshed with the mtimes there are.
LEMMA StampTypes ==
    ASSUME TypeInv, NEW s \in Slots, Stamp(s)
    PROVE  TypeInv' /\ Moves(s) /\ UNCHANGED <<file, kept, stray, locks, changes>>
           /\ call'[s].pc # "store"
<1> DEFINE t == TaskOf[s]
           n == call[s].names[call[s].next]
           p == ResolvePath(n, t)
           d == Drop(tracker[t].dedup, ResolvePath(n, Default))
           m == IF tracker[t].made THEN PutAll(tracker[t].stamps, p, Mtime(p)) ELSE tracker[t].stamps
           new == [tracker[t] EXCEPT !.dedup = d, !.stamps = m]
<1>1. /\ call[s].pc \in {"stamp", "restamp"}
      /\ tracker' = [tracker EXCEPT ![t] = new]
      /\ UNCHANGED <<file, place, registry, locks, seen, kept, stray, changes>>
  BY DEF Stamp, counters, ghosts
<1>2. t \in Tasks /\ p \in Paths
  BY <1>1, Agents, NamesOf
<1>3. d \in Dicts(Known) /\ m \in Dicts(Known) /\ tracker[t] \in Trackers
  BY <1>2, TrackerTypes, DropDict, MtimeIs, PutAllDict DEF TypeInv
<1> HIDE DEF d, m
<1>4. new \in Trackers
  BY <1>3 DEF Trackers
<1> HIDE DEF new
<1>5. TracksTyped'
  BY <1>1, <1>2, <1>4, TrackStep
<1>6. Moves(s) /\ call'[s].pc # "store"
  <2>1. PICK pc \in {"note", "unlock"} : Goto(s, pc) /\ (pc = "note" <=> call[s].pc = "stamp")
    BY <1>1 DEF Stamp
  <2>2. Moves(s) /\ call'[s] = [call[s] EXCEPT !.pc = pc] /\ call[s] \in Calls
    BY <1>1, <2>1, GotoMoves, NamesOf
  <2> QED
    BY <2>1, <2>2 DEF Calls
<1> QED
  BY <1>1, <1>5, <1>6, CallTypes, KeptTypes DEF Moves, TypeInv

\* The registry is told.
LEMMA NoteTypes ==
    ASSUME TypeInv, NEW s \in Slots, Note(s)
    PROVE  TypeInv' /\ Moves(s) /\ UNCHANGED <<file, kept, stray, locks, changes>>
           /\ call'[s].pc # "store"
<1> DEFINE t == TaskOf[s]
           p == call[s].at[call[s].next]
           st == (registry.stale \ {<<t, p>>}) \cup {r \in registry.known : r[1] # t /\ r[2] = p}
<1>1. /\ call[s].pc = "note" /\ registry' = [registry EXCEPT !.stale = st]
      /\ UNCHANGED <<file, place, tracker, locks, seen, kept, stray, changes>>
  BY DEF Note, NoteWrite, counters, ghosts
<1>2. st \subseteq registry.known
  BY DEF TypeInv, SharedTyped
<1> HIDE DEF st
<1>3. SharedTyped'
  BY <1>1, <1>2 DEF TypeInv, SharedTyped
<1>4. Moves(s) /\ call'[s].pc # "store"
  BY NoteMoves
<1> QED
  BY <1>1, <1>3, <1>4, CallTypes, KeptTypes DEF Moves, TypeInv

\* The locks are released.
LEMMA UnlockTypes ==
    ASSUME TypeInv, NEW s \in Slots, Unlock(s)
    PROVE  /\ TypeInv' /\ CallStep(s) /\ call'[s] = Idle /\ UNCHANGED <<file, kept, stray, changes>>
           /\ locks' = [p \in Paths |-> IF locks[p] = s THEN NoCall ELSE locks[p]]
<1>1. /\ Finish(s)
      /\ locks' = [p \in Paths |-> IF locks[p] = s THEN NoCall ELSE locks[p]]
      /\ UNCHANGED <<file, place, tracker, registry, seen, kept, stray, changes>>
  BY DEF Unlock, ghosts, counters
<1>2. CallStep(s) /\ call'[s] = Idle
  BY <1>1, FinishIs
<1>3. LocksTyped'
  BY <1>1 DEF TypeInv, LocksTyped
<1> QED
  BY <1>1, <1>2, <1>3, CallTypes, KeptTypes DEF TypeInv

\* A change by others.
LEMMA OutsideEditTypes ==
    ASSUME TypeInv, NEW p \in Paths, OutsideEdit(p)
    PROVE  /\ TypeInv' /\ UNCHANGED <<call, locks, stray>> /\ kept'[p] = {}
           /\ \A q \in Paths \ {p} : file'[q] = file[q] /\ kept'[q] = kept[q]
<1>1. PICK there \in BOOLEAN :
        /\ changes' = changes + 1
        /\ file' = [file EXCEPT ![p] = [there |-> there, ver |-> changes + 1, edits |-> {}]]
        /\ kept' = [kept EXCEPT ![p] = {}]
        /\ UNCHANGED <<place, tracker, registry, locks, call, seen, stray>>
  BY DEF OutsideEdit
<1>2. changes' \in Nat /\ Known \subseteq Known' /\ changes + 1 \in Known'
  BY <1>1, Grows DEF TypeInv
<1>3. FilesTyped'
  <2>1. /\ file \in [Paths -> [there : BOOLEAN, ver : Known', edits : SUBSET Known']]
        /\ kept \in [Paths -> SUBSET Known'] /\ stray \in SUBSET Paths
    BY <1>2 DEF TypeInv, FilesTyped
  <2>2. [there |-> there, ver |-> changes + 1, edits |-> {}]
          \in [there : BOOLEAN, ver : Known', edits : SUBSET Known']
    BY <1>2
  <2> QED
    BY <1>1, <1>2, <2>1, <2>2 DEF FilesTyped
<1> QED
  BY <1>1, <1>3, KeptTypes DEF TypeInv, FilesTyped

\* What an agent does besides reading and changing files.
LEMMA OtherTypes ==
    ASSUME TypeInv, NEW t \in Tasks, OtherTool(t) \/ ResetDedup(t)
    PROVE  TypeInv' /\ UNCHANGED <<file, call, locks, kept, stray, changes>>
<1>1. UNCHANGED <<file, host, registry, locks, call, kept, stray, changes>>
  BY DEF OtherTool, ResetDedup, Other
<1>2. tracker[t] \in Trackers /\ t \in Owners
  BY TrackerTypes DEF Owners
<1>3. <<>> \in Keys /\ <<>> \in Dicts(Nat) /\ <<>> \in Dicts(Known)
  BY EmptySeq, FileToolsAssumption DEF Keys, Dicts
<1>4. TracksTyped'
  <2>1. CASE OtherTool(t)
    <3> DEFINE r == [tracker[t] EXCEPT !.key = <<>>, !.count = 0, !.hits = <<>>]
    <3>1. r \in Trackers
      BY <1>2, <1>3 DEF Trackers
    <3>2. tracker' = [tracker EXCEPT ![t] = r]
      BY <2>1 DEF OtherTool
    <3> HIDE DEF r
    <3> QED
      BY <1>1, <3>1, <3>2, TrackStep
  <2>2. CASE ResetDedup(t)
    <3> DEFINE r == [tracker[t] EXCEPT !.dedup = <<>>, !.hits = <<>>]
    <3>1. r \in Trackers
      BY <1>2, <1>3 DEF Trackers
    <3>2. tracker' = [tracker EXCEPT ![t] = r]
      BY <2>2 DEF ResetDedup
    <3> HIDE DEF r
    <3> QED
      BY <1>1, <3>1, <3>2, TrackStep
  <2> QED
    BY <2>1, <2>2
<1>5. PlaceTyped' /\ SeenTyped'
  <2>1. CASE OtherTool(t)
    <3>1. PICK d \in Commands[t] : cwd' = [cwd EXCEPT ![t] = d] /\ shell' = d /\ seen' = seen
      BY <2>1 DEF OtherTool
    <3>2. d \in Dirs
      BY FileToolsAssumption
    <3>3. PlaceTyped'
      BY <1>1, <1>2, <3>1, <3>2 DEF TypeInv, PlaceTyped
    <3> QED
      BY <1>1, <3>1, <3>3, KeptTypes
  <2>2. CASE ResetDedup(t)
    <3>1. shell' = shell /\ cwd' = cwd /\ seen' = [seen EXCEPT ![t] = {}]
      BY <2>2 DEF ResetDedup
    <3>2. PlaceTyped'
      BY <1>1, <3>1 DEF TypeInv, PlaceTyped
    <3>3. SeenTyped'
      BY <1>1, <3>1 DEF TypeInv, SeenTyped, Known
    <3> QED
      BY <3>2, <3>3
  <2> QED
    BY <2>1, <2>2
<1> QED
  BY <1>1, <1>4, <1>5, KeptTypes DEF TypeInv

\* The initial state has its type.
LEMMA InitTypes == Init => TypeInv
<1> SUFFICES ASSUME Init PROVE TypeInv
  OBVIOUS
<1>1. changes = 0 /\ Known = 0..0 /\ 0 \in Known
  BY DEF Init, Known
<1>2. <<>> \in Keys /\ <<>> \in Dicts(Nat) /\ <<>> \in Dicts(Known)
  BY EmptySeq, FileToolsAssumption DEF Keys, Dicts
<1>3. NewTracker \in Trackers
  BY <1>2 DEF NewTracker, Trackers
<1>4. FilesTyped /\ TracksTyped /\ SharedTyped /\ LocksTyped /\ SeenTyped
  BY <1>1, <1>3 DEF Init, FilesTyped, TracksTyped, SharedTyped, LocksTyped, SeenTyped
<1>5. PlaceTyped
  <2>1. cwd = [t \in Owners |-> Unset] /\ host \in Hosts /\ \E t \in Owners : shell = BaseDir(t)
    BY DEF Init
  <2>2. \A t \in Owners : BaseDir(t) \in Dirs
    BY <2>1, FileToolsAssumption DEF BaseDir, WorkspaceRoot
  <2> QED
    BY <2>1, <2>2, FileToolsAssumption DEF PlaceTyped
<1>6. Idle \in Calls /\ Shaped(Idle)
  <2>1. <<>> \in Seq(Names) /\ <<>> \in Seq(Paths)
        /\ <<>> \in Seq([path : Paths, edits : SUBSET Known]) /\ Len(<<>>) = 0
    BY EmptySeq
  <2> QED
    BY <1>1, <2>1 DEF Idle, Calls, Ops, Shaped, Locked, Reading
<1>7. CallsTyped
  BY <1>6 DEF Init, CallsTyped
<1> QED
  BY <1>4, <1>5, <1>7 DEF TypeInv

\* What a call begins with.
LEMMA CallNext ==
    ASSUME NEW s \in Slots, Call(s)
    PROVE  \/ Search(s)
           \/ \E n \in Names : ReadBegin(s, n)
           \/ \E op \in {"write", "replace", "v4a"}, ns \in Seq(Names) : ns # <<>> /\ ChangeBegin(s, op, ns)
<1>1. PICK i \in Inputs[s] :
    \/ i.op = "search" /\ Search(s)
    \/ i.op = "read" /\ ReadBegin(s, i.names[1])
    \/ i.op \in {"write", "replace", "v4a"} /\ ChangeBegin(s, i.op, i.names)
  BY DEF Call
<1>2. i.names \in Seq(Names) /\ i.names # <<>>
  BY FileToolsAssumption
<1>3. i.names[1] \in Names
  BY <1>2, HeadTailProperties
<1> QED
  BY <1>1, <1>2, <1>3

\* Every step keeps the types.
LEMMA NextTypes == TypeInv /\ [Next]_vars => TypeInv'
<1> SUFFICES ASSUME TypeInv, [Next]_vars PROVE TypeInv'
  OBVIOUS
<1>1. ASSUME NEW s \in Slots, Call(s) PROVE TypeInv'
  BY <1>1, CallNext, SearchTypes, ReadBeginTypes, ChangeBeginTypes
<1>2. ASSUME NEW s \in Slots, Step(s) \/ GiveUp(s) PROVE TypeInv'
  <2>1. ReadFails(s) => Goto(s, "track") \/ Finish(s)
    BY DEF ReadFails
  <2> QED
    BY <1>2, <2>1, QuietTypes, ReadEndTypes, ReadTrackTypes, LockPathTypes,
       StoreTypes, StampTypes, NoteTypes, UnlockTypes DEF Step, Quiet
<1>3. CASE UNCHANGED vars
  BY <1>3, KeptTypes DEF vars, counters, place, TypeInv
<1> QED
  BY <1>1, <1>2, <1>3, OutsideEditTypes, OtherTypes DEF Next

\* Every reachable state has its type: the tracker's dicts keep to their cap,
\* whatever order reads and changes fill them in, and hold mtimes of the past.
THEOREM FileTypes == Spec => []TypeOK
BY InitTypes, NextTypes, TypesAreOK, PTL DEF Spec

------------------------------------------------------------------------------
(* Locks.                                                                  *)

\* The holder of a lock is a change that has taken it.
Owned(p) ==
    locks[p] # NoCall => /\ call[locks[p]].pc \in Locked
                         /\ p \in call[locks[p]].mine /\ p \notin call[locks[p]].todo

\* A change holds the locks it does not have to take any more, and those come
\* before the others.
Holds(s) ==
    /\ call[s].todo \subseteq call[s].mine /\ call[s].mine \subseteq Paths
    /\ call[s].todo # {} => call[s].pc = "lock"
    /\ call[s].pc \in Locked => \A p \in call[s].mine \ call[s].todo : locks[p] = s
    /\ \A p \in call[s].mine \ call[s].todo, q \in call[s].todo : Place(p) <= Place(q)

LockInv ==
    /\ TypeInv
    /\ \A p \in Paths : Owned(p)
    /\ \A s \in Slots : Holds(s)

\* The order of the locks: different paths have different places in it.
LEMMA Places ==
    /\ Len(PathOrder) \in Nat
    /\ \A p \in Paths : Place(p) \in 1..Len(PathOrder)
    /\ \A p, q \in Paths : Place(p) = Place(q) => p = q
<1>1. Len(PathOrder) \in Nat /\ DOMAIN PathOrder = 1..Len(PathOrder)
  BY FileToolsAssumption, LenProperties
<1>2. \A p \in Paths : \E i \in DOMAIN PathOrder : PathOrder[i] = p
  BY DEF Paths, Range
<1>3. \A p \in Paths : Place(p) \in DOMAIN PathOrder /\ PathOrder[Place(p)] = p
  BY <1>2 DEF Place
<1> QED
  BY <1>1, <1>3

\* There is a first of some paths.
LEMMA FirstIs ==
    ASSUME NEW S \in SUBSET Paths, S # {}
    PROVE  \E p \in S : p \in First(S)
<1> DEFINE T == {Place(p) : p \in S}
<1>1. T \subseteq Nat /\ T # {}
  BY Places
<1>2. PICK n \in T : \A m \in T : ~(<<m, n>> \in OpToRel(<, Nat))
  BY <1>1, WFMin, NatLessThanWellFounded
<1>3. PICK p \in S : Place(p) = n
  BY <1>2
<1>4. \A q \in S : Place(p) <= Place(q)
  <2> SUFFICES ASSUME NEW q \in S PROVE Place(p) <= Place(q)
    OBVIOUS
  <2>1. Place(q) \in Nat /\ Place(p) \in Nat
    BY Places
  <2>2. ~(<<Place(q), Place(p)>> \in OpToRel(<, Nat))
    BY <1>2, <1>3
  <2> QED
    BY <2>1, <2>2 DEF OpToRel
<1> QED
  BY <1>4 DEF First


\* A call goes on with the locks it has.
LEMMA LocksGo ==
    ASSUME LockInv, NEW s \in Slots, Moves(s), TypeInv', locks' = locks
    PROVE  LockInv'
<1>1. \A o \in Slots : o # s => call'[o] = call[o]
  BY CallTypes DEF Moves, LockInv
<1>2. \A p \in Paths : locks[p] \in Slots \cup {NoCall}
  BY DEF LockInv, TypeInv, LocksTyped
<1>3. \A p \in Paths : Owned(p)'
  BY <1>1, <1>2 DEF LockInv, Owned, Moves
<1>4. \A o \in Slots : Holds(o)'
  <2> SUFFICES ASSUME NEW o \in Slots PROVE Holds(o)'
    OBVIOUS
  <2>1. Holds(o) /\ Paths' = Paths /\ \A p : Place(p)' = Place(p)
    BY DEF LockInv, Paths, Place
  <2>2. CASE o = s
    BY <2>1, <2>2 DEF Holds, Moves
  <2>3. CASE o # s
    BY <1>1, <2>1, <2>3 DEF Holds
  <2> QED
    BY <2>2, <2>3
<1> QED
  BY <1>3, <1>4 DEF LockInv

\* A call that has not taken a lock holds none.
LEMMA NoLocks ==
    ASSUME LockInv, NEW s \in Slots, call[s].pc \notin Locked
    PROVE  locks = [p \in Paths |-> IF locks[p] = s THEN NoCall ELSE locks[p]]
<1>1. \A p \in Paths : locks[p] # s
  <2> SUFFICES ASSUME NEW p \in Paths, locks[p] = s PROVE FALSE
    OBVIOUS
  <2>1. s # NoCall
    BY FileToolsAssumption DEF NoCall
  <2> QED
    BY <2>1 DEF LockInv, Owned
<1> QED
  BY <1>1 DEF LockInv, TypeInv, LocksTyped

\* A call ends, or begins; its locks are free.
LEMMA LocksFree ==
    ASSUME LockInv, NEW s \in Slots, CallStep(s), TypeInv',
           locks' = [p \in Paths |-> IF locks[p] = s THEN NoCall ELSE locks[p]],
           \/ call'[s].pc \notin Locked /\ call'[s].mine = {} /\ call'[s].todo = {}
           \/ call'[s].pc = "lock" /\ call'[s].mine = call'[s].todo
    PROVE  LockInv'
<1>1. \A o \in Slots : o # s => call'[o] = call[o]
  BY CallTypes DEF LockInv
<1>2. \A p \in Paths :
         /\ locks[p] \in Slots \cup {NoCall}
         /\ locks'[p] # NoCall => locks'[p] = locks[p] /\ locks[p] # s
         /\ locks[p] # s => locks'[p] = locks[p]
  BY DEF LockInv, TypeInv, LocksTyped
<1>3. \A p \in Paths : Owned(p)'
  BY <1>1, <1>2 DEF LockInv, Owned
<1>4. \A o \in Slots : Holds(o)'
  <2> SUFFICES ASSUME NEW o \in Slots PROVE Holds(o)'
    OBVIOUS
  <2>1. Holds(o) /\ Paths' = Paths /\ \A p : Place(p)' = Place(p)
    BY DEF LockInv, Paths, Place
  <2>2. CASE o = s
    <3>1. call'[s].mine \subseteq Paths
      BY DEF CallStep, Calls
    <3> QED
      BY <2>1, <2>2, <3>1 DEF Holds, Locked
  <2>3. CASE o # s
    BY <1>1, <1>2, <2>1, <2>3 DEF Holds
  <2> QED
    BY <2>2, <2>3
<1> QED
  BY <1>3, <1>4 DEF LockInv

\* A lock is taken, the first of those left.
LEMMA LockTaken ==
    ASSUME LockInv, NEW s \in Slots, LockPath(s)
    PROVE  LockInv'
<1>1. /\ TypeInv' /\ CallStep(s) /\ call[s].pc = "lock" /\ call'[s].pc = "lock"
      /\ call'[s].mine = call[s].mine
  BY LockPathTypes DEF LockInv
<1>2. PICK p \in First(call[s].todo) :
         /\ locks[p] = NoCall /\ locks' = [locks EXCEPT ![p] = s]
         /\ call'[s].todo = call[s].todo \ {p}
  BY LockPathTypes DEF LockInv
<1>3. \A o \in Slots : o # s => call'[o] = call[o]
  BY <1>1, CallTypes DEF LockInv
<1>4. /\ call[s].todo \subseteq call[s].mine /\ call[s].mine \subseteq Paths
      /\ p \in call[s].todo /\ \A q \in call[s].todo : Place(p) <= Place(q)
  BY DEF LockInv, Holds, First
<1>5. \A q \in Paths : locks[q] \in Slots \cup {NoCall} /\ locks'[q] = IF q = p THEN s ELSE locks[q]
  BY <1>2, <1>4 DEF LockInv, TypeInv, LocksTyped
<1>6. \A q \in Paths : Owned(q)'
  <2> SUFFICES ASSUME NEW q \in Paths PROVE Owned(q)'
    OBVIOUS
  <2>1. CASE q = p
    BY <1>1, <1>2, <1>4, <1>5, <2>1 DEF Owned, Locked
  <2>2. CASE q # p
    BY <1>1, <1>2, <1>3, <1>5, <2>2 DEF LockInv, Owned, Locked
  <2> QED
    BY <2>1, <2>2
<1>7. \A o \in Slots : Holds(o)'
  <2> SUFFICES ASSUME NEW o \in Slots PROVE Holds(o)'
    OBVIOUS
  <2>0. Paths' = Paths /\ \A q : Place(q)' = Place(q)
    BY DEF Paths, Place
  <2>1. CASE o = s
    <3>1. /\ \A q \in call[s].mine \ call[s].todo : locks[q] = s
          /\ \A x \in call[s].mine \ call[s].todo, q \in call[s].todo : Place(x) <= Place(q)
      BY <1>1 DEF LockInv, Holds, Locked
    <3>2. \A q \in call[s].mine \ (call[s].todo \ {p}) : locks'[q] = s
      BY <1>4, <1>5, <3>1
    <3>3. \A x \in call[s].mine \ (call[s].todo \ {p}), q \in call[s].todo \ {p} : Place(x) <= Place(q)
      BY <1>4, <3>1
    <3> QED
      BY <1>1, <1>2, <1>4, <2>0, <2>1, <3>2, <3>3 DEF Holds
  <2>2. CASE o # s
    <3>1. Holds(o)
      BY DEF LockInv
    <3>2. call[o].pc \in Locked => \A q \in call[o].mine \ call[o].todo : locks'[q] = o
      <4> SUFFICES ASSUME call[o].pc \in Locked, NEW q \in call[o].mine \ call[o].todo PROVE locks'[q] = o
        OBVIOUS
      <4>1. locks[q] = o /\ o # NoCall /\ q \in Paths
        BY <3>1, FileToolsAssumption DEF Holds, NoCall
      <4> QED
        BY <4>1, <1>2, <1>5
    <3> QED
      BY <1>3, <2>0, <2>2, <3>1, <3>2 DEF Holds
  <2> QED
    BY <2>1, <2>2
<1> QED
  BY <1>1, <1>6, <1>7 DEF LockInv

\* A step that touches neither calls nor locks.
LEMMA LocksSame ==
    ASSUME LockInv, TypeInv', UNCHANGED <<call, locks>>
    PROVE  LockInv'
BY DEF LockInv, Owned, Holds, Paths, Place

\* Nobody holds a lock at first.
LEMMA InitLocks == Init => LockInv
<1> SUFFICES ASSUME Init PROVE LockInv
  OBVIOUS
<1>1. TypeInv /\ call = [s \in Slots |-> Idle] /\ locks = [p \in Paths |-> NoCall]
  BY InitTypes DEF Init
<1>2. Idle.todo = {} /\ Idle.mine = {} /\ Idle.pc \notin Locked
  BY DEF Idle, Locked
<1> QED
  BY <1>1, <1>2 DEF LockInv, Owned, Holds

\* Every step keeps the locks right.
LEMMA NextLocks == LockInv /\ [Next]_vars => LockInv'
<1> SUFFICES ASSUME LockInv, [Next]_vars PROVE LockInv'
  OBVIOUS
<1>1. TypeInv /\ TypeInv'
  BY NextTypes DEF LockInv
<1>2. ASSUME NEW s \in Slots, Call(s) PROVE LockInv'
  <2>1. CASE Search(s)
    BY <1>1, <2>1, SearchTypes, LocksSame
  <2>2. ASSUME NEW n \in Names, ReadBegin(s, n) PROVE LockInv'
    <3>1. /\ CallStep(s) /\ call[s].pc \notin Locked /\ call'[s].pc \notin Locked
          /\ call'[s].mine = {} /\ call'[s].todo = {} /\ locks' = locks
      BY <1>1, <2>2, ReadBeginTypes DEF Locked, Reading, ReadBegin
    <3> QED
      BY <1>1, <3>1, NoLocks, LocksFree
  <2>3. ASSUME NEW op \in {"write", "replace", "v4a"}, NEW ns \in Seq(Names), ns # <<>>,
               ChangeBegin(s, op, ns)
        PROVE  LockInv'
    <3>1. /\ CallStep(s) /\ call[s].pc \notin Locked /\ call'[s].pc = "lock"
          /\ call'[s].mine = call'[s].todo /\ locks' = locks
      BY <1>1, <2>3, ChangeBeginTypes DEF Locked
    <3> QED
      BY <1>1, <3>1, NoLocks, LocksFree
  <2> QED
    BY <1>2, <2>1, <2>2, <2>3, CallNext
<1>3. ASSUME NEW s \in Slots, Step(s) \/ GiveUp(s) PROVE LockInv'
  <2>1. Idle.pc \notin Locked /\ Idle.mine = {} /\ Idle.todo = {}
    BY DEF Idle, Locked
  <2>2. CASE ReadUnchanged(s) \/ ReadAnswer(s) \/ (ReadFails(s) /\ Finish(s))
    <3>1. CallStep(s) /\ call'[s] = Idle /\ call[s].pc \notin Locked
      BY <1>1, <2>2, ReadEndTypes DEF Reading, Locked
    <3>2. locks' = locks
      BY <2>2 DEF ReadUnchanged, ReadAnswer, ReadFails
    <3> QED
      BY <1>1, <2>1, <3>1, <3>2, NoLocks, LocksFree
  <2>3. CASE Unlock(s)
    BY <1>1, <2>1, <2>3, UnlockTypes, LocksFree
  <2>4. CASE Quiet(s) \/ ReadTrack(s) \/ Store(s) \/ StorePart(s) \/ Stamp(s) \/ Note(s)
    <3>1. Moves(s)
      BY <1>1, <2>4, QuietTypes, ReadTrackTypes, StoreTypes, StampTypes, NoteTypes
    <3>2. locks' = locks
      <4>1. CASE Quiet(s)
        BY <1>1, <4>1, QuietTypes
      <4>2. CASE ReadTrack(s) \/ Stamp(s) \/ Note(s)
        BY <1>1, <4>2, ReadTrackTypes, StampTypes, NoteTypes
      <4>3. CASE Store(s) \/ StorePart(s)
        BY <4>3 DEF Store, StorePart, Write
      <4> QED
        BY <2>4, <4>1, <4>2, <4>3
    <3> QED
      BY <1>1, <3>1, <3>2, LocksGo
  <2>5. ReadFails(s) => Goto(s, "track") \/ Finish(s)
    BY DEF ReadFails
  <2> QED
    BY <1>3, <2>2, <2>3, <2>4, <2>5, LockTaken DEF Step, Quiet
<1>4. ASSUME NEW p \in Paths, OutsideEdit(p) PROVE LockInv'
  BY <1>1, <1>4, OutsideEditTypes, LocksSame
<1>5. ASSUME NEW t \in Tasks, OtherTool(t) \/ ResetDedup(t) PROVE LockInv'
  BY <1>1, <1>5, OtherTypes, LocksSame
<1>6. CASE UNCHANGED vars
  BY <1>1, <1>6, LocksSame DEF vars
<1> QED
  BY <1>2, <1>3, <1>4, <1>5, <1>6 DEF Next

\* Among places there is a last one.
LEMMA LastPlace ==
    ASSUME NEW T \in SUBSET (1..Len(PathOrder)), T # {}
    PROVE  \E n \in T : \A m \in T : m <= n
<1> DEFINE L == Len(PathOrder)
           U == {L - m : m \in T}
<1>1. L \in Nat
  BY Places
<1>2. \A m \in T : L - m \in Nat
  BY <1>1
<1>3. U \in SUBSET Nat /\ U # {}
  BY <1>2
<1>4. PICK k \in U : \A m \in U : ~(<<m, k>> \in OpToRel(<, Nat))
  BY <1>3, WFMin, NatLessThanWellFounded
<1>5. PICK n \in T : k = L - n
  BY <1>4
<1>6. \A m \in T : m <= n
  <2> SUFFICES ASSUME NEW m \in T PROVE m <= n
    OBVIOUS
  <2>1. L - m \in U /\ L - m \in Nat /\ k \in Nat
    BY <1>2, <1>3, <1>4
  <2>2. ~(<<L - m, k>> \in OpToRel(<, Nat))
    BY <1>4, <2>1
  <2>3. ~(L - m < L - n)
    BY <1>5, <2>1, <2>2 DEF OpToRel
  <2> QED
    BY <1>1, <2>3
<1> QED
  BY <1>6

\* Who waits for a lock waits for a later one than those it holds; so of the
\* calls that are waited for, the one whose lock comes last goes on.
LEMMA SomebodyGoesOn == LockInv => NoDeadlock
<1> SUFFICES ASSUME LockInv, NEW s \in Slots, Waiting(s),
                    \A o \in Slots : call[o].pc # "idle" => Waiting(o)
             PROVE  FALSE
  BY DEF NoDeadlock
<1> DEFINE Awaited(p) == \E o \in Slots : Waiting(o) /\ p \in First(call[o].todo)
           T == {Place(p) : p \in {q \in Paths : Awaited(q)}}
<1>1. \A o \in Slots : call[o].todo \subseteq Paths
  BY DEF LockInv, Holds
<1>2. ASSUME NEW o \in Slots, Waiting(o) PROVE \E p \in First(call[o].todo) : p \in Paths
  BY <1>1, <1>2, FirstIs DEF Waiting
<1>3. T \in SUBSET (1..Len(PathOrder)) /\ T # {}
  BY <1>2, Places
<1>4. PICK n \in T : \A m \in T : m <= n
  BY <1>3, LastPlace
<1>5. PICK p \in Paths : n = Place(p) /\ Awaited(p)
  BY <1>4
<1>6. PICK o \in Slots : Waiting(o) /\ p \in First(call[o].todo)
  BY <1>5
<1> DEFINE h == locks[p]
<1>7. h # NoCall /\ h \in Slots
  BY <1>6 DEF Waiting, LockInv, TypeInv, LocksTyped
<1>8. call[h].pc \in Locked /\ p \in call[h].mine /\ p \notin call[h].todo
  BY <1>7 DEF LockInv, Owned
<1> HIDE DEF h
<1>9. Waiting(h)
  BY <1>7, <1>8 DEF Locked
<1>10. PICK q \in First(call[h].todo) : q \in Paths
  BY <1>2, <1>7, <1>9
<1>11. q \in call[h].todo /\ q # p /\ Place(p) <= Place(q)
  BY <1>7, <1>8, <1>10 DEF First, LockInv, Holds
<1>12. Place(q) \in T
  BY <1>7, <1>9, <1>10
<1>13. Place(q) <= Place(p) /\ Place(p) \in Nat /\ Place(q) \in Nat
  BY <1>4, <1>5, <1>12, Places
<1>14. Place(p) = Place(q)
  BY <1>11, <1>13
<1> QED
  BY <1>11, <1>14, <1>10, Places

\* Calls over overlapping sets of files never all wait for each other, whatever
\* the files, names and calls, because a patch takes its locks in one order.
THEOREM FilesNoDeadlock == Spec => []NoDeadlock
BY InitLocks, NextLocks, SomebodyGoesOn, PTL DEF Spec

------------------------------------------------------------------------------
(* No patch is lost.                                                       *)

\* EditsKept is not inductive: what a patch writes was loaded before.  Between
\* the two its lock keeps other changes out, and a change from outside takes the
\* edits away that the file had to keep; so what was loaded has them all, unless
\* it is from a file the call does not lock.
Based(s) ==
    call[s].pc = "store" /\ call[s].op # "write" =>
      \A i \in DOMAIN call[s].names :
         call[s].base[i].path \in call[s].mine \ stray =>
            kept[call[s].base[i].path] \subseteq call[s].base[i].edits

EditInv ==
    /\ LockInv
    /\ EditsKept
    /\ \A s \in Slots : Based(s)

\* A change is stored.
LEMMA EditsStore ==
    ASSUME EditInv, NEW s \in Slots, Store(s) \/ StorePart(s)
    PROVE  EditsKept' /\ \A o \in Slots : Based(o)'
<1>1. /\ TypeInv /\ TypeInv' /\ CallStep(s) /\ call'[s].pc # "store" /\ call[s].pc = "store"
  BY StoreTypes DEF EditInv, LockInv, Moves
<1>2. PICK done \in SUBSET DOMAIN call[s].names : Write(s, done)
  BY <1>1, StoreTypes
<1> DEFINE hit == Hit(s, done)
<1>3. /\ \A p \in Paths \ hit : file'[p] = file[p] /\ kept'[p] = kept[p]
      /\ \A p \in hit :
           /\ p \in Paths
           /\ file'[p].edits = IF call[s].op = "write" THEN {} ELSE {changes + 1} \cup From(s, done, p)
           /\ kept'[p] = IF call[s].op = "write" THEN {} ELSE kept[p] \cup {changes + 1}
           /\ p \notin stray' => /\ p \in call[s].mine
                                 /\ call[s].op # "write" =>
                                      \A i \in Into(s, done, p) : call[s].base[i].path = p
      /\ stray \subseteq stray'
  BY <1>1, <1>2, WriteIs
<1> HIDE DEF hit
<1>4. EditsKept'
  <2> SUFFICES ASSUME NEW p \in Paths, p \notin stray' PROVE kept'[p] \subseteq file'[p].edits
    BY DEF EditsKept, Paths
  <2>1. CASE p \notin hit
    BY <1>3, <2>1 DEF EditInv, EditsKept
  <2>2. CASE p \in hit /\ call[s].op = "write"
    BY <1>3, <2>2
  <2>3. CASE p \in hit /\ call[s].op # "write"
    <3>1. PICK i \in Into(s, done, p) : call[s].base[i].path = p /\ i \in DOMAIN call[s].names
      BY <1>3, <2>3 DEF hit, Hit, Into
    <3>2. kept[p] \subseteq call[s].base[i].edits
      BY <1>1, <1>3, <2>3, <3>1 DEF EditInv, Based
    <3>3. kept[p] \subseteq From(s, done, p)
      BY <3>1, <3>2 DEF From
    <3> QED
      BY <1>3, <2>3, <3>3
  <2> QED
    BY <2>1, <2>2, <2>3
<1>5. \A o \in Slots : Based(o)'
  <2> SUFFICES ASSUME NEW o \in Slots, o # s PROVE Based(o)'
    BY <1>1 DEF Based
  <2>1. call'[o] = call[o] /\ Based(o) /\ Holds(o) /\ Holds(s)
    BY <1>1, CallTypes DEF EditInv, LockInv
  <2> SUFFICES ASSUME call[o].pc = "store", call[o].op # "write", NEW i \in DOMAIN call[o].names,
                      call[o].base[i].path \in call[o].mine \ stray'
               PROVE  kept'[call[o].base[i].path] \subseteq call[o].base[i].edits
    BY <2>1 DEF Based
  <2> DEFINE p == call[o].base[i].path
  <2>2. p \in Paths /\ kept[p] \subseteq call[o].base[i].edits
    BY <1>3, <2>1 DEF Based, Holds
  <2>3. locks[p] = o
    BY <2>1 DEF Holds, Locked
  <2>4. p \notin hit
    <3> SUFFICES ASSUME p \in hit PROVE FALSE
      OBVIOUS
    <3>1. p \in call[s].mine
      BY <1>3
    <3>2. locks[p] = s
      BY <1>1, <2>1, <3>1 DEF Holds, Locked
    <3> QED
      BY <2>3, <3>2
  <2> QED
    BY <1>3, <2>2, <2>4
<1> QED
  BY <1>4, <1>5

\* A step of one call that stores nothing; what it loads has what must be kept.
LEMMA EditsGo ==
    ASSUME EditInv, NEW s \in Slots, CallStep(s), UNCHANGED <<file, kept, stray>>,
           Load(s) \/ GiveUp(s) \/ call'[s].pc # "store" \/ call'[s].op = "write"
    PROVE  EditsKept' /\ \A o \in Slots : Based(o)'
<1>0. TypeInv
  BY DEF EditInv, LockInv
<1>1. EditsKept'
  BY DEF EditInv, EditsKept, Paths
<1>2. \A o \in Slots : o # s => Based(o)'
  <2>1. \A o \in Slots : o # s => call'[o] = call[o]
    BY <1>0, CallTypes
  <2> QED
    BY <2>1 DEF EditInv, Based
<1>3. Based(s)'
  <2>1. CASE Load(s)
    BY <1>0, <2>1, LoadMoves DEF EditInv, EditsKept, Based
  <2>2. CASE GiveUp(s)
    BY <1>0, <2>2, FlagMoves DEF EditInv, Based, Moves
  <2>3. CASE call'[s].pc # "store" \/ call'[s].op = "write"
    BY <2>3 DEF Based
  <2> QED
    BY <2>1, <2>2, <2>3
<1> QED
  BY <1>1, <1>2, <1>3

\* Every step keeps the edits.
LEMMA NextEdits == EditInv /\ [Next]_vars => EditInv'
<1> SUFFICES ASSUME EditInv, [Next]_vars PROVE EditInv'
  OBVIOUS
<1>1. LockInv' /\ TypeInv
  BY NextLocks DEF EditInv, LockInv
<1>2. ASSUME UNCHANGED <<file, call, kept, stray>> PROVE EditsKept' /\ \A o \in Slots : Based(o)'
  BY <1>2 DEF EditInv, EditsKept, Based, Paths
<1>3. ASSUME NEW s \in Slots, Call(s) PROVE EditsKept' /\ \A o \in Slots : Based(o)'
  <2>1. CASE Search(s)
    BY <1>1, <1>2, <2>1, SearchTypes
  <2>2. ASSUME NEW n \in Names, ReadBegin(s, n) PROVE EditsKept' /\ \A o \in Slots : Based(o)'
    <3>1. CallStep(s) /\ call'[s].pc # "store"
      BY <1>1, <2>2, ReadBeginTypes DEF Reading
    <3>2. UNCHANGED <<file, kept, stray>>
      BY <2>2 DEF ReadBegin, ghosts
    <3> QED
      BY <3>1, <3>2, EditsGo
  <2>3. ASSUME NEW op \in {"write", "replace", "v4a"}, NEW ns \in Seq(Names), ns # <<>>,
               ChangeBegin(s, op, ns)
        PROVE  EditsKept' /\ \A o \in Slots : Based(o)'
    BY <1>1, <2>3, ChangeBeginTypes, EditsGo
  <2> QED
    BY <1>3, <2>1, <2>2, <2>3, CallNext
<1>4. ASSUME NEW s \in Slots, Step(s) \/ GiveUp(s) PROVE EditsKept' /\ \A o \in Slots : Based(o)'
  <2>1. CASE ReadUnchanged(s) \/ ReadAnswer(s) \/ (ReadFails(s) /\ Finish(s))
    <3>1. CallStep(s) /\ call'[s].pc # "store"
      BY <1>1, <2>1, ReadEndTypes DEF Idle
    <3>2. UNCHANGED <<file, kept, stray>>
      BY <2>1 DEF ReadUnchanged, ReadAnswer, ReadFails, ghosts
    <3> QED
      BY <3>1, <3>2, EditsGo
  <2>2. CASE Unlock(s)
    <3>1. CallStep(s) /\ call'[s].pc # "store" /\ UNCHANGED <<file, kept, stray>>
      BY <1>1, <2>2, UnlockTypes DEF Idle
    <3> QED
      BY <3>1, EditsGo
  <2>3. CASE LockPath(s)
    <3>1. CallStep(s) /\ call'[s].pc # "store" /\ UNCHANGED <<file, kept, stray>>
      BY <1>1, <2>3, LockPathTypes
    <3> QED
      BY <3>1, EditsGo
  <2>4. CASE Quiet(s)
    <3>1. /\ CallStep(s) /\ UNCHANGED <<file, kept, stray>> /\ call'[s].op = call[s].op
          /\ call'[s].pc = "store" => Check(s) \/ Load(s) \/ GiveUp(s)
      BY <1>1, <2>4, QuietTypes DEF Moves
    <3>2. Check(s) => call'[s].pc # "store" \/ call[s].op = "write"
      BY <1>1, CheckMoves
    <3> QED
      BY <3>1, <3>2, EditsGo
  <2>5. CASE ReadTrack(s) \/ Stamp(s) \/ Note(s)
    <3>1. CallStep(s) /\ call'[s].pc # "store" /\ UNCHANGED <<file, kept, stray>>
      BY <1>1, <2>5, ReadTrackTypes, StampTypes, NoteTypes DEF Moves
    <3> QED
      BY <3>1, EditsGo
  <2>6. ReadFails(s) => Goto(s, "track") \/ Finish(s)
    BY DEF ReadFails
  <2> QED
    BY <1>4, <2>1, <2>2, <2>3, <2>4, <2>5, <2>6, EditsStore DEF Step, Quiet
<1>5. ASSUME NEW p \in Paths, OutsideEdit(p) PROVE EditsKept' /\ \A o \in Slots : Based(o)'
  <2>1. /\ UNCHANGED <<call, stray>> /\ kept'[p] = {}
        /\ \A q \in Paths \ {p} : file'[q] = file[q] /\ kept'[q] = kept[q]
    BY <1>1, <1>5, OutsideEditTypes
  <2>2. EditsKept'
    BY <2>1 DEF EditInv, EditsKept, Paths
  <2>3. \A o \in Slots : Based(o)'
    <3> SUFFICES ASSUME NEW o \in Slots PROVE Based(o)'
      OBVIOUS
    <3>1. Based(o) /\ call[o].mine \subseteq Paths
      BY DEF EditInv, LockInv, Holds
    <3> QED
      BY <2>1, <3>1 DEF Based
  <2> QED
    BY <2>2, <2>3
<1>6. ASSUME NEW t \in Tasks, OtherTool(t) \/ ResetDedup(t) PROVE EditsKept' /\ \A o \in Slots : Based(o)'
  BY <1>1, <1>2, <1>6, OtherTypes
<1>7. ASSUME UNCHANGED vars PROVE EditsKept' /\ \A o \in Slots : Based(o)'
  BY <1>2, <1>7 DEF vars
<1> QED
  BY <1>1, <1>2, <1>3, <1>4, <1>5, <1>6, <1>7 DEF Next, EditInv

\* No patch is lost between calls that lock the files they write: however the
\* calls of several agents, or of one, interleave and fail, and whatever else
\* changes the files, a file has the edits of every patch since it was last
\* replaced as a whole.
THEOREM NoEditLost == Spec => []EditsKept
<1>1. Init => EditInv
  <2> SUFFICES ASSUME Init PROVE EditInv
    OBVIOUS
  <2>1. LockInv /\ EditsKept
    BY InitLocks DEF Init, EditsKept
  <2>2. \A s \in Slots : call[s].pc # "store"
    BY DEF Init, Idle
  <2> QED
    BY <2>1, <2>2 DEF EditInv, Based
<1>2. EditInv => EditsKept
  BY DEF EditInv
<1> QED
  BY <1>1, <1>2, NextEdits, PTL DEF Spec
==============================================================================
