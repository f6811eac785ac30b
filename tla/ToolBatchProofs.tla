---------------------------- MODULE ToolBatchProofs ----------------------------
(***************************************************************************)
(* The tool batches of ToolBatch, for every plan of the turns, every       *)
(* number of worker threads, of interrupts and of steers: each call has    *)
(* its one message in its place, a message that says the call did nothing  *)
(* is right, no interrupt is lost and no steer either.                     *)
(***************************************************************************)
EXTENDS ToolBatch, WellFoundedInduction, SequenceTheorems, TLAPS

-------------------------------------------------------------------------------
\* FlattenSeq, which puts the calls of the segments and of the turns one after
\* the other, is a recursive function: what it makes of one sequence more.

\* A set of numbers that holds 0 and the successor of each holds them all, for
\* otherwise there would be a least number outside it.
LEMMA Counting ==
    ASSUME NEW S, 0 \in S, \A n \in Nat : n \in S => n + 1 \in S
    PROVE  Nat \subseteq S
<1> DEFINE T == Nat \ S
<1> SUFFICES ASSUME T # {} PROVE FALSE
  OBVIOUS
<1>1. PICK m \in T : \A k \in T : <<k, m>> \notin OpToRel(<, Nat)
  <2>1. T \subseteq Nat
    OBVIOUS
  <2> QED BY <2>1, NatLessThanWellFounded, WFMin
<1>2. m \in Nat /\ m # 0 /\ m - 1 \in Nat /\ m - 1 < m /\ (m - 1) + 1 = m
  OBVIOUS
<1>3. m - 1 \notin T
  BY <1>1, <1>2 DEF OpToRel
<1> QED BY <1>2, <1>3

IsFlat(f, g, n) == f = [i \in 1..n |-> IF i = 1 THEN g[i] ELSE f[i - 1] \o g[i]]

\* A function of this kind extends its value at i - 1 by the i-th sequence.
LEMMA FlatAt ==
    ASSUME NEW f, NEW g, NEW n \in Nat, IsFlat(f, g, n)
    PROVE  \A i \in 1..n : i # 1 => f[i] = f[i - 1] \o g[i]
  BY DEF IsFlat

\* For every list of sequences there is such a function, of every length.
LEMMA FlatExists ==
    ASSUME NEW g
    PROVE  \A n \in Nat : \E f : IsFlat(f, g, n)
<1> DEFINE S == {n \in Nat : \E f : IsFlat(f, g, n)}
<1>1. 0 \in S
  <2> DEFINE f == [i \in 1..0 |-> {}]
  <2>1. IsFlat(f, g, 0)
    BY DEF IsFlat
  <2> QED
    BY <2>1
<1>2. ASSUME NEW n \in Nat, n \in S PROVE n + 1 \in S
  <2>1. PICK f : IsFlat(f, g, n)
    BY <1>2
  <2> DEFINE h == [i \in 1..(n + 1) |-> IF i = 1 THEN g[i]
                                        ELSE IF i = n + 1 THEN f[n] \o g[i] ELSE f[i]]
  <2>2. ASSUME NEW i \in 1..(n + 1)
        PROVE  h[i] = IF i = 1 THEN g[i] ELSE h[i - 1] \o g[i]
    <3>1. CASE i = 1
      BY <3>1
    <3>2. CASE i # 1
      <4>1. i - 1 \in 1..(n + 1) /\ i - 1 \in 1..n /\ i - 1 # n + 1
        BY <3>2
      <4>2. f[i - 1] = h[i - 1]
        <5>1. CASE i - 1 = 1
          BY <2>1, <4>1, <5>1 DEF IsFlat
        <5>2. CASE i - 1 # 1
          BY <4>1, <5>2
        <5> QED BY <5>1, <5>2
      <4>3. CASE i = n + 1
        <5>1. i - 1 = n
          BY <4>3
        <5>2. h[i] = f[n] \o g[i]
          BY <3>2, <4>3
        <5> QED BY <3>2, <4>2, <5>1, <5>2
      <4>4. CASE i # n + 1
        <5>1. i \in 1..n
          BY <4>4
        <5>2. f[i] = f[i - 1] \o g[i]
          BY <2>1, <3>2, <5>1, FlatAt
        <5> QED BY <3>2, <4>2, <4>4, <5>2
      <4> QED BY <4>3, <4>4
    <3> QED BY <3>1, <3>2
  <2>3. IsFlat(h, g, n + 1)
    <3>1. h = [i \in 1..(n + 1) |-> h[i]]
      OBVIOUS
    <3> HIDE DEF h
    <3> QED BY <2>2, <3>1 DEF IsFlat
  <2> QED BY <2>3
<1> HIDE DEF S
<1>3. Nat \subseteq S
  BY <1>1, <1>2, Counting
<1> QED BY <1>3 DEF S

\* Two of them agree where the sequences they are made of agree.
LEMMA FlatAgree ==
    ASSUME NEW f, NEW g, NEW h, NEW k, NEW m \in Nat, NEW n \in Nat, m <= n,
           IsFlat(f, g, m), IsFlat(h, k, n), \A i \in 1..m : g[i] = k[i]
    PROVE  \A i \in 1..m : f[i] = h[i]
<1> DEFINE S == {i \in Nat : i \in 1..m => f[i] = h[i]}
<1>0. /\ \A i \in 1..m : i = 1 => f[i] = g[i]
      /\ \A i \in 1..m : i # 1 => f[i] = f[i - 1] \o g[i]
      /\ \A i \in 1..n : i = 1 => h[i] = k[i]
      /\ \A i \in 1..n : i # 1 => h[i] = h[i - 1] \o k[i]
  BY DEF IsFlat
<1>1. ASSUME NEW i \in Nat, i \in S PROVE i + 1 \in S
  <2> SUFFICES ASSUME i + 1 \in 1..m PROVE f[i + 1] = h[i + 1]
    OBVIOUS
  <2>1. i + 1 \in 1..n /\ g[i + 1] = k[i + 1] /\ (i + 1) - 1 = i
    OBVIOUS
  <2>2. CASE i = 0
    <3>1. PICK j : j = i + 1
      OBVIOUS
    <3>2. j \in 1..m /\ j \in 1..n /\ j = 1
      BY <2>1, <2>2, <3>1
    <3>3. f[j] = g[j]
      BY <1>0, <3>2
    <3>4. h[j] = k[j]
      BY <1>0, <3>2
    <3> QED BY <2>1, <3>1, <3>3, <3>4
  <2>3. CASE i # 0
    <3>1. f[i] = h[i] /\ i + 1 # 1
      BY <1>1, <2>3
    <3>2. PICK j : j = i + 1
      OBVIOUS
    <3>3. j \in 1..m /\ j \in 1..n /\ j # 1
      BY <2>1, <3>1, <3>2
    <3>4. f[j] = f[j - 1] \o g[j]
      BY <1>0, <3>3
    <3>5. h[j] = h[j - 1] \o k[j]
      BY <1>0, <3>3
    <3> QED BY <2>1, <3>1, <3>2, <3>4, <3>5
  <2> QED BY <2>2, <2>3
<1>2. 0 \in S
  OBVIOUS
<1> HIDE DEF S
<1>3. Nat \subseteq S
  BY <1>1, <1>2, Counting
<1> QED BY <1>3 DEF S

\* Its values are sequences over the same set.
LEMMA FlatTyped ==
    ASSUME NEW f, NEW g, NEW n \in Nat, NEW V, IsFlat(f, g, n),
           \A i \in 1..n : g[i] \in Seq(V)
    PROVE  \A i \in 1..n : f[i] \in Seq(V)
<1> DEFINE S == {i \in Nat : i \in 1..n => f[i] \in Seq(V)}
<1>0. /\ \A i \in 1..n : i = 1 => f[i] = g[i]
      /\ \A i \in 1..n : i # 1 => f[i] = f[i - 1] \o g[i]
  BY DEF IsFlat
<1>1. ASSUME NEW i \in Nat, i \in S PROVE i + 1 \in S
  <2> SUFFICES ASSUME i + 1 \in 1..n PROVE f[i + 1] \in Seq(V)
    OBVIOUS
  <2>1. CASE i = 0
    <3>1. PICK j \in 1..n : j = i + 1
      OBVIOUS
    <3>2. f[j] = g[j]
      BY <1>0, <2>1, <3>1
    <3> QED BY <3>1, <3>2
  <2>2. CASE i # 0
    <3>1. f[i] \in Seq(V) /\ i + 1 # 1 /\ (i + 1) - 1 = i
      BY <1>1, <2>2
    <3>2. PICK j \in 1..n : j = i + 1
      OBVIOUS
    <3>3. j # 1
      BY <3>1, <3>2
    <3>4. f[j] = f[j - 1] \o g[j]
      BY <1>0, <3>3
    <3> QED BY <3>1, <3>2, <3>4
  <2> QED BY <2>1, <2>2
<1>2. 0 \in S
  OBVIOUS
<1> HIDE DEF S
<1>3. Nat \subseteq S
  BY <1>1, <1>2, Counting
<1> QED BY <1>3 DEF S

\* The value of FlattenSeq is the last of any such function.
LEMMA FlattenIs ==
    ASSUME NEW V, NEW g \in Seq(Seq(V)), g # <<>>
    PROVE  \E f : IsFlat(f, g, Len(g)) /\ FlattenSeq(g) = f[Len(g)]
<1>1. Len(g) \in Nat /\ Len(g) # 0
  OBVIOUS
<1> DEFINE f == CHOOSE f : IsFlat(f, g, Len(g))
<1>2. IsFlat(f, g, Len(g))
  BY <1>1, FlatExists
<1>3. FlattenSeq(g) = f[Len(g)]
  BY <1>1 DEF FlattenSeq, IsFlat
<1> QED BY <1>2, <1>3

\* Flattening one sequence more appends it to what the others flatten to.
LEMMA FlattenStep ==
    ASSUME NEW V, NEW n \in Nat, NEW g \in Seq(Seq(V)), NEW h \in Seq(Seq(V)),
           Len(g) = n + 1, Len(h) = n, \A i \in 1..n : h[i] = g[i]
    PROVE  FlattenSeq(g) = FlattenSeq(h) \o g[n + 1] /\ FlattenSeq(g) \in Seq(V)
<1>1. g # <<>> /\ g[n + 1] \in Seq(V) /\ \A i \in 1..(n + 1) : g[i] \in Seq(V)
  OBVIOUS
<1>2. PICK f : IsFlat(f, g, n + 1) /\ FlattenSeq(g) = f[n + 1]
  BY <1>1, FlattenIs
<1>3. n + 1 \in Nat
  OBVIOUS
<1>4. /\ \A i \in 1..(n + 1) : i = 1 => f[i] = g[i]
      /\ \A i \in 1..(n + 1) : i # 1 => f[i] = f[i - 1] \o g[i]
  BY <1>2, <1>3 DEF IsFlat
<1>5. FlattenSeq(g) \in Seq(V)
  BY <1>1, <1>2, FlatTyped
<1>6. CASE n = 0
  <2>1. FlattenSeq(h) = <<>>
    BY <1>6 DEF FlattenSeq
  <2>2. f[n + 1] = g[n + 1]
    <3>1. PICK j \in 1..(n + 1) : j = n + 1
      OBVIOUS
    <3>2. n + 1 \in Nat /\ j = 1
      BY <1>6, <3>1
    <3>3. f[j] = g[j]
      BY <1>4, <3>2
    <3> QED BY <3>1, <3>3
  <2> QED BY <1>1, <1>2, <1>5, <2>1, <2>2
<1>7. CASE n # 0
  <2>1. PICK e : IsFlat(e, h, n) /\ FlattenSeq(h) = e[n]
    BY <1>7, FlattenIs
  <2>2. f[n] = e[n]
    BY <1>2, <1>7, <2>1, FlatAgree
  <2>3. f[n + 1] = f[n] \o g[n + 1]
    <3>1. PICK j \in 1..(n + 1) : j = n + 1
      OBVIOUS
    <3>2. n + 1 \in Nat /\ j # 1
      BY <1>7, <3>1
    <3>3. f[j] = f[j - 1] \o g[j]
      BY <1>4, <3>2
    <3>4. j - 1 = n
      BY <3>1
    <3> QED BY <3>1, <3>3, <3>4
  <2> QED BY <1>2, <1>5, <2>1, <2>2, <2>3
<1> QED BY <1>6, <1>7

\* The elements of a flattened list are those of its sequences' type.
LEMMA FlattenTyped ==
    ASSUME NEW V, NEW g \in Seq(Seq(V))
    PROVE  FlattenSeq(g) \in Seq(V)
<1>1. CASE g = <<>>
  BY <1>1 DEF FlattenSeq
<1>2. CASE g # <<>>
  <2>1. PICK f : IsFlat(f, g, Len(g)) /\ FlattenSeq(g) = f[Len(g)]
    BY <1>2, FlattenIs
  <2>2. Len(g) \in Nat /\ Len(g) \in 1..Len(g) /\ \A i \in 1..Len(g) : g[i] \in Seq(V)
    BY <1>2
  <2> QED BY <2>1, <2>2, FlatTyped
<1> QED BY <1>1, <1>2

-------------------------------------------------------------------------------
\* The calls the model has emitted up to the n-th segment of turn t.

CallsOf(t, n) == [s \in 1..n |-> Turns[t][s].calls]
Upto(t, n) == EmittedCalls(t - 1) \o FlattenSeq(CallsOf(t, n))

\* The turns, their segments and their calls, as far as the assumption says.
LEMMA PlanTypes ==
    /\ Len(Turns) \in Nat \ {0} /\ DOMAIN Turns = 1..Len(Turns)
    /\ \A t \in DOMAIN Turns :
         /\ Len(Turns[t]) \in Nat \ {0} /\ DOMAIN Turns[t] = 1..Len(Turns[t])
         /\ \A s \in DOMAIN Turns[t] :
              /\ Turns[t][s] \in [kind : {"parallel", "sequential"}, calls : Seq(Calls)]
              /\ Turns[t][s].calls \in Seq(Calls) /\ Turns[t][s].calls # <<>>
<1> DEFINE X == [kind : {"parallel", "sequential"}, calls : Seq(Calls)]
<1>1. Turns \in Seq(Seq(X)) /\ Turns # <<>> /\ \A t \in DOMAIN Turns : Turns[t] # <<>>
  BY TurnsAssumption
<1>2. \A t \in DOMAIN Turns : \A s \in DOMAIN Turns[t] : Turns[t][s].calls # <<>>
  BY TurnsAssumption
<1>3. ASSUME NEW x \in X PROVE x.calls \in Seq(Calls)
  OBVIOUS
<1> HIDE DEF X
<1>4. Len(Turns) \in Nat \ {0} /\ DOMAIN Turns = 1..Len(Turns)
  BY <1>1
<1>5. ASSUME NEW t \in DOMAIN Turns
      PROVE  /\ Len(Turns[t]) \in Nat \ {0} /\ DOMAIN Turns[t] = 1..Len(Turns[t])
             /\ \A s \in DOMAIN Turns[t] : Turns[t][s] \in X
  <2>1. Turns[t] \in Seq(X) /\ Turns[t] # <<>>
    BY <1>1
  <2> QED BY <2>1
<1> QED BY <1>2, <1>3, <1>4, <1>5 DEF X

\* The calls of the first n segments of a turn.
LEMMA CallsOfTyped ==
    ASSUME NEW t \in DOMAIN Turns, NEW n \in 0..Len(Turns[t])
    PROVE  /\ CallsOf(t, n) \in Seq(Seq(Calls)) /\ Len(CallsOf(t, n)) = n
           /\ \A s \in 1..n : CallsOf(t, n)[s] = Turns[t][s].calls
<1>1. n \in Nat /\ \A s \in 1..n : Turns[t][s].calls \in Seq(Calls)
  BY PlanTypes
<1> QED BY <1>1 DEF CallsOf

\* What the first n turns emit is what is emitted up to the last segment of the n-th.
LEMMA EmittedTyped ==
    ASSUME NEW n \in 0..Len(Turns)
    PROVE  /\ EmittedCalls(n) \in Seq(Calls)
           /\ n # 0 => EmittedCalls(n) = Upto(n, Len(Turns[n]))
<1> DEFINE G(m) == [i \in 1..m |-> FlattenSeq(CallsOf(i, Len(Turns[i])))]
<1>1. ASSUME NEW m \in 0..Len(Turns)
      PROVE  /\ EmittedCalls(m) = FlattenSeq(G(m))
             /\ G(m) \in Seq(Seq(Calls)) /\ Len(G(m)) = m
             /\ \A i \in 1..m : G(m)[i] = FlattenSeq(CallsOf(i, Len(Turns[i])))
  <2>1. m \in Nat /\ \A i \in 1..m : i \in DOMAIN Turns
    BY PlanTypes
  <2>2. ASSUME NEW i \in 1..m
        PROVE  /\ FlattenSeq(CallsOf(i, Len(Turns[i]))) \in Seq(Calls)
               /\ CallsOf(i, Len(Turns[i])) = [s \in DOMAIN Turns[i] |-> Turns[i][s].calls]
    <3>1. DOMAIN Turns[i] = 1..Len(Turns[i]) /\ Len(Turns[i]) \in 0..Len(Turns[i])
      BY <2>1, PlanTypes
    <3>2. CallsOf(i, Len(Turns[i])) \in Seq(Seq(Calls))
      BY <2>1, <3>1, CallsOfTyped
    <3> QED BY <3>1, <3>2, FlattenTyped DEF CallsOf
  <2>3. EmittedCalls(m) = FlattenSeq(G(m))
    <3>1. G(m) = [i \in 1..m |-> FlattenSeq([s \in DOMAIN Turns[i] |-> Turns[i][s].calls])]
      BY <2>2
    <3> HIDE DEF G
    <3> QED BY <3>1 DEF EmittedCalls
  <2>4. \A i \in 1..m : G(m)[i] = FlattenSeq(CallsOf(i, Len(Turns[i])))
    OBVIOUS
  <2>5. G(m) \in Seq(Seq(Calls)) /\ Len(G(m)) = m
    <3>1. PICK X : X = Seq(Calls)
      OBVIOUS
    <3>2. \A i \in 1..m : G(m)[i] \in X
      BY <2>2, <2>4, <3>1
    <3>3. G(m) = [i \in 1..m |-> G(m)[i]]
      OBVIOUS
    <3> HIDE DEF G
    <3>4. PICK f : f = G(m)
      OBVIOUS
    <3>5. f \in Seq(X) /\ Len(f) = m
      BY <2>1, <3>2, <3>3, <3>4
    <3> QED BY <3>1, <3>4, <3>5
  <2> QED BY <2>3, <2>4, <2>5
<1> HIDE DEF G
<1>2. EmittedCalls(n) \in Seq(Calls)
  BY <1>1, FlattenTyped
<1>3. CASE n # 0
  <2>1. n - 1 \in 0..Len(Turns) /\ n - 1 \in Nat /\ n \in 1..n /\ (n - 1) + 1 = n
    BY <1>3, PlanTypes
  <2>2. \A i \in 1..(n - 1) : i \in 1..n
    BY <2>1
  <2>3. FlattenSeq(G(n)) = FlattenSeq(G(n - 1)) \o G(n)[n]
    <3> DEFINE g == G(n)
               h == G(n - 1)
    <3>1. /\ g \in Seq(Seq(Calls)) /\ h \in Seq(Seq(Calls))
          /\ Len(g) = (n - 1) + 1 /\ Len(h) = n - 1 /\ \A i \in 1..(n - 1) : h[i] = g[i]
      BY <1>1, <2>1, <2>2
    <3> HIDE DEF g, h
    <3>2. FlattenSeq(g) = FlattenSeq(h) \o g[(n - 1) + 1]
      BY <2>1, <3>1, FlattenStep
    <3> QED BY <2>1, <3>2 DEF g, h
  <2> QED BY <1>1, <1>2, <2>1, <2>3 DEF Upto
<1> QED BY <1>2, <1>3

\* A place in the plan has emitted calls.
LEMMA UptoTyped ==
    ASSUME NEW t \in DOMAIN Turns, NEW n \in 0..Len(Turns[t])
    PROVE  Upto(t, n) \in Seq(Calls)
<1>1. t - 1 \in 0..Len(Turns)
  BY PlanTypes
<1> QED BY <1>1, EmittedTyped, CallsOfTyped, FlattenTyped DEF Upto

\* The next segment adds its own calls to what was emitted before it.
LEMMA UptoNext ==
    ASSUME NEW t \in DOMAIN Turns, NEW n \in DOMAIN Turns[t]
    PROVE  Upto(t, n) = Upto(t, n - 1) \o Turns[t][n].calls
<1>1. /\ n \in 0..Len(Turns[t]) /\ n - 1 \in 0..Len(Turns[t]) /\ n - 1 \in Nat
      /\ (n - 1) + 1 = n /\ t - 1 \in 0..Len(Turns) /\ Turns[t][n].calls \in Seq(Calls)
  BY PlanTypes
<1> DEFINE g == CallsOf(t, n)
           h == CallsOf(t, n - 1)
<1>2. /\ g \in Seq(Seq(Calls)) /\ Len(g) = (n - 1) + 1 /\ g[n] = Turns[t][n].calls
      /\ h \in Seq(Seq(Calls)) /\ Len(h) = n - 1
      /\ \A i \in 1..(n - 1) : h[i] = g[i]
  <2>1. g \in Seq(Seq(Calls)) /\ Len(g) = n /\ \A i \in 1..n : g[i] = Turns[t][i].calls
    BY <1>1, CallsOfTyped
  <2>2. /\ h \in Seq(Seq(Calls)) /\ Len(h) = n - 1
        /\ \A i \in 1..(n - 1) : h[i] = Turns[t][i].calls
    BY <1>1, CallsOfTyped
  <2>3. n \in 1..n /\ \A i \in 1..(n - 1) : i \in 1..n
    BY <1>1
  <2> HIDE DEF g, h
  <2> QED BY <1>1, <2>1, <2>2, <2>3
<1> HIDE DEF g, h
<1>3. FlattenSeq(g) = FlattenSeq(h) \o g[(n - 1) + 1]
  BY <1>1, <1>2, FlattenStep
<1>4. FlattenSeq(h) \in Seq(Calls) /\ EmittedCalls(t - 1) \in Seq(Calls)
  BY <1>1, <1>2, FlattenTyped, EmittedTyped
<1>5. EmittedCalls(t - 1) \o (FlattenSeq(h) \o Turns[t][n].calls)
        = (EmittedCalls(t - 1) \o FlattenSeq(h)) \o Turns[t][n].calls
  <2>1. PICK a \in Seq(Calls) : a = EmittedCalls(t - 1)
    BY <1>4
  <2>2. PICK b \in Seq(Calls) : b = FlattenSeq(h)
    BY <1>4
  <2>3. PICK c \in Seq(Calls) : c = Turns[t][n].calls
    BY <1>1
  <2>4. (a \o b) \o c = a \o (b \o c)
    BY ConcatAssociative
  <2> QED BY <2>1, <2>2, <2>3, <2>4
<1> QED BY <1>1, <1>2, <1>3, <1>5 DEF Upto, g, h

\* Before the first segment of a turn: what the turns before it emitted.
LEMMA UptoNone ==
    ASSUME NEW t \in DOMAIN Turns
    PROVE  Upto(t, 0) = EmittedCalls(t - 1)
<1>1. t - 1 \in 0..Len(Turns) /\ 0 \in 0..Len(Turns[t])
  BY PlanTypes
<1>2. CallsOf(t, 0) = <<>> /\ EmittedCalls(t - 1) \in Seq(Calls)
  BY <1>1, CallsOfTyped, EmittedTyped
<1>3. FlattenSeq(<<>>) = <<>>
  BY DEF FlattenSeq
<1> QED BY <1>2, <1>3 DEF Upto

\* Before the first turn nothing has been emitted.
LEMMA EmittedNone == EmittedCalls(0) = <<>>
<1>1. [i \in 1..0 |-> FlattenSeq([s \in DOMAIN Turns[i] |-> Turns[i][s].calls])] = <<>>
  OBVIOUS
<1>2. FlattenSeq(<<>>) = <<>>
  BY DEF FlattenSeq
<1> QED BY <1>1, <1>2 DEF EmittedCalls

-------------------------------------------------------------------------------
\* What the steps make of the messages.

\* What Append does to a sequence, position by position.
LEMMA AppendShape ==
    ASSUME NEW X, NEW q \in Seq(X), NEW x \in X
    PROVE  /\ Append(q, x) \in Seq(X) /\ Len(Append(q, x)) = Len(q) + 1
           /\ \A i \in 1..Len(q) : Append(q, x)[i] = q[i]
           /\ Append(q, x)[Len(q) + 1] = x
  OBVIOUS

\* What concatenation does to sequences, position by position.
LEMMA ConcatShape ==
    ASSUME NEW X, NEW q \in Seq(X), NEW r \in Seq(X)
    PROVE  /\ q \o r \in Seq(X) /\ Len(q \o r) = Len(q) + Len(r)
           /\ \A i \in 1..Len(q) : (q \o r)[i] = q[i]
           /\ \A k \in 1..Len(r) : (q \o r)[Len(q) + k] = r[k]
  OBVIOUS

Texts(m)   == m.seen \cup m.lost
NotedCalls == [i \in DOMAIN messages |-> messages[i].call]
Same(m, n) == m.call = n.call /\ m.effect = n.effect /\ Texts(m) = Texts(n)

\* One message more for each of some calls, with the effect and the steers told.
Grown(calls, effect, texts) ==
  /\ messages' \in Seq(Message)
  /\ Len(messages') = Len(messages) + Len(calls)
  /\ \A i \in 1..Len(messages) : Same(messages'[i], messages[i])
  /\ \A k \in 1..Len(calls) :
       /\ messages'[Len(messages) + k].call = calls[k]
       /\ messages'[Len(messages) + k].effect = effect
       /\ Texts(messages'[Len(messages) + k]) = texts

\* A flush to the session store changes no call, no effect and no steer of a message.
LEMMA FlushShape ==
    ASSUME NEW ms \in Seq(Message)
    PROVE  /\ FlushSessionDb(ms) \in Seq(Message)
           /\ Len(FlushSessionDb(ms)) = Len(ms)
           /\ \A i \in 1..Len(ms) : /\ FlushSessionDb(ms)[i] \in Message
                                    /\ Same(FlushSessionDb(ms)[i], ms[i])
<1> DEFINE F(i) == IF ms[i].saved THEN ms[i]
                   ELSE [ms[i] EXCEPT !.saved = TRUE, !.row = ms[i].seen]
<1>1. Len(ms) \in Nat /\ DOMAIN ms = 1..Len(ms) /\ \A i \in 1..Len(ms) : ms[i] \in Message
  OBVIOUS
<1>2. ASSUME NEW i \in 1..Len(ms) PROVE F(i) \in Message /\ Same(F(i), ms[i])
  <2>1. PICK m \in Message : m = ms[i]
    BY <1>1
  <2>2. /\ [m EXCEPT !.saved = TRUE, !.row = m.seen] \in Message
        /\ Same([m EXCEPT !.saved = TRUE, !.row = m.seen], m)
    BY DEF Message, Same, Texts
  <2>3. Same(m, m)
    BY DEF Same
  <2> QED BY <2>1, <2>2, <2>3
<1>3. FlushSessionDb(ms) = [i \in 1..Len(ms) |-> F(i)]
  BY <1>1 DEF FlushSessionDb
<1> HIDE DEF F
<1> QED BY <1>1, <1>2, <1>3

\* The pending steers go into the last message; no call and no effect changes.
LEMMA SteerShape ==
    ASSUME NEW ms \in Seq(Message), ms # <<>>, pendingSteer \subseteq 1..MaxSteers
    PROVE  /\ ApplySteer(ms) \in Seq(Message)
           /\ Len(ApplySteer(ms)) = Len(ms)
           /\ \A i \in 1..(Len(ms) - 1) : ApplySteer(ms)[i] = ms[i]
           /\ ApplySteer(ms)[Len(ms)].call = ms[Len(ms)].call
           /\ ApplySteer(ms)[Len(ms)].effect = ms[Len(ms)].effect
           /\ Texts(ApplySteer(ms)[Len(ms)]) = Texts(ms[Len(ms)]) \cup pendingSteer
<1>1. Len(ms) \in Nat /\ Len(ms) \in 1..Len(ms) /\ \A i \in 1..(Len(ms) - 1) : i # Len(ms)
  OBVIOUS
<1>2. PICK m \in Message : m = ms[Len(ms)]
  BY <1>1
<1>3. PICK q : q = [m EXCEPT !.seen = m.seen \cup pendingSteer]
  OBVIOUS
<1>4. q \in Message /\ q.call = m.call /\ q.effect = m.effect
      /\ Texts(q) = Texts(m) \cup pendingSteer
  BY <1>3 DEF Message, Texts
<1>5. ApplySteer(ms) = [ms EXCEPT ![Len(ms)] = q]
  BY <1>2, <1>3 DEF ApplySteer
<1> QED BY <1>1, <1>2, <1>4, <1>5

\* A new message is a message.
LEMMA EntryTyped ==
    ASSUME NEW c \in Calls, NEW k \in Kinds, NEW e \in Disposition
    PROVE  Entry(c, k, e) \in Message
  BY DEF Entry, Message

\* An answer adds the message of one call.
LEMMA AnswerGrows ==
    ASSUME messages \in Seq(Message), pendingSteer \subseteq 1..MaxSteers,
           NEW c \in Calls, NEW k \in Kinds, NEW e \in Disposition, Answer(c, k, e)
    PROVE  Grown(<<c>>, e, pendingSteer)
<1> DEFINE ms == Append(messages, Entry(c, k, e))
           fs == FlushSessionDb(ms)
<1>1. PICK x \in Message : x = Entry(c, k, e)
  BY EntryTyped
<1>2. x.call = c /\ x.effect = e /\ Texts(x) = {}
  BY <1>1 DEF Entry, Texts
<1>3. /\ ms \in Seq(Message) /\ Len(ms) = Len(messages) + 1 /\ Len(messages) \in Nat
      /\ \A i \in 1..Len(messages) : ms[i] = messages[i]
      /\ ms[Len(messages) + 1] = x
  <2>1. ms = Append(messages, x)
    BY <1>1
  <2> HIDE DEF ms
  <2>2. PICK q \in Seq(Message) : q = messages
    OBVIOUS
  <2>3. PICK r : r = Append(q, x)
    OBVIOUS
  <2>4. /\ r \in Seq(Message) /\ Len(r) = Len(q) + 1
        /\ \A i \in 1..Len(q) : r[i] = q[i]
        /\ r[Len(q) + 1] = x
    BY <2>3, AppendShape
  <2>5. Len(q) \in Nat
    OBVIOUS
  <2> QED BY <2>1, <2>2, <2>3, <2>4, <2>5
<1> HIDE DEF ms
<1>4. /\ fs \in Seq(Message) /\ Len(fs) = Len(ms)
      /\ \A i \in 1..Len(ms) : Same(fs[i], ms[i])
  BY <1>3, FlushShape
<1>5. messages' = ApplySteer(fs)
  BY DEF Answer, fs, ms
<1> HIDE DEF fs
<1>6. fs # <<>>
  BY <1>3, <1>4
<1>7. /\ messages' \in Seq(Message) /\ Len(messages') = Len(fs)
      /\ \A i \in 1..(Len(fs) - 1) : messages'[i] = fs[i]
      /\ messages'[Len(fs)].call = fs[Len(fs)].call
      /\ messages'[Len(fs)].effect = fs[Len(fs)].effect
      /\ Texts(messages'[Len(fs)]) = Texts(fs[Len(fs)]) \cup pendingSteer
  BY <1>4, <1>5, <1>6, SteerShape
<1>8. Same(fs[Len(fs)], x) /\ Len(fs) = Len(messages) + 1
  BY <1>3, <1>4
<1>9. ASSUME NEW i \in 1..Len(messages) PROVE Same(messages'[i], messages[i])
  <2>1. i \in 1..Len(ms) /\ i \in 1..(Len(fs) - 1)
    BY <1>3, <1>8
  <2> QED BY <1>3, <1>4, <1>7, <2>1
<1>10. Len(<<c>>) = 1 /\ <<c>>[1] = c
  OBVIOUS
<1>11. /\ messages'[Len(messages) + 1].call = c
       /\ messages'[Len(messages) + 1].effect = e
       /\ Texts(messages'[Len(messages) + 1]) = pendingSteer
  BY <1>2, <1>7, <1>8 DEF Same
<1>12. Len(messages') = Len(messages) + 1
  BY <1>7, <1>8
<1> QED BY <1>7, <1>9, <1>10, <1>11, <1>12 DEF Grown

\* A skip adds one message for each call it skips, in order.
LEMMA SkipGrows ==
    ASSUME messages \in Seq(Message), NEW calls \in Seq(Calls),
           messages' = SkipAll(messages, calls)
    PROVE  Grown(calls, "none", {})
<1> DEFINE sk == Skipped(calls)
           ms == messages \o sk
<1>1. Len(calls) \in Nat /\ DOMAIN calls = 1..Len(calls) /\ Len(messages) \in Nat
      /\ \A k \in 1..Len(calls) : calls[k] \in Calls
  OBVIOUS
<1>2. /\ sk \in Seq(Message) /\ Len(sk) = Len(calls)
      /\ \A k \in 1..Len(calls) : /\ sk[k].call = calls[k]
                                  /\ sk[k].effect = "none" /\ Texts(sk[k]) = {}
  <2>1. ASSUME NEW c \in Calls
        PROVE  /\ Entry(c, "skipped", "none") \in Message
               /\ Entry(c, "skipped", "none").call = c
               /\ Entry(c, "skipped", "none").effect = "none"
               /\ Texts(Entry(c, "skipped", "none")) = {}
    <3>1. Entry(c, "skipped", "none") \in Message
      <4>1. "skipped" \in Kinds
        BY DEF Kinds
      <4>2. "none" \in Disposition
        BY DEF Disposition
      <4> QED BY <4>1, <4>2, EntryTyped
    <3>2. /\ Entry(c, "skipped", "none").call = c
          /\ Entry(c, "skipped", "none").effect = "none"
          /\ Texts(Entry(c, "skipped", "none")) = {}
      BY DEF Entry, Texts
    <3> QED BY <3>1, <3>2
  <2>2. sk = [k \in 1..Len(calls) |-> Entry(calls[k], "skipped", "none")]
    BY <1>1 DEF Skipped
  <2> HIDE DEF sk
  <2>3. \A k \in 1..Len(calls) : sk[k] = Entry(calls[k], "skipped", "none")
    BY <2>2
  <2>4. sk \in Seq(Message) /\ Len(sk) = Len(calls)
    BY <1>1, <2>1, <2>2
  <2> QED BY <1>1, <2>1, <2>3, <2>4
<1>3. messages' = FlushSessionDb(ms)
  BY DEF SkipAll
<1> HIDE DEF sk
<1>4. /\ ms \in Seq(Message) /\ Len(ms) = Len(messages) + Len(calls)
      /\ \A i \in 1..Len(messages) : ms[i] = messages[i]
      /\ \A k \in 1..Len(calls) : ms[Len(messages) + k] = sk[k]
  <2>1. PICK q \in Seq(Message) : q = messages
    OBVIOUS
  <2>2. PICK r \in Seq(Message) : r = sk
    BY <1>2
  <2>3. PICK w : w = q \o r
    OBVIOUS
  <2>4. /\ w \in Seq(Message) /\ Len(w) = Len(q) + Len(r)
        /\ \A i \in 1..Len(q) : w[i] = q[i]
        /\ \A k \in 1..Len(r) : w[Len(q) + k] = r[k]
    BY <2>3, ConcatShape
  <2> QED BY <1>2, <2>1, <2>2, <2>3, <2>4
<1> HIDE DEF ms
<1>5. /\ messages' \in Seq(Message) /\ Len(messages') = Len(ms)
      /\ \A i \in 1..Len(ms) : Same(messages'[i], ms[i])
  BY <1>3, <1>4, FlushShape
<1>6. ASSUME NEW i \in 1..Len(messages) PROVE Same(messages'[i], messages[i])
  <2>1. i \in 1..Len(ms)
    BY <1>1, <1>4
  <2> QED BY <1>4, <1>5, <2>1
<1>7. ASSUME NEW k \in 1..Len(calls)
      PROVE  /\ messages'[Len(messages) + k].call = calls[k]
             /\ messages'[Len(messages) + k].effect = "none"
             /\ Texts(messages'[Len(messages) + k]) = {}
  <2>1. Len(messages) + k \in 1..Len(ms)
    BY <1>1, <1>4
  <2>2. Same(messages'[Len(messages) + k], sk[k])
    BY <1>4, <1>5, <2>1
  <2> QED BY <1>2, <2>2 DEF Same
<1> QED BY <1>4, <1>5, <1>6, <1>7 DEF Grown

\* The calls of the messages are those noted before, and the ones answered.
LEMMA GrownNoted ==
    ASSUME messages \in Seq(Message), NEW calls \in Seq(Calls), NEW e, NEW T,
           Grown(calls, e, T)
    PROVE  NotedCalls' = NotedCalls \o calls /\ NotedCalls \in Seq(Calls)
<1>1. /\ Len(messages) \in Nat /\ DOMAIN messages = 1..Len(messages) /\ Len(calls) \in Nat
      /\ \A i \in 1..Len(messages) : messages[i].call \in Calls
  <2>1. \A m \in Message : m.call \in Calls
    BY DEF Message
  <2>2. \A i \in 1..Len(messages) : messages[i] \in Message
    OBVIOUS
  <2> QED BY <2>1, <2>2
<1>2. /\ NotedCalls = [i \in 1..Len(messages) |-> messages[i].call]
      /\ NotedCalls \in Seq(Calls) /\ Len(NotedCalls) = Len(messages)
  BY <1>1 DEF NotedCalls
<1>3. /\ messages' \in Seq(Message) /\ Len(messages') = Len(messages) + Len(calls)
      /\ \A i \in 1..Len(messages) : messages'[i].call = messages[i].call
      /\ \A k \in 1..Len(calls) : messages'[Len(messages) + k].call = calls[k]
  BY DEF Grown, Same
<1>4. /\ NotedCalls' = [i \in 1..(Len(messages) + Len(calls)) |-> messages'[i].call]
      /\ DOMAIN messages' = 1..(Len(messages) + Len(calls))
  BY <1>3 DEF NotedCalls
<1> DEFINE new == NotedCalls \o calls
<1>5. /\ new \in Seq(Calls) /\ Len(new) = Len(messages) + Len(calls)
      /\ \A i \in 1..Len(messages) : new[i] = NotedCalls[i]
      /\ \A k \in 1..Len(calls) : new[Len(messages) + k] = calls[k]
  BY <1>1, <1>2
<1> HIDE DEF new
<1>6. ASSUME NEW i \in 1..(Len(messages) + Len(calls)) PROVE messages'[i].call = new[i]
  <2>1. CASE i \in 1..Len(messages)
    BY <1>2, <1>3, <1>5, <2>1
  <2>2. CASE i \notin 1..Len(messages)
    <3>1. PICK k \in 1..Len(calls) : i = Len(messages) + k
      <4>1. i - Len(messages) \in 1..Len(calls) /\ i = Len(messages) + (i - Len(messages))
        BY <1>1, <2>2
      <4> QED BY <4>1
    <3> QED BY <1>3, <1>5, <3>1
  <2> QED BY <2>1, <2>2
<1>7. NotedCalls' = new
  <2>1. new = [i \in 1..(Len(messages) + Len(calls)) |-> new[i]]
    BY <1>5
  <2> QED BY <1>4, <1>6, <2>1
<1> QED BY <1>2, <1>7 DEF new

\* The turn's last pass puts the pending steers into the last message, and that is all.
LEMMA FinalShape ==
    ASSUME messages \in Seq(Message), messages # <<>>, pendingSteer \subseteq 1..MaxSteers,
           Finalize
    PROVE  /\ messages' \in Seq(Message) /\ Len(messages') = Len(messages)
           /\ \A i \in 1..Len(messages) : /\ messages'[i].call = messages[i].call
                                          /\ messages'[i].effect = messages[i].effect
           /\ \A i \in 1..(Len(messages) - 1) : Texts(messages'[i]) = Texts(messages[i])
           /\ Texts(messages'[Len(messages)]) = Texts(messages[Len(messages)]) \cup pendingSteer
<1> DEFINE After(ms) == /\ ms \in Seq(Message) /\ Len(ms) = Len(messages)
                        /\ \A i \in 1..Len(messages) : Same(ms[i], messages[i])
<1>1. /\ Len(messages) \in Nat /\ DOMAIN messages = 1..Len(messages)
      /\ Len(messages) \in 1..Len(messages)
      /\ \A i \in 1..(Len(messages) - 1) : i \in 1..Len(messages)
  OBVIOUS
<1>2. After(messages)
  BY DEF Same
<1>3. ASSUME NEW i PROVE After([messages EXCEPT ![i] = Cut(@)])
  <2>1. CASE i \in 1..Len(messages)
    <3>1. PICK m \in Message : m = messages[i]
      BY <2>1
    <3>2. PICK q : q = [m EXCEPT !.lost = m.lost \cup m.seen, !.seen = {}]
      OBVIOUS
    <3>3. q \in Message /\ q.call = m.call /\ q.effect = m.effect /\ Texts(q) = Texts(m)
      BY <3>2 DEF Message, Texts
    <3>4. [messages EXCEPT ![i] = Cut(@)] = [messages EXCEPT ![i] = q]
      BY <3>1, <3>2 DEF Cut
    <3>5. After([messages EXCEPT ![i] = q])
      BY <1>1, <2>1, <3>1, <3>3 DEF Same
    <3> HIDE DEF After
    <3> QED BY <3>4, <3>5
  <2>2. CASE i \notin 1..Len(messages)
    <3>1. [messages EXCEPT ![i] = Cut(@)] = messages
      BY <1>1, <2>2
    <3> HIDE DEF After
    <3> QED BY <1>2, <3>1
  <2> QED BY <2>1, <2>2
<1>4. PICK ms : After(ms) /\ messages' = ApplySteer(ms)
  <2>1. PICK cut \in 0..Len(TurnCalls) :
          messages' = ApplySteer(IF cut = Len(TurnCalls) THEN messages
                                 ELSE [messages EXCEPT ![Len(messages) - cut] = Cut(@)])
    BY DEF Finalize
  <2> HIDE DEF After
  <2>2. CASE cut = Len(TurnCalls)
    BY <1>2, <2>1, <2>2
  <2>3. CASE cut # Len(TurnCalls)
    BY <1>3, <2>1, <2>3
  <2> QED BY <2>2, <2>3
<1>5. ms # <<>>
  BY <1>1, <1>4
<1>6. /\ messages' \in Seq(Message)
      /\ Len(messages') = Len(ms)
      /\ \A i \in 1..(Len(ms) - 1) : messages'[i] = ms[i]
      /\ messages'[Len(ms)].call = ms[Len(ms)].call
      /\ messages'[Len(ms)].effect = ms[Len(ms)].effect
      /\ Texts(messages'[Len(ms)]) = Texts(ms[Len(ms)]) \cup pendingSteer
  BY <1>4, <1>5, SteerShape
<1>7. ASSUME NEW i \in 1..(Len(messages) - 1) PROVE Same(messages'[i], messages[i])
  BY <1>1, <1>4, <1>6, <1>7
<1>8. ASSUME NEW i \in 1..Len(messages)
      PROVE  messages'[i].call = messages[i].call /\ messages'[i].effect = messages[i].effect
  <2>1. CASE i = Len(messages)
    BY <1>1, <1>4, <1>6, <2>1 DEF Same
  <2>2. CASE i # Len(messages)
    <3>1. i \in 1..(Len(messages) - 1)
      <4>1. PICK n \in Nat : n = Len(messages)
        BY <1>1
      <4> QED BY <2>2, <4>1
    <3> QED BY <1>7, <3>1 DEF Same
  <2> QED BY <2>1, <2>2
<1>9. Texts(messages'[Len(messages)]) = Texts(messages[Len(messages)]) \cup pendingSteer
  BY <1>1, <1>4, <1>6 DEF Same
<1> QED BY <1>4, <1>6, <1>7, <1>8, <1>9 DEF Same

-------------------------------------------------------------------------------
\* The invariant.

Answering == {"wait", "fan", "collect", "next", "exec"}
Ended     == {"final", "clear", "clearbits", "idle"}

\* Where the messages stand: the calls noted and those still to answer are the
\* calls emitted, up to the end of the segment.
PlaceOK ==
  /\ pc = "exec" => left # <<>>
  /\ pc \in Answering => /\ ToSet(left) \subseteq Batch
                         /\ \A i, j \in DOMAIN left : left[i] = left[j] => i = j
                         /\ NotedCalls \o left = Upto(turn, seg)
  /\ pc = "segment" => NotedCalls = Upto(turn, seg - 1)
  /\ pc \in Ended => seg = Len(Turns[turn]) /\ NotedCalls = Upto(turn, seg)

\* Calls the turns have not come to: nothing of them has happened.
Later(c) ==
  \E i \in DOMAIN Turns : \E s \in DOMAIN Turns[i] :
    /\ c \in ToSet(Turns[i][s].calls)
    /\ i > turn \/ (i = turn /\ s > seg) \/ (i = turn /\ s = seg /\ pc = "segment")
Ahead(c) == Later(c) \/ (pc \in {"next", "exec"} /\ c \in ToSet(left))
Promised(c) == \E i \in DOMAIN messages : messages[i].effect = "none" /\ messages[i].call = c

CallOK(c) ==
  /\ Ahead(c) => /\ worker[c] = "new" /\ result[c] # "blocked" /\ ~Promised(c)
                 /\ c \in invoked => pc = "exec" /\ c = Head(left)
  /\ result[c] = "blocked" => worker[c] = "new" /\ c \notin invoked
  /\ Promised(c) => worker[c] \in {"new", "cancelled"} /\ c \notin invoked

\* A worker has its thread to itself, is tracked until it unregisters, and while
\* its tool runs the interrupt that stands has reached it or is on its way.
WorkerOK(c) ==
  /\ Live(c) => tid[c] \in Tids /\ \A d \in Calls : Live(d) /\ tid[d] = tid[c] => d = c
  /\ worker[c] \in {"registered", "running", "returned"} => tid[c] \in tracked
  /\ worker[c] = "running" /\ requested /\ pc \in {"wait", "fan", "collect"} =>
       tid[c] \in bits \/ ipc = "flagged" \/ (ipc = "copied" /\ tid[c] \in snap)

\* A steer waits, is dropped or is told in one message.
Held(i) == IF i \in DOMAIN messages THEN Texts(messages[i]) ELSE {}
SteersOK ==
  /\ \A k : k \in 1..steers <=> k \in pendingSteer \/ k \in dropped \/ \E i \in Nat : k \in Held(i)
  /\ \A k \in pendingSteer : k \notin dropped
  /\ \A i \in Nat : \A k \in Held(i) :
       /\ k \notin pendingSteer /\ k \notin dropped
       /\ \A j \in Nat : k \in Held(j) => i = j

BatchInv ==
  /\ TypeOK
  /\ PlaceOK
  /\ \A c \in Calls : CallOK(c)
  /\ \A c \in Calls : WorkerOK(c)
  /\ SteersOK

-------------------------------------------------------------------------------
\* Calls have one place in the plans.
LEMMA OnePlace ==
    ASSUME NEW i \in DOMAIN Turns, NEW s \in DOMAIN Turns[i],
           NEW j \in DOMAIN Turns, NEW u \in DOMAIN Turns[j],
           NEW c, c \in ToSet(Turns[i][s].calls), c \in ToSet(Turns[j][u].calls)
    PROVE  i = j /\ s = u
<1>1. PICK k \in DOMAIN Turns[i][s].calls : c = Turns[i][s].calls[k]
  BY DEF ToSet
<1>2. PICK l \in DOMAIN Turns[j][u].calls : c = Turns[j][u].calls[l]
  BY DEF ToSet
<1>3. Turns[i][s].calls[k] = Turns[j][u].calls[l]
  BY <1>1, <1>2
<1> QED BY <1>3, TurnsAssumption

\* The current segment, its calls and its place in the plan.
LEMMA SegmentTypes ==
    ASSUME TypeOK
    PROVE  /\ turn \in 1..Len(Turns) /\ seg \in 1..Len(Turns[turn])
           /\ Len(Turns) \in Nat /\ Len(Turns[turn]) \in Nat
           /\ Segment.calls \in Seq(Calls) /\ Segment.calls # <<>>
           /\ Batch \subseteq Calls /\ Batch = ToSet(Segment.calls)
           /\ Upto(turn, seg) = Upto(turn, seg - 1) \o Segment.calls
           /\ Upto(turn, seg - 1) \in Seq(Calls) /\ Upto(turn, seg) \in Seq(Calls)
           /\ \A k, l \in DOMAIN Segment.calls : Segment.calls[k] = Segment.calls[l] => k = l
<1>1. turn \in DOMAIN Turns /\ seg \in DOMAIN Turns[turn]
  BY DEF TypeOK
<1>2. /\ turn \in 1..Len(Turns) /\ seg \in 1..Len(Turns[turn])
      /\ Len(Turns) \in Nat /\ Len(Turns[turn]) \in Nat
      /\ Segment.calls \in Seq(Calls) /\ Segment.calls # <<>>
  BY <1>1, PlanTypes DEF Segment
<1>3. Batch \subseteq Calls /\ Batch = ToSet(Segment.calls)
  BY <1>2 DEF Batch, ToSet
<1>4. seg \in 0..Len(Turns[turn]) /\ seg - 1 \in 0..Len(Turns[turn])
  BY <1>2
<1>5. Upto(turn, seg) = Upto(turn, seg - 1) \o Segment.calls
  BY <1>1, UptoNext DEF Segment
<1>6. Upto(turn, seg - 1) \in Seq(Calls) /\ Upto(turn, seg) \in Seq(Calls)
  BY <1>1, <1>4, UptoTyped
<1>7. \A k, l \in DOMAIN Segment.calls : Segment.calls[k] = Segment.calls[l] => k = l
  BY <1>1, TurnsAssumption DEF Segment
<1> QED BY <1>2, <1>3, <1>5, <1>6, <1>7

\* What is left of a segment when its first call is taken.
LEMMA TailShape ==
    ASSUME NEW q \in Seq(Calls), q # <<>>
    PROVE  /\ Head(q) \in Calls /\ Tail(q) \in Seq(Calls) /\ <<Head(q)>> \o Tail(q) = q
           /\ Head(q) \in ToSet(q) /\ ToSet(Tail(q)) \subseteq ToSet(q)
           /\ (\A i, j \in DOMAIN q : q[i] = q[j] => i = j) =>
                /\ Head(q) \notin ToSet(Tail(q))
                /\ \A i, j \in DOMAIN Tail(q) : Tail(q)[i] = Tail(q)[j] => i = j
<1>1. PICK t : t = Tail(q)
  OBVIOUS
<1>2. /\ t \in Seq(Calls) /\ Len(q) \in Nat \ {0} /\ Len(t) = Len(q) - 1
      /\ DOMAIN t = 1..Len(t) /\ DOMAIN q = 1..Len(q) /\ Head(q) = q[1] /\ Head(q) \in Calls
      /\ \A i \in 1..Len(t) : t[i] = q[i + 1]
  BY <1>1
<1>3. \A i \in 1..Len(t) : i + 1 \in 1..Len(q) /\ i + 1 # 1
  BY <1>2
<1>4. 1 \in 1..Len(q)
  BY <1>2
<1>5. Head(q) \in ToSet(q)
  BY <1>2, <1>4 DEF ToSet
<1>6. ASSUME NEW c \in ToSet(t) PROVE c \in ToSet(q)
  <2>1. PICK i \in 1..Len(t) : c = t[i]
    BY <1>2 DEF ToSet
  <2>2. PICK j \in 1..Len(q) : c = q[j]
    BY <1>2, <1>3, <2>1
  <2> QED BY <1>2, <2>2 DEF ToSet
<1>7. ASSUME \A i, j \in DOMAIN q : q[i] = q[j] => i = j
      PROVE  /\ Head(q) \notin ToSet(t)
             /\ \A i, j \in DOMAIN t : t[i] = t[j] => i = j
  <2>1. ASSUME Head(q) \in ToSet(t) PROVE FALSE
    <3>1. PICK i \in 1..Len(t) : q[1] = t[i]
      BY <1>2, <2>1 DEF ToSet
    <3>2. q[1] = q[i + 1] /\ i + 1 \in 1..Len(q)
      BY <1>2, <1>3, <3>1
    <3> QED BY <1>2, <1>3, <1>4, <1>7, <3>2
  <2>2. ASSUME NEW i \in DOMAIN t, NEW j \in DOMAIN t, t[i] = t[j] PROVE i = j
    <3>1. i + 1 \in DOMAIN q /\ j + 1 \in DOMAIN q /\ q[i + 1] = q[j + 1]
      BY <1>2, <1>3, <2>2
    <3>2. i + 1 = j + 1
      BY <1>7, <3>1
    <3> QED BY <1>2, <3>2
  <2> QED BY <2>1, <2>2
<1>8. <<Head(q)>> \o Tail(q) = q
  OBVIOUS
<1> QED BY <1>1, <1>2, <1>5, <1>6, <1>7, <1>8

-------------------------------------------------------------------------------
\* What Main does to its place and to the messages.

\* What Main takes from its list is the first of what is left.
LEMMA TakeShape ==
    ASSUME BatchInv, left # <<>>, NEW k \in Kinds, NEW e \in Disposition,
           Answer(Head(left), k, e)
    PROVE  /\ Grown(<<Head(left)>>, e, pendingSteer)
           /\ Head(left) \in Calls /\ Tail(left) \in Seq(Calls)
<1>1. messages \in Seq(Message) /\ pendingSteer \subseteq 1..MaxSteers /\ left \in Seq(Calls)
  BY DEF BatchInv, TypeOK
<1>2. Head(left) \in Calls /\ Tail(left) \in Seq(Calls)
  BY <1>1, TailShape
<1> QED BY <1>1, <1>2, AnswerGrows

\* What Main writes of a call that its worker has ended has a kind and an effect.
LEMMA CollectedTypes ==
    ASSUME TypeOK, NEW c \in Calls
    PROVE  CollectedKind(c) \in Kinds /\ CollectedEffect(c) \in Disposition
<1>1. result[c] \in Results
  BY DEF TypeOK
<1>2. CollectedKind(c) \in Kinds
  BY <1>1 DEF CollectedKind, Kinds, Results
<1>3. CollectedEffect(c) \in Disposition
  BY <1>1 DEF CollectedEffect, Disposition, Results
<1> QED BY <1>2, <1>3

\* The calls and effects of the messages that Main adds in a step.

\* Collect answers the first call of what is left of the batch.
LEMMA CollectShape ==
    ASSUME BatchInv, Collect
    PROVE  /\ left # <<>> /\ left' = Tail(left) /\ pc = "collect" /\ left \in Seq(Calls)
           /\ Head(left) \in Calls /\ Tail(left) \in Seq(Calls)
           /\ Grown(<<Head(left)>>, CollectedEffect(Head(left)), pendingSteer)
<1>1. left # <<>> /\ left' = Tail(left) /\ pc = "collect" /\ left \in Seq(Calls) /\ TypeOK
  BY DEF Collect, BatchInv, TypeOK
<1>2. Head(left) \in Calls
  BY <1>1, TailShape
<1>3. CollectedKind(Head(left)) \in Kinds /\ CollectedEffect(Head(left)) \in Disposition
  BY <1>1, <1>2, CollectedTypes
<1>4. Answer(Head(left), CollectedKind(Head(left)), CollectedEffect(Head(left)))
  BY DEF Collect
<1> QED BY <1>1, <1>3, <1>4, TakeShape

\* A rejected call of the sequential path is answered.
LEMMA SeqRejectShape ==
    ASSUME BatchInv, SeqReject
    PROVE  /\ left # <<>> /\ left' = Tail(left) /\ pc = "next" /\ left \in Seq(Calls)
           /\ Head(left) \in Calls /\ Tail(left) \in Seq(Calls)
           /\ Grown(<<Head(left)>>, "unset", pendingSteer)
<1>1. /\ left # <<>> /\ left' = Tail(left) /\ pc = "next" /\ left \in Seq(Calls)
      /\ Answer(Head(left), "blocked", "unset")
  BY DEF SeqReject, BatchInv, TypeOK
<1>2. "blocked" \in Kinds /\ "unset" \in Disposition
  BY DEF Kinds, Results, Disposition
<1> QED BY <1>1, <1>2, TakeShape

\* A call that returned on the sequential path is answered.
LEMMA SeqReturnShape ==
    ASSUME BatchInv, SeqReturn
    PROVE  /\ left # <<>> /\ left' = Tail(left) /\ pc = "exec" /\ left \in Seq(Calls)
           /\ Head(left) \in Calls /\ Tail(left) \in Seq(Calls)
           /\ Grown(<<Head(left)>>, "unset", pendingSteer)
<1>1. /\ left # <<>> /\ left' = Tail(left) /\ pc = "exec" /\ left \in Seq(Calls)
      /\ Answer(Head(left), "answered", "unset")
  BY DEF SeqReturn, BatchInv, TypeOK, PlaceOK
<1>2. "answered" \in Kinds /\ "unset" \in Disposition
  BY DEF Kinds, Results, Disposition
<1> QED BY <1>1, <1>2, TakeShape

\* What the calls of a parallel segment become that the executor rejects, that
\* the pool refuses, and that it takes.
Submitted(rejected, refused) ==
  /\ result' = [c \in Calls |-> IF c \in rejected THEN "blocked"
                                ELSE IF c \in refused THEN "not_started"
                                ELSE result[c]]
  /\ worker' = [c \in Calls |-> IF c \in Batch \ (rejected \cup refused)
                                THEN "queued" ELSE worker[c]]

\* The calls that Submit rejects, and those the shut-down pool refuses.
LEMMA SubmitShape ==
    ASSUME Submit
    PROVE  \E rejected \in SUBSET Batch : \E refused : Submitted(rejected, refused)
<1>1. PICK rejected \in SUBSET (Batch \cap Rejectable) :
        \E n \in 0..Len(Runnable(rejected)) :
          Submitted(rejected, ToSet(SubSeq(Runnable(rejected), n + 1, Len(Runnable(rejected)))))
  BY DEF Submit, Submitted
<1> QED BY <1>1

\* An interrupt before the segment skips all of it.
LEMMA PreflightShape ==
    ASSUME BatchInv, PreflightSkip
    PROVE  Grown(Segment.calls, "none", {})
<1>1. messages \in Seq(Message) /\ Segment.calls \in Seq(Calls)
  BY SegmentTypes DEF BatchInv, TypeOK
<1> QED BY <1>1, SkipGrows DEF PreflightSkip

\* An interrupt on the sequential path skips what is left of the segment.
LEMMA SeqSkipShape ==
    ASSUME BatchInv, SeqSkip
    PROVE  Grown(left, "none", {}) /\ left \in Seq(Calls)
<1>1. messages \in Seq(Message) /\ left \in Seq(Calls)
  BY DEF BatchInv, TypeOK
<1> QED BY <1>1, SkipGrows DEF SeqSkip

\* When a segment has ended its calls are noted, and there is at least one.
LEMMA FinalizeShape ==
    ASSUME BatchInv, Finalize
    PROVE  /\ messages \in Seq(Message) /\ messages # <<>> /\ pendingSteer \subseteq 1..MaxSteers
           /\ messages' \in Seq(Message) /\ Len(messages') = Len(messages)
           /\ \A i \in 1..Len(messages) : /\ messages'[i].call = messages[i].call
                                          /\ messages'[i].effect = messages[i].effect
           /\ \A i \in 1..(Len(messages) - 1) : Texts(messages'[i]) = Texts(messages[i])
           /\ Texts(messages'[Len(messages)]) = Texts(messages[Len(messages)]) \cup pendingSteer
<1>1. messages \in Seq(Message) /\ pendingSteer \subseteq 1..MaxSteers /\ TypeOK
  BY DEF BatchInv, TypeOK
<1>2. NotedCalls = Upto(turn, seg - 1) \o Segment.calls
  BY <1>1, SegmentTypes DEF Finalize, BatchInv, PlaceOK, Ended
<1>3. messages # <<>>
  <2>1. ASSUME messages = <<>> PROVE FALSE
    <3>1. NotedCalls = <<>>
      BY <2>1 DEF NotedCalls
    <3>2. PICK q \in Seq(Calls) : q = Upto(turn, seg - 1)
      BY <1>1, SegmentTypes
    <3>3. PICK r \in Seq(Calls) : r = Segment.calls /\ r # <<>>
      BY <1>1, SegmentTypes
    <3>4. q \o r = <<>>
      BY <1>2, <3>1, <3>2, <3>3
    <3> QED BY <3>3, <3>4, ConcatEqualIffEmpty
  <2> QED BY <2>1
<1> QED BY <1>1, <1>3, FinalShape

-------------------------------------------------------------------------------
\* Types.

\* An answer keeps the types of the steers.
LEMMA SteerTypes ==
    ASSUME TypeOK, NEW c, NEW k, NEW e, Answer(c, k, e)
    PROVE  /\ pendingSteer' \subseteq 1..MaxSteers /\ dropped' \subseteq 1..MaxSteers
           /\ steers' \in 0..MaxSteers
  BY DEF Answer, TypeOK

\* The next segment exists when this one is not the last.
LEMMA NextSegmentTypes ==
    ASSUME TypeOK, NextSegment, turn' = turn
    PROVE  pc' \in {"segment", "final"} /\ turn' \in DOMAIN Turns /\ seg' \in DOMAIN Turns[turn']
<1>1. DOMAIN Turns[turn] = 1..Len(Turns[turn]) /\ Len(Turns[turn]) \in Nat
  BY PlanTypes DEF TypeOK
<1> QED BY <1>1 DEF TypeOK, NextSegment

MainTypes ==
  /\ pc \in {"idle", "segment", "wait", "fan", "collect", "next", "exec",
             "final", "clear", "clearbits", "raised"}
  /\ turn \in DOMAIN Turns /\ seg \in DOMAIN Turns[turn]
  /\ left \in Seq(Calls)
  /\ timedOut \subseteq Calls /\ mfan \subseteq Tids
PoolTypes ==
  /\ worker \in [Calls -> WorkerStates]
  /\ tid \in [Calls -> Tids \cup {NoTid}]
  /\ result \in [Calls -> Results]
  /\ invoked \subseteq Calls /\ tracked \subseteq Tids
InterTypes ==
  /\ snap \subseteq Tids /\ bits \subseteq Tids \cup {Main} /\ requested \in BOOLEAN
  /\ ipc \in {"idle", "flagged", "copied"} /\ interrupts \in 0..MaxInterrupts
TextTypes ==
  /\ pendingSteer \subseteq 1..MaxSteers /\ dropped \subseteq 1..MaxSteers
  /\ messages \in Seq(Message) /\ steers \in 0..MaxSteers

\* The type invariant, split by whose state it is about.
LEMMA TypeParts == TypeOK <=> MainTypes /\ PoolTypes /\ InterTypes /\ TextTypes
  BY DEF TypeOK, MainTypes, PoolTypes, InterTypes, TextTypes

\* Every step keeps the types.
LEMMA TypeStep == ASSUME BatchInv, Next PROVE TypeOK'
<1>1. TypeOK /\ MainTypes /\ PoolTypes /\ InterTypes /\ TextTypes
  BY TypeParts DEF BatchInv
<1>2. \A c \in Calls : Live(c) => tid[c] \in Tids
  BY DEF BatchInv, WorkerOK
<1>3. MainTypes'
  <2>1. CASE UNCHANGED mainVars
    BY <1>1, <2>1 DEF MainTypes, mainVars
  <2>2. CASE PreflightSkip
    <3>1. CASE SingleSegment
      BY <1>1, <2>2, <3>1 DEF PreflightSkip, MainTypes
    <3>2. CASE ~SingleSegment
      <4>1. turn' = turn /\ NextSegment /\ left' = left /\ timedOut' = timedOut /\ mfan' = mfan
        BY <2>2, <3>2 DEF PreflightSkip
      <4> QED BY <1>1, <4>1, NextSegmentTypes DEF MainTypes
    <3> QED BY <3>1, <3>2
  <2>3. CASE Submit
    BY <1>1, <2>3, SegmentTypes DEF Submit, MainTypes
  <2>4. CASE WaitDone \/ WaitInterrupt \/ DeadlineSignal
    BY <1>1, <2>4 DEF WaitDone, WaitInterrupt, DeadlineSignal, MainTypes
  <2>5. CASE WaitDeadline
    <3>1. Waiting \subseteq Calls /\ tracked \subseteq Tids
      BY <1>1, SegmentTypes DEF Waiting, PoolTypes
    <3> QED BY <1>1, <2>5, <3>1 DEF WaitDeadline, MainTypes
  <2>6. CASE Collect
    <3>1. left' \in Seq(Calls)
      BY <2>6, CollectShape
    <3> QED BY <1>1, <2>6, <3>1 DEF Collect, MainTypes
  <2>7. CASE Collected \/ SeqDone
    <3>1. turn' = turn /\ NextSegment /\ left' = left /\ timedOut' = timedOut /\ mfan' = mfan
      BY <2>7 DEF Collected, SeqDone
    <3> QED BY <1>1, <3>1, NextSegmentTypes DEF MainTypes
  <2>8. CASE SeqBegin
    BY <1>1, <2>8, SegmentTypes DEF SeqBegin, MainTypes
  <2>9. CASE SeqSkip
    BY <1>1, <2>9 DEF SeqSkip, MainTypes
  <2>10. CASE SeqReject
    <3>1. left' \in Seq(Calls)
      BY <2>10, SeqRejectShape
    <3> QED BY <1>1, <2>10, <3>1 DEF SeqReject, MainTypes
  <2>11. CASE SeqReturn
    <3>1. left' \in Seq(Calls)
      BY <2>11, SeqReturnShape
    <3> QED BY <1>1, <2>11, <3>1 DEF SeqReturn, MainTypes
  <2>12. CASE SeqStart \/ SeqRaise \/ SeqKeyboard
    BY <1>1, <2>12 DEF SeqStart, SeqRaise, SeqKeyboard, MainTypes
  <2>13. CASE Finalize \/ ClearFlag \/ ClearBits \/ TurnEnd
    BY <1>1, <2>13 DEF Finalize, ClearFlag, ClearBits, TurnEnd, MainTypes
  <2>14. CASE NextTurn
    <3>1. turn + 1 \in DOMAIN Turns
      BY <1>1, <2>14, PlanTypes DEF NextTurn, MainTypes
    <3>2. 1 \in DOMAIN Turns[turn + 1]
      BY <3>1, PlanTypes
    <3> QED BY <1>1, <2>14, <3>1, <3>2 DEF NextTurn, MainTypes
  <2>15. CASE \/ OtherThread \/ WorkerStep \/ (Over /\ UNCHANGED vars)
              \/ \E c \in Calls : WorkerReturn(c) \/ WorkerKeyboard(c)
    <3>1. UNCHANGED mainVars
      BY <2>15
      DEF OtherThread, WorkerStep, InterruptFlag, InterruptSnapshot, InterruptSignal, Steer, vars,
          WorkerPick, WorkerRegister, WorkerStart, WorkerUnregister, WorkerClear, WorkerReturn, WorkerKeyboard
    <3> QED BY <2>1, <3>1
  <2> QED
    BY <2>2, <2>3, <2>4, <2>5, <2>6, <2>7, <2>8, <2>9, <2>10, <2>11, <2>12, <2>13, <2>14, <2>15
    DEF Next, MainStep, ToolStep
<1>4. PoolTypes'
  <2>1. CASE UNCHANGED poolVars
    BY <1>1, <2>1 DEF PoolTypes, poolVars
  <2>2. CASE Submit
    <3>1. PICK rejected \in SUBSET Batch : \E refused : Submitted(rejected, refused)
      BY <2>2, SubmitShape
    <3> PICK refused : Submitted(rejected, refused)
      BY <3>1
    <3>2. result' \in [Calls -> Results]
      BY <1>1 DEF Submitted, PoolTypes, Results
    <3>3. worker' \in [Calls -> WorkerStates]
      BY <1>1 DEF Submitted, PoolTypes, WorkerStates
    <3> QED BY <1>1, <2>2, <3>2, <3>3 DEF Submit, PoolTypes
  <2>3. CASE WaitDeadline \/ WaitInterrupt
    <3>1. worker' \in [Calls -> WorkerStates]
      BY <1>1, <2>3 DEF WaitDeadline, WaitInterrupt, CancelQueued, PoolTypes, WorkerStates
    <3> QED BY <1>1, <2>3, <3>1 DEF WaitDeadline, WaitInterrupt, PoolTypes
  <2>4. ASSUME NEW c \in Calls,
               \/ \E t \in Tids : WorkerPick(c, t)
               \/ WorkerRegister(c) \/ WorkerStart(c) \/ WorkerUnregister(c) \/ WorkerClear(c)
               \/ WorkerReturn(c) \/ WorkerKeyboard(c)
        PROVE  PoolTypes'
    <3>1. WorkerRegister(c) => tid[c] \in Tids
      BY <1>2 DEF WorkerRegister, Live
    <3> QED
      BY <1>1, <2>4, <3>1
      DEF WorkerPick, WorkerRegister, WorkerStart, WorkerUnregister, WorkerClear, WorkerReturn, WorkerKeyboard,
        PoolTypes, WorkerStates, Results
  <2>5. CASE SeqStart
    <3>1. Head(left) \in Calls
      BY <1>1, <2>5, TailShape DEF SeqStart, MainTypes
    <3> QED BY <1>1, <2>5, <3>1 DEF SeqStart, PoolTypes
  <2>6. CASE SeqReturn
    <3>1. Head(left) \in Calls
      BY <2>6, SeqReturnShape
    <3> QED BY <1>1, <2>6, <3>1 DEF SeqReturn, PoolTypes, Results
  <2>7. CASE \/ PreflightSkip \/ WaitDone \/ DeadlineSignal \/ Collect \/ Collected
             \/ SeqBegin \/ SeqSkip \/ SeqReject \/ SeqDone \/ SeqRaise \/ SeqKeyboard
             \/ Finalize \/ ClearFlag \/ ClearBits \/ TurnEnd \/ NextTurn
             \/ OtherThread \/ (Over /\ UNCHANGED vars)
    <3>1. UNCHANGED poolVars
      BY <2>7
      DEF PreflightSkip, WaitDone, DeadlineSignal, Collect, Collected, SeqBegin, SeqSkip, SeqReject,
          SeqDone, SeqRaise, SeqKeyboard, Finalize, ClearFlag, ClearBits, TurnEnd, NextTurn,
          OtherThread, InterruptFlag, InterruptSnapshot, InterruptSignal, Steer, vars
    <3> QED BY <2>1, <3>1
  <2> QED BY <2>2, <2>3, <2>4, <2>5, <2>6, <2>7 DEF Next, MainStep, ToolStep, WorkerStep
<1>5. InterTypes'
  <2>1. CASE UNCHANGED <<interVars, bits, requested>>
    BY <1>1, <2>1 DEF InterTypes, interVars
  <2>2. CASE DeadlineSignal
    BY <1>1, <2>2 DEF DeadlineSignal, InterTypes, interVars, MainTypes
  <2>3. CASE ClearFlag \/ ClearBits
    BY <1>1, <2>3 DEF ClearFlag, ClearBits, InterTypes, interVars
  <2>4. CASE InterruptFlag \/ SeqKeyboard \/ \E c \in Calls : WorkerKeyboard(c)
    <3>1. interrupts' \in 0..MaxInterrupts
      BY <1>1, <2>4, BoundsAssumption
      DEF InterruptFlag, SeqKeyboard, WorkerKeyboard, InterTypes
    <3>2. bits' \subseteq Tids \cup {Main} /\ requested' \in BOOLEAN /\ snap' = snap
      BY <1>1, <2>4 DEF InterruptFlag, SeqKeyboard, WorkerKeyboard, InterTypes, PoolTypes
    <3>3. ipc' \in {"idle", "flagged", "copied"}
      BY <1>1, <2>4 DEF InterruptFlag, SeqKeyboard, WorkerKeyboard, InterTypes
    <3> QED BY <1>1, <3>1, <3>2, <3>3 DEF InterTypes
  <2>5. CASE InterruptSnapshot \/ InterruptSignal
    BY <1>1, <2>5 DEF InterruptSnapshot, InterruptSignal, InterTypes, PoolTypes
  <2>6. ASSUME NEW c \in Calls, WorkerStart(c) \/ WorkerClear(c) PROVE InterTypes'
    <3>1. Live(c) => tid[c] \in Tids
      BY <1>2
    <3>2. bits' \subseteq Tids \cup {Main}
      BY <1>1, <2>6, <3>1 DEF WorkerStart, WorkerClear, Live, InterTypes
    <3> QED BY <1>1, <2>6, <3>2 DEF WorkerStart, WorkerClear, InterTypes, interVars
  <2>7. CASE \/ PreflightSkip \/ Submit \/ WaitDone \/ WaitDeadline \/ WaitInterrupt
             \/ Collect \/ Collected \/ SeqBegin \/ SeqSkip \/ SeqReject \/ SeqStart \/ SeqReturn
             \/ SeqDone \/ SeqRaise \/ Finalize \/ TurnEnd \/ NextTurn \/ Steer
             \/ (Over /\ UNCHANGED vars)
    <3>1. UNCHANGED <<interVars, bits, requested>>
      BY <2>7
      DEF PreflightSkip, Submit, WaitDone, WaitDeadline, WaitInterrupt, Collect, Collected,
          SeqBegin, SeqSkip, SeqReject, SeqStart, SeqReturn, SeqDone, SeqRaise, Finalize, TurnEnd,
          NextTurn, Steer, vars
    <3> QED BY <2>1, <3>1
  <2>8. ASSUME NEW c \in Calls,
               \/ \E t \in Tids : WorkerPick(c, t)
               \/ WorkerRegister(c) \/ WorkerUnregister(c) \/ WorkerReturn(c)
        PROVE  InterTypes'
    <3>1. UNCHANGED <<interVars, bits, requested>>
      BY <2>8 DEF WorkerPick, WorkerRegister, WorkerUnregister, WorkerReturn
    <3> QED BY <2>1, <3>1
  <2> QED
    BY <2>2, <2>3, <2>4, <2>5, <2>6, <2>7, <2>8
    DEF Next, MainStep, ToolStep, WorkerStep, OtherThread
<1>6. TextTypes'
  <2>1. CASE UNCHANGED textVars
    BY <1>1, <2>1 DEF TextTypes, textVars
  <2>2. CASE PreflightSkip
    <3>1. messages' \in Seq(Message)
      BY <2>2, PreflightShape DEF Grown
    <3> QED BY <1>1, <2>2, <3>1 DEF PreflightSkip, TextTypes
  <2>3. CASE SeqSkip
    <3>1. messages' \in Seq(Message)
      BY <2>3, SeqSkipShape DEF Grown
    <3> QED BY <1>1, <2>3, <3>1 DEF SeqSkip, TextTypes
  <2>4. CASE Collect \/ SeqReject \/ SeqReturn
    <3>1. messages' \in Seq(Message)
      BY <2>4, CollectShape, SeqRejectShape, SeqReturnShape DEF Grown
    <3>2. \E c, k, e : Answer(c, k, e)
      BY <2>4 DEF Collect, SeqReject, SeqReturn
    <3> QED BY <1>1, <3>1, <3>2, SteerTypes DEF TextTypes
  <2>5. CASE Finalize
    <3>1. messages' \in Seq(Message)
      BY <2>5, FinalizeShape
    <3> QED BY <1>1, <2>5, <3>1 DEF Finalize, TextTypes
  <2>6. CASE ClearBits
    BY <1>1, <2>6 DEF ClearBits, TextTypes
  <2>7. CASE Steer
    BY <1>1, <2>7, BoundsAssumption DEF Steer, TextTypes
  <2>8. CASE \/ Submit \/ WaitDone \/ WaitDeadline \/ DeadlineSignal \/ WaitInterrupt
             \/ Collected \/ SeqBegin \/ SeqStart \/ SeqDone \/ SeqRaise \/ SeqKeyboard
             \/ ClearFlag \/ TurnEnd \/ NextTurn
             \/ InterruptFlag \/ InterruptSnapshot \/ InterruptSignal
             \/ (Over /\ UNCHANGED vars)
    <3>1. UNCHANGED textVars
      BY <2>8
      DEF Submit, WaitDone, WaitDeadline, DeadlineSignal, WaitInterrupt, Collected, SeqBegin,
          SeqStart, SeqDone, SeqRaise, SeqKeyboard, ClearFlag, TurnEnd, NextTurn, InterruptFlag,
          InterruptSnapshot, InterruptSignal, vars
    <3> QED BY <2>1, <3>1
  <2>9. ASSUME NEW c \in Calls,
               \/ \E t \in Tids : WorkerPick(c, t)
               \/ WorkerRegister(c) \/ WorkerStart(c) \/ WorkerUnregister(c) \/ WorkerClear(c)
               \/ WorkerReturn(c) \/ WorkerKeyboard(c)
        PROVE  TextTypes'
    <3>1. UNCHANGED textVars
      BY <2>9
      DEF WorkerPick, WorkerRegister, WorkerStart, WorkerUnregister, WorkerClear, WorkerReturn, WorkerKeyboard
    <3> QED BY <2>1, <3>1
  <2> QED
    BY <2>2, <2>3, <2>4, <2>5, <2>6, <2>7, <2>8, <2>9
    DEF Next, MainStep, ToolStep, WorkerStep, OtherThread
<1> QED BY <1>3, <1>4, <1>5, <1>6 DEF TypeOK, MainTypes, PoolTypes, InterTypes, TextTypes

-------------------------------------------------------------------------------
\* The place of Main.

\* A step that leaves the place in the plan and the messages alone keeps PlaceOK.
LEMMA PlaceKept ==
    ASSUME PlaceOK, UNCHANGED <<turn, seg, left, messages>>,
           pc' = pc \/ (pc \in Answering /\ pc' \in Answering \ {"exec"})
           \/ pc' = "raised" \/ (pc \in Ended /\ pc' \in Ended)
    PROVE  PlaceOK'
<1>1. NotedCalls' = NotedCalls /\ Upto(turn, seg)' = Upto(turn, seg) /\ Batch' = Batch
      /\ Upto(turn, seg - 1)' = Upto(turn, seg - 1)
  BY DEF NotedCalls, Batch, Segment
<1> QED BY <1>1 DEF PlaceOK, Answering, Ended

\* The calls of a segment noted, the next segment is next, or the end of the turn.
LEMMA PlaceNext ==
    ASSUME TypeOK, NextSegment, turn' = turn, NotedCalls' = Upto(turn, seg)
    PROVE  PlaceOK'
<1>1. seg \in 1..Len(Turns[turn]) /\ Len(Turns[turn]) \in Nat
  BY SegmentTypes
<1>2. CASE seg < Len(Turns[turn])
  <2>1. pc' = "segment" /\ seg' = seg + 1 /\ seg' - 1 = seg
    BY <1>1, <1>2 DEF NextSegment
  <2> QED BY <2>1 DEF PlaceOK, Answering, Ended
<1>3. CASE ~(seg < Len(Turns[turn]))
  <2>1. pc' = "final" /\ seg' = seg /\ seg = Len(Turns[turn])
    BY <1>1, <1>3 DEF NextSegment
  <2> QED BY <2>1 DEF PlaceOK, Answering, Ended
<1> QED BY <1>2, <1>3

\* The calls of the segment are to be answered.
LEMMA PlaceBegin ==
    ASSUME BatchInv, pc = "segment", left' = Segment.calls, pc' \in {"wait", "next"},
           UNCHANGED <<turn, seg, messages>>
    PROVE  PlaceOK'
<1>1. TypeOK /\ NotedCalls = Upto(turn, seg - 1)
  BY DEF BatchInv, PlaceOK
<1>2. Upto(turn, seg) = NotedCalls \o left' /\ Batch = ToSet(left')
      /\ \A i, j \in DOMAIN left' : left'[i] = left'[j] => i = j
  BY <1>1, SegmentTypes
<1>3. NotedCalls' = NotedCalls /\ Upto(turn, seg)' = Upto(turn, seg) /\ Batch' = Batch
  BY DEF NotedCalls, Batch, Segment
<1> QED BY <1>2, <1>3 DEF PlaceOK, Answering, Ended

\* So does one that answers the call it takes from the list.
LEMMA PlaceTaken ==
    ASSUME BatchInv, pc \in Answering, left # <<>>, left' = Tail(left),
           pc' \in Answering \ {"exec"}, UNCHANGED <<turn, seg>>,
           NEW e, Grown(<<Head(left)>>, e, pendingSteer)
    PROVE  PlaceOK'
<1>1. /\ messages \in Seq(Message) /\ left \in Seq(Calls)
      /\ ToSet(left) \subseteq Batch /\ NotedCalls \o left = Upto(turn, seg)
      /\ \A i, j \in DOMAIN left : left[i] = left[j] => i = j
  BY DEF BatchInv, TypeOK, PlaceOK
<1>2. /\ Head(left) \in Calls /\ Tail(left) \in Seq(Calls) /\ <<Head(left)>> \o Tail(left) = left
      /\ ToSet(Tail(left)) \subseteq ToSet(left)
      /\ \A i, j \in DOMAIN Tail(left) : Tail(left)[i] = Tail(left)[j] => i = j
  BY <1>1, TailShape
<1>3. <<Head(left)>> \in Seq(Calls)
  BY <1>2
<1>4. NotedCalls' = NotedCalls \o <<Head(left)>> /\ NotedCalls \in Seq(Calls)
  BY <1>1, <1>3, GrownNoted
<1>5. NotedCalls' \o left' = Upto(turn, seg)
  <2>1. PICK a \in Seq(Calls) : a = NotedCalls
    BY <1>4
  <2>2. PICK b \in Seq(Calls) : b = <<Head(left)>>
    BY <1>3
  <2>3. PICK c \in Seq(Calls) : c = Tail(left)
    BY <1>2
  <2>4. (a \o b) \o c = a \o (b \o c)
    BY ConcatAssociative
  <2> QED BY <1>1, <1>2, <1>4, <2>1, <2>2, <2>3, <2>4
<1>6. Upto(turn, seg)' = Upto(turn, seg) /\ Batch' = Batch
  BY DEF Batch, Segment
<1> QED BY <1>1, <1>2, <1>5, <1>6 DEF PlaceOK, Answering, Ended

\* Every step keeps the messages equal to what the plan has emitted so far.
LEMMA PlaceStep == ASSUME BatchInv, Next PROVE PlaceOK'
<1>1. TypeOK /\ PlaceOK /\ messages \in Seq(Message) /\ left \in Seq(Calls)
  BY DEF BatchInv, TypeOK
<1>2. ASSUME left = <<>>, pc \in Answering PROVE NotedCalls = Upto(turn, seg)
  <2>1. NotedCalls \o left = Upto(turn, seg)
    BY <1>1, <1>2 DEF PlaceOK
  <2>2. NotedCalls \in Seq(Calls)
    <3>1. \A m \in Message : m.call \in Calls
      BY DEF Message
    <3>2. DOMAIN messages = 1..Len(messages) /\ Len(messages) \in Nat
          /\ \A i \in 1..Len(messages) : messages[i].call \in Calls
      BY <1>1, <3>1
    <3> QED BY <3>2 DEF NotedCalls
  <2> QED BY <1>2, <2>1, <2>2, ConcatEmptySeq
<1>3. CASE PreflightSkip
  <2>1. NotedCalls' = NotedCalls \o Segment.calls
    BY <1>1, <1>3, PreflightShape, SegmentTypes, GrownNoted
  <2>2. NotedCalls' = Upto(turn, seg)
    BY <1>1, <1>3, <2>1, SegmentTypes DEF PreflightSkip, PlaceOK
  <2>3. CASE SingleSegment
    <3>1. pc' = "clear" /\ turn' = turn /\ seg' = seg /\ seg = Len(Turns[turn])
      BY <1>1, <1>3, <2>3, SegmentTypes DEF PreflightSkip, SingleSegment
    <3> QED BY <2>2, <3>1 DEF PlaceOK, Answering, Ended
  <2>4. CASE ~SingleSegment
    <3>1. turn' = turn /\ NextSegment
      BY <1>3, <2>4 DEF PreflightSkip
    <3> QED BY <1>1, <2>2, <3>1, PlaceNext
  <2> QED BY <2>3, <2>4
<1>4. CASE Submit \/ SeqBegin
  <2>1. pc = "segment" /\ left' = Segment.calls /\ pc' \in {"wait", "next"}
        /\ UNCHANGED <<turn, seg, messages>>
    BY <1>4 DEF Submit, SeqBegin, Sequential, textVars
  <2> QED BY <2>1, PlaceBegin
<1>5. CASE WaitDone \/ WaitDeadline \/ DeadlineSignal \/ WaitInterrupt
  <2>1. /\ UNCHANGED <<turn, seg, left, messages>>
        /\ pc \in Answering /\ pc' \in Answering \ {"exec"}
    BY <1>5 DEF WaitDone, WaitDeadline, DeadlineSignal, WaitInterrupt, textVars, Answering
  <2> QED BY <1>1, <2>1, PlaceKept
<1>6. CASE Collect
  <2>1. pc \in Answering /\ pc' \in Answering \ {"exec"} /\ UNCHANGED <<turn, seg>>
    BY <1>6 DEF Collect, Answering
  <2> QED BY <1>6, <2>1, CollectShape, PlaceTaken
<1>7. CASE SeqReject
  <2>1. pc \in Answering /\ pc' \in Answering \ {"exec"} /\ UNCHANGED <<turn, seg>>
    BY <1>7 DEF SeqReject, Answering
  <2> QED BY <1>7, <2>1, SeqRejectShape, PlaceTaken
<1>8. CASE SeqReturn
  <2>1. pc \in Answering /\ pc' \in Answering \ {"exec"} /\ UNCHANGED <<turn, seg>>
    BY <1>8 DEF SeqReturn, Answering
  <2> QED BY <1>8, <2>1, SeqReturnShape, PlaceTaken
<1>9. CASE Collected \/ SeqDone
  <2>1. /\ left = <<>> /\ pc \in Answering /\ turn' = turn /\ NextSegment
        /\ messages' = messages
    BY <1>9 DEF Collected, SeqDone, Answering, textVars
  <2>2. NotedCalls' = Upto(turn, seg)
    BY <1>2, <2>1 DEF NotedCalls
  <2> QED BY <1>1, <2>1, <2>2, PlaceNext
<1>10. CASE SeqSkip
  <2>1. /\ pc = "next" /\ pc' = pc /\ turn' = turn /\ seg' = seg /\ left' = <<>>
        /\ ToSet(left) \subseteq Batch /\ NotedCalls \o left = Upto(turn, seg)
    BY <1>1, <1>10 DEF SeqSkip, PlaceOK, Answering
  <2>2. NotedCalls' = Upto(turn, seg)
    BY <1>1, <1>10, <2>1, SeqSkipShape, GrownNoted
  <2>3. NotedCalls' \o left' = Upto(turn, seg)
    <3>1. Upto(turn, seg) \in Seq(Calls)
      BY <1>1, SegmentTypes
    <3> QED BY <2>1, <2>2, <3>1, ConcatEmptySeq
  <2>4. ToSet(left') = {} /\ DOMAIN left' = {}
    BY <2>1 DEF ToSet
  <2> QED BY <2>1, <2>3, <2>4 DEF PlaceOK, Answering, Ended
<1>11. CASE SeqStart
  <2>1. /\ pc = "next" /\ pc' = "exec" /\ left # <<>>
        /\ UNCHANGED <<turn, seg, left, messages>>
    BY <1>11 DEF SeqStart, textVars
  <2>2. NotedCalls' = NotedCalls /\ Upto(turn, seg)' = Upto(turn, seg) /\ Batch' = Batch
    BY <2>1 DEF NotedCalls, Batch, Segment
  <2> QED BY <1>1, <2>1, <2>2 DEF PlaceOK, Answering, Ended
<1>12. CASE SeqRaise \/ SeqKeyboard
  <2>1. pc' = "raised" /\ UNCHANGED <<turn, seg, left, messages>>
    BY <1>12 DEF SeqRaise, SeqKeyboard, textVars
  <2> QED BY <1>1, <2>1, PlaceKept
<1>13. CASE Finalize
  <2>1. /\ DOMAIN messages' = DOMAIN messages
        /\ \A i \in DOMAIN messages : messages'[i].call = messages[i].call
    BY <1>13, FinalizeShape
  <2>2. NotedCalls' = NotedCalls
    BY <2>1 DEF NotedCalls
  <2>3. pc = "final" /\ pc' = "clear" /\ turn' = turn /\ seg' = seg
    BY <1>13 DEF Finalize
  <2> QED BY <1>1, <2>2, <2>3 DEF PlaceOK, Answering, Ended
<1>14. CASE ClearFlag \/ ClearBits \/ TurnEnd
  <2>1. pc \in Ended /\ pc' \in Ended /\ UNCHANGED <<turn, seg, left, messages>>
    BY <1>14 DEF ClearFlag, ClearBits, TurnEnd, textVars, Ended
  <2> QED BY <1>1, <2>1, PlaceKept
<1>15. CASE NextTurn
  <2>1. /\ pc = "idle" /\ turn < Len(Turns) /\ turn' = turn + 1 /\ seg' = 1 /\ pc' = "segment"
        /\ messages' = messages
    BY <1>15 DEF NextTurn, textVars
  <2>2. turn + 1 \in DOMAIN Turns /\ turn \in 0..Len(Turns) /\ turn # 0
        /\ (turn + 1) - 1 = turn /\ 1 - 1 = 0
    <3>1. turn \in 0..Len(Turns) /\ turn # 0
      BY <1>1, SegmentTypes
    <3>2. Len(Turns) \in Nat /\ DOMAIN Turns = 1..Len(Turns)
      BY PlanTypes
    <3> QED BY <2>1, <3>1, <3>2
  <2>3. Upto(turn + 1, 0) = EmittedCalls(turn)
    BY <2>2, UptoNone
  <2>4. NotedCalls = EmittedCalls(turn)
    BY <1>1, <2>1, <2>2, EmittedTyped DEF PlaceOK, Ended
  <2>5. NotedCalls' = NotedCalls
    BY <2>1 DEF NotedCalls
  <2> QED BY <2>1, <2>2, <2>3, <2>4, <2>5 DEF PlaceOK, Answering, Ended
<1>16. CASE \/ OtherThread \/ WorkerStep \/ (Over /\ UNCHANGED vars)
            \/ \E c \in Calls : WorkerReturn(c) \/ WorkerKeyboard(c)
  <2>1. UNCHANGED mainVars /\ messages' = messages
    BY <1>16
    DEF OtherThread, WorkerStep, InterruptFlag, InterruptSnapshot, InterruptSignal, Steer, vars,
        WorkerPick, WorkerRegister, WorkerStart, WorkerUnregister, WorkerClear, WorkerReturn, WorkerKeyboard,
        textVars
  <2> QED BY <1>1, <2>1, PlaceKept DEF mainVars
<1> QED
  BY <1>3, <1>4, <1>5, <1>6, <1>7, <1>8, <1>9, <1>10, <1>11, <1>12, <1>13, <1>14, <1>15, <1>16
  DEF Next, MainStep, ToolStep

-------------------------------------------------------------------------------
\* What is promised of a call, and what is ahead.

\* Before its segment runs, each call of it is ahead.
LEMMA BatchAhead ==
    ASSUME TypeOK, pc = "segment", NEW c \in Batch
    PROVE  Ahead(c)
<1>1. turn \in DOMAIN Turns /\ seg \in DOMAIN Turns[turn] /\ c \in ToSet(Turns[turn][seg].calls)
  BY DEF TypeOK, Batch, Segment
<1> QED BY <1>1 DEF Ahead, Later

\* Once its segment has begun to run, no call of it is in a later one.
LEMMA BatchPast ==
    ASSUME TypeOK, NEW c \in Batch, turn' = turn,
           (seg' = seg /\ pc' # "segment") \/ seg' = seg + 1
    PROVE  ~Later(c)'
<1>1. turn \in DOMAIN Turns /\ seg \in DOMAIN Turns[turn] /\ c \in ToSet(Turns[turn][seg].calls)
      /\ turn \in Nat /\ seg \in Nat
  <2>1. turn \in DOMAIN Turns /\ seg \in DOMAIN Turns[turn]
    BY DEF TypeOK
  <2>2. turn \in Nat /\ seg \in Nat
    BY SegmentTypes
  <2> QED BY <2>1, <2>2 DEF Batch, Segment
<1>2. ASSUME NEW i \in DOMAIN Turns, NEW s \in DOMAIN Turns[i], c \in ToSet(Turns[i][s].calls)
      PROVE  i = turn /\ s = seg
  BY <1>1, <1>2, OnePlace
<1> QED BY <1>1, <1>2 DEF Later

\* Nothing comes back.
LEMMA AheadShrinks == ASSUME BatchInv, Next, NEW c, Ahead(c)' PROVE Ahead(c)
<1>1. /\ turn \in 1..Len(Turns) /\ seg \in 1..Len(Turns[turn]) /\ turn \in Nat /\ seg \in Nat
      /\ Len(Turns[turn]) \in Nat /\ turn \in DOMAIN Turns /\ seg \in DOMAIN Turns[turn]
      /\ DOMAIN Turns \subseteq Nat /\ \A t \in DOMAIN Turns : DOMAIN Turns[t] \subseteq Nat
      /\ Batch = ToSet(Turns[turn][seg].calls) /\ left \in Seq(Calls) /\ TypeOK
  <2>1. /\ turn \in 1..Len(Turns) /\ seg \in 1..Len(Turns[turn]) /\ turn \in Nat /\ seg \in Nat
        /\ Len(Turns[turn]) \in Nat /\ turn \in DOMAIN Turns /\ seg \in DOMAIN Turns[turn]
    BY SegmentTypes DEF BatchInv
  <2>2. DOMAIN Turns \subseteq Nat /\ \A t \in DOMAIN Turns : DOMAIN Turns[t] \subseteq Nat
    BY PlanTypes
  <2>3. Batch = ToSet(Turns[turn][seg].calls)
    BY DEF Batch, Segment
  <2>4. left \in Seq(Calls) /\ TypeOK
    BY DEF BatchInv, TypeOK
  <2> QED BY <2>1, <2>2, <2>3, <2>4
<1>2. CASE turn' = turn /\ seg' = seg /\ (pc' = "segment" => pc = "segment")
  <2>1. Later(c)' => Later(c)
    BY <1>2 DEF Later
  <2>2. CASE left' = left /\ (pc' \in {"next", "exec"} => pc \in {"next", "exec"})
    BY <2>1, <2>2 DEF Ahead
  <2>3. CASE pc' \notin {"next", "exec"}
    BY <2>1, <2>3 DEF Ahead
  <2>4. CASE pc \in {"next", "exec"} /\ ToSet(left') \subseteq ToSet(left)
    <3>1. ToSet(left)' = ToSet(left')
      OBVIOUS
    <3> QED BY <2>1, <2>4, <3>1 DEF Ahead
  <2>5. CASE pc = "segment" /\ left' = Segment.calls
    <3>1. ToSet(left)' = Batch
      BY <1>1, <2>5 DEF Segment
    <3> QED BY <1>1, <2>1, <2>5, <3>1, BatchAhead DEF Ahead
  <2>6. \/ left' = left /\ (pc' \in {"next", "exec"} => pc \in {"next", "exec"})
        \/ pc' \notin {"next", "exec"}
        \/ pc \in {"next", "exec"} /\ ToSet(left') \subseteq ToSet(left)
        \/ pc = "segment" /\ left' = Segment.calls
    <3>1. CASE UNCHANGED mainVars
      BY <3>1 DEF mainVars
    <3>2. CASE SeqReject \/ SeqReturn
      <4>1. pc \in {"next", "exec"} /\ left' = Tail(left) /\ left # <<>>
        BY <3>2, SeqRejectShape, SeqReturnShape
      <4> QED BY <1>1, <4>1, TailShape
    <3>3. CASE SeqSkip
      <4>1. pc = "next" /\ left' = <<>>
        BY <3>3 DEF SeqSkip
      <4>2. ToSet(<<>>) = {}
        BY DEF ToSet
      <4> QED BY <4>1, <4>2
    <3>4. CASE SeqStart
      BY <3>4 DEF SeqStart
    <3>5. CASE SeqBegin
      BY <3>5 DEF SeqBegin, Sequential
    <3>6. CASE \/ PreflightSkip \/ Submit \/ WaitDone \/ WaitDeadline \/ DeadlineSignal
               \/ WaitInterrupt \/ Collect \/ Collected \/ SeqDone \/ SeqRaise \/ SeqKeyboard
               \/ Finalize \/ ClearFlag \/ ClearBits \/ TurnEnd \/ NextTurn
      BY <3>6
      DEF PreflightSkip, NextSegment, Submit, WaitDone, WaitDeadline, DeadlineSignal,
          WaitInterrupt, Collect, Collected, SeqDone, SeqRaise, SeqKeyboard, Finalize, ClearFlag,
          ClearBits, TurnEnd, NextTurn
    <3>7. CASE \/ OtherThread \/ WorkerStep \/ (Over /\ UNCHANGED vars)
               \/ \E d \in Calls : WorkerReturn(d) \/ WorkerKeyboard(d)
      <4>1. UNCHANGED mainVars
        BY <3>7
        DEF OtherThread, WorkerStep, InterruptFlag, InterruptSnapshot, InterruptSignal, Steer, vars,
            WorkerPick, WorkerRegister, WorkerStart, WorkerUnregister, WorkerClear, WorkerReturn,
            WorkerKeyboard
      <4> QED BY <3>1, <4>1
    <3> QED BY <3>2, <3>3, <3>4, <3>5, <3>6, <3>7 DEF Next, MainStep, ToolStep
  <2> QED BY <2>2, <2>3, <2>4, <2>5, <2>6
<1>3. CASE turn' = turn /\ seg' = seg + 1 /\ pc' = "segment"
  <2>1. Later(c)'
    BY <1>3 DEF Ahead
  <2>2. PICK i \in DOMAIN Turns : \E s \in DOMAIN Turns[i] :
          /\ c \in ToSet(Turns[i][s].calls)
          /\ i > turn \/ (i = turn /\ s >= seg + 1)
    BY <1>1, <1>3, <2>1 DEF Later
  <2>3. PICK s \in DOMAIN Turns[i] :
          /\ c \in ToSet(Turns[i][s].calls)
          /\ i > turn \/ (i = turn /\ s >= seg + 1)
    BY <2>2
  <2>4. i > turn \/ (i = turn /\ s > seg)
    BY <1>1, <2>3
  <2> QED BY <2>3, <2>4 DEF Ahead, Later
<1>4. CASE turn' = turn + 1 /\ seg' = 1 /\ pc' = "segment"
  <2>1. Later(c)'
    BY <1>4 DEF Ahead
  <2>2. PICK i \in DOMAIN Turns : i >= turn + 1 /\ \E s \in DOMAIN Turns[i] :
          c \in ToSet(Turns[i][s].calls)
    BY <1>1, <1>4, <2>1 DEF Later
  <2>3. i > turn
    BY <1>1, <2>2
  <2> QED BY <2>2, <2>3 DEF Ahead, Later
<1>5. \/ turn' = turn /\ seg' = seg /\ (pc' = "segment" => pc = "segment")
      \/ turn' = turn /\ seg' = seg + 1 /\ pc' = "segment"
      \/ turn' = turn + 1 /\ seg' = 1 /\ pc' = "segment"
  <2>1. CASE UNCHANGED mainVars
    BY <2>1 DEF mainVars
  <2>2. CASE PreflightSkip \/ Collected \/ SeqDone
    BY <2>2 DEF PreflightSkip, Collected, SeqDone, NextSegment
  <2>3. CASE NextTurn
    BY <2>3 DEF NextTurn
  <2>4. CASE \/ Submit \/ WaitDone \/ WaitDeadline \/ DeadlineSignal \/ WaitInterrupt \/ Collect
             \/ SeqBegin \/ SeqSkip \/ SeqReject \/ SeqReturn \/ SeqStart \/ SeqRaise
             \/ SeqKeyboard \/ Finalize \/ ClearFlag \/ ClearBits \/ TurnEnd
    BY <2>4
    DEF Submit, WaitDone, WaitDeadline, DeadlineSignal, WaitInterrupt, Collect, SeqBegin, SeqSkip,
        SeqReject, SeqReturn, SeqStart, SeqRaise, SeqKeyboard, Finalize, ClearFlag, ClearBits,
        TurnEnd
  <2>5. CASE \/ OtherThread \/ WorkerStep \/ (Over /\ UNCHANGED vars)
             \/ \E d \in Calls : WorkerReturn(d) \/ WorkerKeyboard(d)
    <3>1. UNCHANGED mainVars
      BY <2>5
      DEF OtherThread, WorkerStep, InterruptFlag, InterruptSnapshot, InterruptSignal, Steer, vars,
          WorkerPick, WorkerRegister, WorkerStart, WorkerUnregister, WorkerClear, WorkerReturn, WorkerKeyboard
    <3> QED BY <2>1, <3>1
  <2> QED BY <2>2, <2>3, <2>4, <2>5 DEF Next, MainStep, ToolStep
<1> QED BY <1>2, <1>3, <1>4, <1>5

\* A message that promises is one of before or one of those added.
LEMMA GrownPromised ==
    ASSUME messages \in Seq(Message), NEW q \in Seq(Calls), NEW e, NEW T, Grown(q, e, T),
           NEW c, Promised(c)'
    PROVE  Promised(c) \/ (e = "none" /\ c \in ToSet(q))
<1>1. /\ Len(messages) \in Nat /\ Len(q) \in Nat /\ DOMAIN messages = 1..Len(messages)
      /\ DOMAIN q = 1..Len(q) /\ DOMAIN messages' = 1..(Len(messages) + Len(q))
  BY DEF Grown
<1>2. PICK i \in 1..(Len(messages) + Len(q)) :
        messages'[i].effect = "none" /\ messages'[i].call = c
  BY <1>1 DEF Promised
<1>3. CASE i \in 1..Len(messages)
  <2>1. messages[i].effect = "none" /\ messages[i].call = c
    BY <1>2, <1>3 DEF Grown, Same
  <2> QED BY <1>1, <1>3, <2>1 DEF Promised
<1>4. CASE i \notin 1..Len(messages)
  <2>1. i - Len(messages) \in 1..Len(q) /\ Len(messages) + (i - Len(messages)) = i
    BY <1>1, <1>4
  <2>2. PICK k \in 1..Len(q) : Len(messages) + k = i
    BY <2>1
  <2>3. e = "none" /\ q[k] = c
    BY <1>2, <2>2 DEF Grown
  <2> QED BY <1>1, <2>3 DEF ToSet
<1> QED BY <1>3, <1>4

\* A message that is added with effect "none" is a new promise, and no other is.
LEMMA TakenPromised ==
    ASSUME messages \in Seq(Message), NEW h \in Calls, NEW e, NEW T, Grown(<<h>>, e, T),
           NEW c, Promised(c)'
    PROVE  Promised(c) \/ (e = "none" /\ c = h)
<1>1. PICK q \in Seq(Calls) : q = <<h>>
  <2>1. <<h>> \in Seq(Calls)
    OBVIOUS
  <2> QED BY <2>1
<1>2. ToSet(q) = {h}
  BY <1>1 DEF ToSet
<1>3. Grown(q, e, T)
  BY <1>1
<1> QED BY <1>2, <1>3, GrownPromised

\* CallOK is kept by a step that promises nothing of the call and does not start it.
LEMMA CallKept ==
    ASSUME NEW c, CallOK(c), Ahead(c)' => Ahead(c), Promised(c)' => Promised(c),
           worker'[c] = worker[c] \/ worker[c] \notin {"new", "cancelled"},
           result'[c] = result[c] \/ result'[c] # "blocked",
           c \in invoked' => c \in invoked \/ worker[c] \notin {"new", "cancelled"},
           pc = "exec" /\ c = Head(left) => ~Ahead(c)' \/ (pc' = pc /\ left' = left)
    PROVE  CallOK(c)'
<1>1. ASSUME Ahead(c)'
      PROVE  /\ worker'[c] = "new" /\ result'[c] # "blocked" /\ ~Promised(c)'
             /\ c \in invoked' => pc' = "exec" /\ c = Head(left')
  BY <1>1 DEF CallOK
<1>2. ASSUME result'[c] = "blocked" PROVE worker'[c] = "new" /\ c \notin invoked'
  BY <1>2 DEF CallOK
<1>3. ASSUME Promised(c)' PROVE worker'[c] \in {"new", "cancelled"} /\ c \notin invoked'
  BY <1>3 DEF CallOK
<1> QED BY <1>1, <1>2, <1>3 DEF CallOK

\* Every step keeps what is promised of each call.
LEMMA CallStep == ASSUME BatchInv, Next, NEW c \in Calls PROVE CallOK(c)'
<1>1. /\ TypeOK /\ CallOK(c) /\ (Ahead(c)' => Ahead(c)) /\ messages \in Seq(Message)
      /\ worker \in [Calls -> WorkerStates] /\ result \in [Calls -> Results]
  BY AheadShrinks DEF BatchInv, TypeOK
<1>2. messages' = messages => (Promised(c)' => Promised(c))
  BY DEF Promised
<1>3. pc \in Answering => /\ ToSet(left) \subseteq Batch /\ left \in Seq(Calls)
                          /\ left # <<>> => Head(left) \in Batch
                          /\ \A i, j \in DOMAIN left : left[i] = left[j] => i = j
  BY <1>1, TailShape DEF BatchInv, PlaceOK, TypeOK
<1>4. CASE PreflightSkip
  <2>1. /\ Promised(c)' => Promised(c) \/ c \in Batch
        /\ pc = "segment" /\ worker' = worker /\ result' = result /\ invoked' = invoked
        /\ turn' = turn
    BY <1>1, <1>4, PreflightShape, SegmentTypes, GrownPromised DEF PreflightSkip, poolVars
  <2>2. CASE c \in Batch
    <3>1. Ahead(c) /\ c \notin invoked /\ worker[c] = "new" /\ result[c] # "blocked"
      BY <1>1, <2>1, <2>2, BatchAhead DEF CallOK
    <3>2. (seg' = seg /\ pc' # "segment") \/ seg' = seg + 1
      BY <1>4 DEF PreflightSkip, NextSegment
    <3>3. pc' \notin {"next", "exec"}
      BY <1>4 DEF PreflightSkip, NextSegment
    <3>4. ~Ahead(c)'
      BY <1>1, <2>1, <2>2, <3>2, <3>3, BatchPast DEF Ahead
    <3> QED BY <2>1, <3>1, <3>4 DEF CallOK
  <2>3. CASE c \notin Batch
    BY <1>1, <2>1, <2>3, CallKept
  <2> QED BY <2>2, <2>3
<1>5. CASE Submit
  <2>1. /\ pc = "segment" /\ pc' = "wait" /\ turn' = turn /\ seg' = seg /\ invoked' = invoked
        /\ messages' = messages
    BY <1>5 DEF Submit, textVars
  <2>2. PICK rejected \in SUBSET Batch : \E refused : Submitted(rejected, refused)
    BY <1>5, SubmitShape
  <2> PICK refused : Submitted(rejected, refused)
    BY <2>2
  <2>3. CASE c \in Batch
    <3>1. /\ Ahead(c) /\ c \notin invoked /\ worker[c] = "new" /\ result[c] # "blocked"
          /\ ~Promised(c)
      BY <1>1, <2>1, <2>3, BatchAhead DEF CallOK
    <3>2. ~Ahead(c)'
      BY <1>1, <2>1, <2>3, BatchPast DEF Ahead
    <3>3. ~Promised(c)'
      BY <1>2, <2>1, <3>1
    <3>4. result'[c] = "blocked" => worker'[c] = "new"
      BY <3>1 DEF Submitted
    <3> QED BY <2>1, <3>1, <3>2, <3>3, <3>4 DEF CallOK
  <2>4. CASE c \notin Batch
    <3>1. worker'[c] = worker[c] /\ (result'[c] = result[c] \/ result'[c] # "blocked")
      BY <2>4 DEF Submitted
    <3> QED BY <1>1, <1>2, <2>1, <3>1, CallKept
  <2> QED BY <2>3, <2>4
<1>6. CASE WaitDeadline \/ WaitInterrupt
  <2>1. worker'[c] = worker[c] \/ worker[c] = "queued"
    BY <1>6 DEF WaitDeadline, WaitInterrupt, CancelQueued
  <2>2. pc # "exec" /\ result' = result /\ invoked' = invoked /\ messages' = messages
    BY <1>6 DEF WaitDeadline, WaitInterrupt, textVars
  <2> QED BY <1>1, <1>2, <2>1, <2>2, CallKept
<1>7. CASE Collect
  <2>1. /\ left # <<>> /\ pc = "collect" /\ pc' = pc /\ turn' = turn /\ seg' = seg
        /\ worker' = worker /\ result' = result /\ invoked' = invoked
        /\ Head(left) \in Calls /\ <<Head(left)>> \in Seq(Calls)
        /\ Grown(<<Head(left)>>, CollectedEffect(Head(left)), pendingSteer)
    BY <1>7, CollectShape DEF Collect, poolVars
  <2>2. Promised(c)' => Promised(c) \/ (CollectedEffect(Head(left)) = "none" /\ c = Head(left))
    BY <1>1, <2>1, TakenPromised
  <2>3. Promised(c)' => Promised(c) \/ (CollectedEffect(c) = "none" /\ c = Head(left))
    BY <2>2
  <2>4. CASE c = Head(left) /\ CollectedEffect(c) = "none"
    <3>1. result[c] = "blocked"
      BY <1>1, <2>4 DEF CollectedEffect
    <3>2. worker[c] = "new" /\ c \notin invoked
      BY <1>1, <3>1 DEF CallOK
    <3>3. ~Ahead(c)'
      BY <1>1, <1>3, <2>1, <2>4, BatchPast DEF Ahead, Answering
    <3> QED BY <2>1, <3>1, <3>2, <3>3 DEF CallOK
  <2>5. CASE ~(c = Head(left) /\ CollectedEffect(c) = "none")
    BY <1>1, <2>1, <2>3, <2>5, CallKept
  <2> QED BY <2>4, <2>5
<1>8. CASE SeqSkip
  <2>1. /\ left # <<>> /\ pc = "next" /\ pc' = pc /\ turn' = turn /\ seg' = seg /\ left' = <<>>
        /\ worker' = worker /\ result' = result /\ invoked' = invoked
        /\ Promised(c)' => Promised(c) \/ c \in ToSet(left)
    BY <1>1, <1>8, SeqSkipShape, GrownPromised DEF SeqSkip, poolVars
  <2>2. CASE c \in ToSet(left)
    <3>1. Ahead(c) /\ c \notin invoked /\ worker[c] = "new" /\ result[c] # "blocked"
      BY <1>1, <2>1, <2>2 DEF CallOK, Ahead
    <3>2. ToSet(left') = {}
      BY <2>1 DEF ToSet
    <3>3. c \in Batch
      BY <1>3, <2>1, <2>2 DEF Answering
    <3>4. ~Later(c)'
      BY <1>1, <2>1, <3>3, BatchPast
    <3>5. ~Ahead(c)'
      BY <3>2, <3>4 DEF Ahead
    <3> QED BY <2>1, <3>1, <3>5 DEF CallOK
  <2>3. CASE c \notin ToSet(left)
    BY <1>1, <2>1, <2>3, CallKept
  <2> QED BY <2>2, <2>3
<1>9. CASE SeqReject
  <2>1. /\ pc = "next" /\ worker' = worker /\ result' = result /\ invoked' = invoked
        /\ Grown(<<Head(left)>>, "unset", pendingSteer) /\ Head(left) \in Calls
    BY <1>9, SeqRejectShape DEF SeqReject, poolVars
  <2>2. Promised(c)' => Promised(c)
    BY <1>1, <2>1, TakenPromised
  <2> QED BY <1>1, <2>1, <2>2, CallKept
<1>10. CASE SeqStart
  <2>1. /\ left # <<>> /\ pc = "next" /\ pc' = "exec" /\ left' = left
        /\ worker' = worker /\ result' = result /\ invoked' = invoked \cup {Head(left)}
        /\ messages' = messages /\ left \in Seq(Calls)
    BY <1>3, <1>10 DEF SeqStart, textVars, Answering
  <2>2. CASE c = Head(left)
    <3>1. Ahead(c)
      BY <2>1, <2>2, TailShape DEF Ahead
    <3>2. worker[c] = "new" /\ result[c] # "blocked" /\ ~Promised(c)
      BY <1>1, <3>1 DEF CallOK
    <3> QED BY <1>2, <2>1, <2>2, <3>2 DEF CallOK
  <2>3. CASE c # Head(left)
    BY <1>1, <1>2, <2>1, <2>3, CallKept
  <2> QED BY <2>2, <2>3
<1>11. CASE SeqReturn
  <2>1. /\ left # <<>> /\ left' = Tail(left) /\ pc = "exec" /\ pc' = "next" /\ turn' = turn
        /\ seg' = seg /\ worker' = worker /\ invoked' = invoked
        /\ result' = [result EXCEPT ![Head(left)] = "answered"]
        /\ Grown(<<Head(left)>>, "unset", pendingSteer) /\ Head(left) \in Calls
    BY <1>11, SeqReturnShape DEF SeqReturn
  <2>2. Promised(c)' => Promised(c)
    BY <1>1, <2>1, TakenPromised
  <2>3. result'[c] = result[c] \/ result'[c] = "answered"
    BY <1>1, <2>1
  <2>4. ASSUME c = Head(left) PROVE ~Ahead(c)'
    <3>1. c \in Batch /\ c \notin ToSet(left')
      BY <1>3, <2>1, <2>4, TailShape DEF Answering
    <3>2. ~Later(c)'
      BY <1>1, <2>1, <3>1, BatchPast
    <3> QED BY <3>1, <3>2 DEF Ahead
  <2> QED BY <1>1, <2>1, <2>2, <2>3, <2>4, CallKept
<1>12. CASE SeqRaise \/ SeqKeyboard
  <2>1. /\ pc = "exec" /\ pc' = "raised" /\ left' = left /\ turn' = turn /\ seg' = seg
        /\ worker' = worker /\ result' = result /\ invoked' = invoked /\ messages' = messages
    BY <1>12 DEF SeqRaise, SeqKeyboard, poolVars, textVars
  <2>2. ASSUME c = Head(left) PROVE ~Ahead(c)'
    <3>1. c \in Batch
      BY <1>3, <2>1, <2>2 DEF Answering, BatchInv, PlaceOK
    <3>2. ~Later(c)'
      BY <1>1, <2>1, <3>1, BatchPast
    <3> QED BY <2>1, <3>2 DEF Ahead
  <2> QED BY <1>1, <1>2, <2>1, <2>2, CallKept
<1>13. CASE Finalize
  <2>1. /\ DOMAIN messages' = DOMAIN messages
        /\ \A i \in DOMAIN messages : /\ messages'[i].call = messages[i].call
                                      /\ messages'[i].effect = messages[i].effect
    BY <1>13, FinalizeShape
  <2>2. Promised(c)' => Promised(c)
    BY <2>1 DEF Promised
  <2>3. pc = "final" /\ worker' = worker /\ result' = result /\ invoked' = invoked
    BY <1>13 DEF Finalize, poolVars
  <2> QED BY <1>1, <2>2, <2>3, CallKept
<1>14. CASE \/ WaitDone \/ DeadlineSignal \/ Collected \/ SeqBegin \/ SeqDone
            \/ ClearFlag \/ ClearBits \/ TurnEnd \/ NextTurn
  <2>1. /\ pc # "exec" /\ messages' = messages
        /\ worker' = worker /\ result' = result /\ invoked' = invoked
    BY <1>14
    DEF WaitDone, DeadlineSignal, Collected, SeqBegin, Sequential, SeqDone, ClearFlag, ClearBits,
        TurnEnd, NextTurn, poolVars, textVars
  <2> QED BY <1>1, <1>2, <2>1, CallKept
<1>15. CASE OtherThread \/ (Over /\ UNCHANGED vars)
  <2>1. /\ pc' = pc /\ left' = left /\ messages' = messages
        /\ worker' = worker /\ result' = result /\ invoked' = invoked
    BY <1>15
    DEF OtherThread, InterruptFlag, InterruptSnapshot, InterruptSignal, Steer, vars, mainVars,
        poolVars, textVars
  <2> QED BY <1>1, <1>2, <2>1, CallKept
<1>16. ASSUME NEW d \in Calls,
              \/ \E t \in Tids : WorkerPick(d, t)
              \/ WorkerRegister(d) \/ WorkerStart(d) \/ WorkerUnregister(d) \/ WorkerClear(d)
              \/ WorkerReturn(d) \/ WorkerKeyboard(d)
       PROVE  CallOK(c)'
  <2>1. pc' = pc /\ left' = left /\ messages' = messages
    BY <1>16
    DEF WorkerPick, WorkerRegister, WorkerStart, WorkerUnregister, WorkerClear, WorkerReturn, WorkerKeyboard,
        mainVars, textVars
  <2>2. worker'[c] = worker[c] \/ worker[c] \notin {"new", "cancelled"}
    BY <1>1, <1>16
    DEF WorkerPick, WorkerRegister, WorkerStart, WorkerUnregister, WorkerClear, WorkerReturn, WorkerKeyboard
  <2>3. result'[c] = result[c] \/ result'[c] # "blocked"
    BY <1>1, <1>16
    DEF WorkerPick, WorkerRegister, WorkerStart, WorkerUnregister, WorkerClear, WorkerReturn, WorkerKeyboard
  <2>4. c \in invoked' => c \in invoked \/ worker[c] \notin {"new", "cancelled"}
    BY <1>1, <1>16
    DEF WorkerPick, WorkerRegister, WorkerStart, WorkerUnregister, WorkerClear, WorkerReturn, WorkerKeyboard
  <2> QED BY <1>1, <1>2, <2>1, <2>2, <2>3, <2>4, CallKept
<1> QED
  BY <1>4, <1>5, <1>6, <1>7, <1>8, <1>9, <1>10, <1>11, <1>12, <1>13, <1>14, <1>15, <1>16
  DEF Next, MainStep, ToolStep, WorkerStep

-------------------------------------------------------------------------------
\* Workers and interrupts.

\* A step that is no worker's: workers that live are left as they are, and while
\* an interrupt stands and Main waits no bit is cleared.
LEMMA WorkersKept ==
    ASSUME \A c \in Calls : WorkerOK(c), UNCHANGED <<tid, tracked>>,
           \A c \in Calls : worker'[c] = worker[c] \/ worker'[c] \in {"queued", "cancelled"},
           \/ ~(requested' /\ pc' \in {"wait", "fan", "collect"})
           \/ /\ requested /\ pc \in {"wait", "fan", "collect"}
              /\ bits \subseteq bits' /\ UNCHANGED <<ipc, snap>>
    PROVE  \A c \in Calls : WorkerOK(c)'
<1> SUFFICES ASSUME NEW c \in Calls PROVE WorkerOK(c)'
  OBVIOUS
<1>1. ASSUME NEW d \in Calls, Live(d)' PROVE Live(d)
  BY <1>1 DEF Live
<1>2. Live(c)' => tid'[c] \in Tids /\ \A d \in Calls : Live(d)' /\ tid'[d] = tid'[c] => d = c
  BY <1>1 DEF WorkerOK
<1>3. worker'[c] \in {"registered", "running", "returned"} => tid'[c] \in tracked'
  BY DEF WorkerOK
<1>4. worker'[c] = "running" /\ requested' /\ pc' \in {"wait", "fan", "collect"} =>
        tid'[c] \in bits' \/ ipc' = "flagged" \/ (ipc' = "copied" /\ tid'[c] \in snap')
  BY DEF WorkerOK
<1> QED BY <1>2, <1>3, <1>4 DEF WorkerOK

\* A step of a worker that stays on its thread: no other's bit is cleared.
LEMMA WorkerMoves ==
    ASSUME BatchInv, NEW c \in Calls, Live(c), NEW p \in WorkerStates,
           worker' = [worker EXCEPT ![c] = p], UNCHANGED <<tid, ipc, snap, mainVars>>,
           requested' = requested \/ tracked \subseteq bits',
           bits \ {tid[c]} \subseteq bits', tracked \ {tid[c]} \subseteq tracked',
           p \in {"registered", "running", "returned"} => tid[c] \in tracked',
           p = "running" /\ requested' /\ pc \in {"wait", "fan", "collect"} => tid[c] \in bits'
    PROVE  \A d \in Calls : WorkerOK(d)'
<1>1. /\ worker \in [Calls -> WorkerStates] /\ pc' = pc
      /\ \A d \in Calls : WorkerOK(d)
  BY DEF BatchInv, TypeOK, mainVars
<1>2. worker'[c] = p /\ \A d \in Calls \ {c} : worker'[d] = worker[d]
  BY <1>1
<1>3. \A d \in Calls : Live(d)' => Live(d)
  BY <1>2 DEF Live
<1>4. ASSUME NEW d \in Calls, Live(d) PROVE tid[d] = tid[c] => d = c
  BY <1>1, <1>4 DEF WorkerOK
<1> SUFFICES ASSUME NEW d \in Calls PROVE WorkerOK(d)'
  OBVIOUS
<1>5. Live(d)' => tid'[d] \in Tids /\ \A e \in Calls : Live(e)' /\ tid'[e] = tid'[d] => e = d
  BY <1>1, <1>3 DEF WorkerOK
<1>6. worker'[d] \in {"registered", "running", "returned"} => tid'[d] \in tracked'
  <2>1. CASE d = c
    BY <1>2, <2>1
  <2>2. CASE d # c
    BY <1>1, <1>2, <1>4, <2>2 DEF WorkerOK, Live
  <2> QED BY <2>1, <2>2
<1>7. worker'[d] = "running" /\ requested' /\ pc' \in {"wait", "fan", "collect"} =>
        tid'[d] \in bits' \/ ipc' = "flagged" \/ (ipc' = "copied" /\ tid'[d] \in snap')
  <2>1. CASE d = c
    BY <1>1, <1>2, <2>1
  <2>2. CASE d # c
    <3>1. worker[d] = "running" => tid[d] # tid[c] /\ tid[d] \in tracked
      BY <1>1, <1>4, <2>2 DEF WorkerOK, Live
    <3> QED BY <1>1, <1>2, <2>2, <3>1 DEF WorkerOK
  <2> QED BY <2>1, <2>2
<1> QED BY <1>5, <1>6, <1>7 DEF WorkerOK

\* A worker that takes a call takes a thread no other runs on.
LEMMA PickInv ==
    ASSUME BatchInv, NEW c \in Calls, NEW t \in Tids, WorkerPick(c, t)
    PROVE  \A d \in Calls : WorkerOK(d)'
<1>1. /\ worker \in [Calls -> WorkerStates] /\ tid \in [Calls -> Tids \cup {NoTid}]
      /\ \A d \in Calls : WorkerOK(d)
  BY DEF BatchInv, TypeOK
<1>2. /\ worker[c] = "queued" /\ tracked' = tracked
      /\ pc' = pc /\ requested' = requested /\ bits' = bits /\ ipc' = ipc /\ snap' = snap
      /\ \A d \in Calls : Live(d) => tid[d] # t
  BY DEF WorkerPick, mainVars, interVars, Busy
<1>3. /\ worker'[c] = "picked" /\ tid'[c] = t
      /\ \A d \in Calls \ {c} : worker'[d] = worker[d] /\ tid'[d] = tid[d]
  BY <1>1 DEF WorkerPick
<1>4. \A d \in Calls \ {c} : Live(d)' = Live(d)
  BY <1>3 DEF Live
<1> SUFFICES ASSUME NEW d \in Calls PROVE WorkerOK(d)'
  OBVIOUS
<1>5. CASE d = c
  BY <1>2, <1>3, <1>4, <1>5 DEF WorkerOK
<1>6. CASE d # c
  <2>1. Live(d)' => tid'[d] \in Tids /\ \A e \in Calls : Live(e)' /\ tid'[e] = tid'[d] => e = d
    BY <1>1, <1>2, <1>3, <1>4, <1>6 DEF WorkerOK
  <2>2. worker'[d] = worker[d] /\ tid'[d] = tid[d]
    BY <1>3, <1>6
  <2> QED BY <1>1, <1>2, <2>1, <2>2 DEF WorkerOK
<1> QED BY <1>5, <1>6

\* Every step keeps each tracked worker within the interrupt's reach.
LEMMA WorkersStep == ASSUME BatchInv, Next PROVE \A c \in Calls : WorkerOK(c)'
<1>1. TypeOK /\ \A c \in Calls : WorkerOK(c)
  BY DEF BatchInv
<1>2. ASSUME NEW c \in Calls, \E t \in Tids : WorkerPick(c, t)
      PROVE  \A d \in Calls : WorkerOK(d)'
  BY <1>2, PickInv
<1>21. ASSUME NEW c \in Calls, WorkerRegister(c)
       PROVE  \A d \in Calls : WorkerOK(d)'
  <2>1. /\ Live(c) /\ UNCHANGED <<tid, ipc, snap, mainVars, requested, bits>>
        /\ worker' = [worker EXCEPT ![c] = "registered"] /\ "registered" \in WorkerStates
        /\ tracked' = tracked \cup {tid[c]}
    BY <1>21 DEF WorkerRegister, Live, interVars, WorkerStates
  <2> QED BY <2>1, WorkerMoves
<1>3. ASSUME NEW c \in Calls,
             \/ WorkerStart(c) \/ WorkerReturn(c) \/ WorkerKeyboard(c) \/ WorkerUnregister(c)
      PROVE  \A d \in Calls : WorkerOK(d)'
  <2>1. Live(c) /\ (worker[c] # "unregistered" => tid[c] \in tracked)
    BY <1>1, <1>3
    DEF WorkerStart, WorkerReturn, WorkerKeyboard, WorkerUnregister, Live, WorkerOK
  <2>2. UNCHANGED <<tid, ipc, snap, mainVars>>
    BY <1>3
    DEF WorkerStart, WorkerReturn, WorkerKeyboard, WorkerUnregister, interVars
  <2>3. CASE WorkerStart(c)
    <3>1. worker' = [worker EXCEPT ![c] = "running"] /\ "running" \in WorkerStates
      BY <2>3 DEF WorkerStart, WorkerStates
    <3>2. requested' = requested /\ tracked' = tracked /\ worker[c] = "registered"
      BY <2>3 DEF WorkerStart
    <3>3. bits \subseteq bits' /\ (requested' => tid[c] \in bits')
      BY <2>3, <3>2 DEF WorkerStart
    <3> QED BY <2>1, <2>2, <3>1, <3>2, <3>3, WorkerMoves
  <2>4. CASE WorkerReturn(c)
    <3>1. worker' = [worker EXCEPT ![c] = "returned"] /\ "returned" \in WorkerStates
      BY <2>4 DEF WorkerReturn, WorkerStates
    <3>2. requested' = requested /\ tracked' = tracked /\ bits' = bits /\ worker[c] = "running"
      BY <2>4 DEF WorkerReturn
    <3> QED BY <2>1, <2>2, <3>1, <3>2, WorkerMoves
  <2>5. CASE WorkerKeyboard(c)
    <3>1. worker' = [worker EXCEPT ![c] = "returned"] /\ "returned" \in WorkerStates
      BY <2>5 DEF WorkerKeyboard, WorkerStates
    <3>2. tracked' = tracked /\ bits \subseteq bits' /\ tracked \subseteq bits'
          /\ worker[c] = "running"
      BY <2>5 DEF WorkerKeyboard
    <3> QED BY <2>1, <2>2, <3>1, <3>2, WorkerMoves
  <2>6. CASE WorkerUnregister(c)
    <3>1. worker' = [worker EXCEPT ![c] = "unregistered"] /\ "unregistered" \in WorkerStates
      BY <2>6 DEF WorkerUnregister, WorkerStates
    <3>2. requested' = requested /\ tracked' = tracked \ {tid[c]} /\ bits' = bits
      BY <2>6 DEF WorkerUnregister
    <3> QED BY <2>1, <2>2, <3>1, <3>2, WorkerMoves
  <2> QED BY <1>3, <2>3, <2>4, <2>5, <2>6
<1>4. ASSUME NEW c \in Calls, WorkerClear(c) PROVE \A d \in Calls : WorkerOK(d)'
  <2>1. /\ worker \in [Calls -> WorkerStates] /\ tid \in [Calls -> Tids \cup {NoTid}]
    BY <1>1 DEF TypeOK
  <2>2. /\ worker[c] = "unregistered" /\ bits' = bits \ {tid[c]} /\ tracked' = tracked
        /\ pc' = pc /\ requested' = requested /\ ipc' = ipc /\ snap' = snap
    BY <1>4 DEF WorkerClear, mainVars, interVars
  <2>3. /\ worker'[c] = "done"
        /\ \A d \in Calls \ {c} : worker'[d] = worker[d] /\ tid'[d] = tid[d]
    BY <1>4, <2>1 DEF WorkerClear
  <2>4. Live(c) /\ ~Live(c)' /\ \A d \in Calls \ {c} : Live(d)' = Live(d)
    BY <2>2, <2>3 DEF Live
  <2> SUFFICES ASSUME NEW d \in Calls PROVE WorkerOK(d)'
    OBVIOUS
  <2>5. CASE d = c
    BY <2>3, <2>4, <2>5 DEF WorkerOK
  <2>6. CASE d # c
    <3>1. Live(d) => tid[d] # tid[c]
      BY <1>1, <2>4, <2>6 DEF WorkerOK
    <3>2. worker'[d] = worker[d] /\ tid'[d] = tid[d]
      BY <2>3, <2>6
    <3>3. Live(d)' => tid'[d] \in Tids /\ \A e \in Calls : Live(e)' /\ tid'[e] = tid'[d] => e = d
      BY <1>1, <2>3, <2>4, <2>6 DEF WorkerOK
    <3>4. worker[d] = "running" => Live(d)
      BY DEF Live
    <3> QED BY <1>1, <2>2, <3>1, <3>2, <3>3, <3>4 DEF WorkerOK
  <2> QED BY <2>5, <2>6
<1>5. CASE Submit
  <2>1. UNCHANGED <<tid, tracked>> /\ ~requested'
    BY <1>5 DEF Submit
  <2>2. PICK rejected, refused : Submitted(rejected, refused)
    BY <1>5, SubmitShape
  <2>3. \A c \in Calls : worker'[c] = worker[c] \/ worker'[c] \in {"queued", "cancelled"}
    BY <2>2 DEF Submitted
  <2> QED BY <1>1, <2>1, <2>3, WorkersKept
<1>6. CASE WaitDeadline \/ WaitInterrupt
  <2>1. \A c \in Calls : worker'[c] = worker[c] \/ worker'[c] \in {"queued", "cancelled"}
    BY <1>6 DEF WaitDeadline, WaitInterrupt, CancelQueued
  <2>2. /\ UNCHANGED <<tid, tracked, ipc, snap, bits, requested>>
        /\ pc = "wait"
    BY <1>6 DEF WaitDeadline, WaitInterrupt, interVars
  <2> QED BY <1>1, <2>1, <2>2, WorkersKept
<1>7. CASE WaitDone \/ DeadlineSignal \/ Collect
  <2>1. /\ UNCHANGED <<worker, tid, tracked, ipc, snap, requested>> /\ bits \subseteq bits'
        /\ pc \in {"wait", "fan", "collect"}
    BY <1>7 DEF WaitDone, DeadlineSignal, Collect, poolVars, interVars
  <2> QED BY <1>1, <2>1, WorkersKept
<1>8. CASE \/ PreflightSkip \/ Collected \/ SeqBegin \/ SeqSkip \/ SeqReject \/ SeqStart
           \/ SeqReturn \/ SeqRaise \/ SeqKeyboard \/ SeqDone \/ Finalize \/ ClearFlag
           \/ ClearBits \/ TurnEnd \/ NextTurn
  <2>1. UNCHANGED <<worker, tid, tracked>> /\ pc' \notin {"wait", "fan", "collect"}
    BY <1>8
    DEF PreflightSkip, NextSegment, Collected, SeqBegin, SeqSkip, SeqReject, SeqStart, SeqReturn,
        SeqRaise, SeqKeyboard, SeqDone, Finalize, ClearFlag, ClearBits, TurnEnd, NextTurn, poolVars
  <2> QED BY <1>1, <2>1, WorkersKept
<1>9. CASE InterruptFlag \/ InterruptSnapshot \/ InterruptSignal
  <2>1. UNCHANGED <<worker, tid, tracked, pc>> /\ bits \subseteq bits'
    BY <1>9 DEF InterruptFlag, InterruptSnapshot, InterruptSignal, poolVars, mainVars
  <2> SUFFICES ASSUME NEW c \in Calls PROVE WorkerOK(c)'
    OBVIOUS
  <2>2. Live(c)' => tid'[c] \in Tids /\ \A d \in Calls : Live(d)' /\ tid'[d] = tid'[c] => d = c
    BY <1>1, <2>1 DEF WorkerOK, Live
  <2>3. worker'[c] \in {"registered", "running", "returned"} => tid'[c] \in tracked'
    BY <1>1, <2>1 DEF WorkerOK
  <2>4. worker'[c] = "running" /\ requested' /\ pc' \in {"wait", "fan", "collect"} =>
          tid'[c] \in bits' \/ ipc' = "flagged" \/ (ipc' = "copied" /\ tid'[c] \in snap')
    <3>1. CASE InterruptFlag
      BY <3>1 DEF InterruptFlag
    <3>2. CASE InterruptSnapshot
      BY <2>3, <3>2 DEF InterruptSnapshot, poolVars
    <3>3. CASE InterruptSignal
      BY <1>1, <2>1, <3>3 DEF InterruptSignal, WorkerOK
    <3> QED BY <1>9, <3>1, <3>2, <3>3
  <2> QED BY <2>2, <2>3, <2>4 DEF WorkerOK
<1>10. CASE Steer \/ (Over /\ UNCHANGED vars)
  <2>1. UNCHANGED <<worker, tid, tracked, pc, requested, bits, ipc, snap>>
    BY <1>10 DEF Steer, vars, mainVars, poolVars, interVars
  <2> QED BY <1>1, <2>1, WorkersKept
<1> QED
  BY <1>2, <1>3, <1>4, <1>5, <1>6, <1>7, <1>8, <1>9, <1>10, <1>21
  DEF Next, MainStep, ToolStep, WorkerStep, OtherThread

-------------------------------------------------------------------------------
\* Steers.

\* The pending steers join a message, or stay pending.
LEMMA SteersTold ==
    ASSUME SteersOK, NEW n \in Nat, dropped' = dropped, steers' = steers,
           \A i \in Nat : i # n => Held(i)' = Held(i),
           \/ pendingSteer' = pendingSteer /\ Held(n)' = Held(n)
           \/ pendingSteer' = {} /\ Held(n)' = Held(n) \cup pendingSteer
    PROVE  SteersOK'
<1>1. CASE pendingSteer' = pendingSteer /\ Held(n)' = Held(n)
  <2>1. \A i \in Nat : Held(i)' = Held(i)
    BY <1>1
  <2> QED BY <1>1, <2>1 DEF SteersOK
<1>2. CASE pendingSteer' = {} /\ Held(n)' = Held(n) \cup pendingSteer
  <2>1. \A i \in Nat : \A k : k \in Held(i)' <=> k \in Held(i) \/ (i = n /\ k \in pendingSteer)
    BY <1>2
  <2>2. \A k : (\E i \in Nat : k \in Held(i)')
                 <=> k \in pendingSteer \/ \E i \in Nat : k \in Held(i)
    BY <2>1
  <2>3. \A k : k \in (1..steers)' <=>
               k \in pendingSteer' \/ k \in dropped' \/ \E i \in Nat : k \in Held(i)'
    BY <1>2, <2>2 DEF SteersOK
  <2>4. ASSUME NEW i \in Nat, NEW k, k \in Held(i)'
        PROVE  /\ k \notin pendingSteer' /\ k \notin dropped'
               /\ \A j \in Nat : k \in Held(j)' => i = j
    <3>1. k \in Held(i) \/ (i = n /\ k \in pendingSteer)
      BY <2>1, <2>4
    <3>2. k \notin dropped
      BY <3>1 DEF SteersOK
    <3>3. ASSUME NEW j \in Nat, k \in Held(j)' PROVE i = j
      <4>1. k \in Held(j) \/ (j = n /\ k \in pendingSteer)
        BY <2>1, <3>3
      <4> QED BY <3>1, <4>1 DEF SteersOK
    <3> QED BY <1>2, <3>2, <3>3
  <2> QED BY <1>2, <2>3, <2>4 DEF SteersOK
<1> QED BY <1>1, <1>2

\* Of the messages, only those that were added hold other steers than before.
LEMMA GrownHeld ==
    ASSUME messages \in Seq(Message), NEW q \in Seq(Calls), NEW e, NEW T, Grown(q, e, T),
           NEW i \in Nat
    PROVE  Held(i)' = IF i \in (Len(messages) + 1)..(Len(messages) + Len(q)) THEN T ELSE Held(i)
<1>1. /\ Len(messages) \in Nat /\ Len(q) \in Nat /\ DOMAIN messages = 1..Len(messages)
      /\ DOMAIN messages' = 1..(Len(messages) + Len(q))
  BY DEF Grown
<1>2. Held(i)' = IF i \in DOMAIN messages' THEN Texts(messages'[i]) ELSE {}
  BY DEF Held, Texts
<1>3. CASE i \in 1..Len(messages)
  <2>1. Texts(messages'[i]) = Texts(messages[i])
    BY <1>3 DEF Grown, Same
  <2>2. /\ i \in DOMAIN messages' /\ i \in DOMAIN messages
        /\ i \notin (Len(messages) + 1)..(Len(messages) + Len(q))
    BY <1>1, <1>3
  <2> QED BY <1>2, <2>1, <2>2 DEF Held
<1>4. CASE i \in (Len(messages) + 1)..(Len(messages) + Len(q))
  <2>1. i - Len(messages) \in 1..Len(q) /\ Len(messages) + (i - Len(messages)) = i
    BY <1>1, <1>4
  <2>2. PICK k \in 1..Len(q) : Len(messages) + k = i
    BY <2>1
  <2>3. Texts(messages'[i]) = T
    BY <2>2 DEF Grown
  <2>4. i \in DOMAIN messages'
    BY <1>1, <1>4
  <2> QED BY <1>2, <1>4, <2>3, <2>4
<1>5. CASE i \notin 1..(Len(messages) + Len(q))
  <2>1. /\ i \notin DOMAIN messages' /\ i \notin DOMAIN messages
        /\ i \notin (Len(messages) + 1)..(Len(messages) + Len(q))
    BY <1>1, <1>5
  <2> QED BY <1>2, <2>1 DEF Held
<1> QED BY <1>1, <1>3, <1>4, <1>5

\* Every step keeps each accepted steer in one place.
LEMMA SteersStep == ASSUME BatchInv, Next PROVE SteersOK'
<1>1. /\ TypeOK /\ SteersOK /\ messages \in Seq(Message) /\ Len(messages) \in Nat
  BY DEF BatchInv, TypeOK
<1>2. CASE UNCHANGED textVars
  BY <1>1, <1>2 DEF SteersOK, Held, Texts, textVars
<1>3. CASE PreflightSkip \/ SeqSkip
  <2>1. \A i \in Nat : Held(i)' = Held(i)
    <3>1. \E q \in Seq(Calls) : Grown(q, "none", {})
      BY <1>1, <1>3, PreflightShape, SeqSkipShape, SegmentTypes
    <3>2. PICK q \in Seq(Calls) : Grown(q, "none", {})
      BY <3>1
    <3>3. ASSUME NEW i \in Nat PROVE Held(i)' = Held(i)
      <4>1. Held(i)' = IF i \in (Len(messages) + 1)..(Len(messages) + Len(q))
                       THEN {} ELSE Held(i)
        BY <1>1, <3>2, GrownHeld
      <4>2. i \in (Len(messages) + 1)..(Len(messages) + Len(q)) => i \notin DOMAIN messages
        BY <1>1
      <4> QED BY <4>1, <4>2 DEF Held
    <3> QED BY <3>3
  <2>2. dropped' = dropped /\ steers' = steers /\ pendingSteer' = pendingSteer
    BY <1>3 DEF PreflightSkip, SeqSkip
  <2> QED BY <1>1, <2>1, <2>2, SteersTold
<1>4. CASE Collect \/ SeqReject \/ SeqReturn
  <2>1. dropped' = dropped /\ steers' = steers /\ pendingSteer' = {}
    BY <1>4 DEF Collect, SeqReject, SeqReturn, Answer
  <2>2. Head(left) \in Calls /\ \E e : Grown(<<Head(left)>>, e, pendingSteer)
    BY <1>4, CollectShape, SeqRejectShape, SeqReturnShape
  <2>3. PICK e : Grown(<<Head(left)>>, e, pendingSteer)
    BY <2>2
  <2>4. PICK q \in Seq(Calls) : q = <<Head(left)>>
    <3>1. <<Head(left)>> \in Seq(Calls)
      BY <2>2
    <3> QED BY <3>1
  <2>5. Len(q) = 1 /\ Grown(q, e, pendingSteer)
    BY <2>3, <2>4
  <2> DEFINE n == Len(messages) + 1
  <2>6. ASSUME NEW i \in Nat
        PROVE  Held(i)' = IF i = n THEN pendingSteer ELSE Held(i)
    <3>1. Held(i)' = IF i \in (Len(messages) + 1)..(Len(messages) + Len(q))
                     THEN pendingSteer ELSE Held(i)
      BY <1>1, <2>5, GrownHeld
    <3>2. i \in (Len(messages) + 1)..(Len(messages) + Len(q)) <=> i = n
      BY <1>1, <2>5
    <3> QED BY <3>1, <3>2
  <2>7. n \in Nat /\ Held(n) = {}
    BY <1>1 DEF Held
  <2> HIDE DEF n
  <2>8. PICK m \in Nat : m = n
    BY <2>7
  <2>9. /\ \A i \in Nat : i # m => Held(i)' = Held(i)
        /\ Held(m)' = Held(m) \cup pendingSteer
    <3>1. Held(m)' = pendingSteer
      BY <2>6, <2>8
    <3>2. Held(m) = {}
      BY <2>7, <2>8
    <3> QED BY <2>6, <2>8, <3>1, <3>2
  <2> QED BY <1>1, <2>1, <2>9, SteersTold
<1>5. CASE Finalize
  <2>1. /\ messages # <<>> /\ messages' \in Seq(Message) /\ Len(messages') = Len(messages)
        /\ \A i \in 1..(Len(messages) - 1) : Texts(messages'[i]) = Texts(messages[i])
        /\ Texts(messages'[Len(messages)]) = Texts(messages[Len(messages)]) \cup pendingSteer
    BY <1>5, FinalizeShape
  <2>2. dropped' = dropped /\ steers' = steers /\ pendingSteer' = {}
    BY <1>5 DEF Finalize
  <2>3. DOMAIN messages = 1..Len(messages) /\ DOMAIN messages' = 1..Len(messages)
    BY <1>1, <2>1
  <2>4. PICK m \in Nat : m = Len(messages)
    BY <1>1
  <2>5. m \in 1..m
    BY <1>1, <2>1, <2>4
  <2>6. ASSUME NEW i \in Nat
        PROVE  Held(i)' = IF i \in DOMAIN messages' THEN Texts(messages'[i]) ELSE {}
    BY DEF Held, Texts
  <2>7. Held(m)' = Held(m) \cup pendingSteer
    <3>1. Held(m)' = Texts(messages'[m]) /\ Held(m) = Texts(messages[m])
      BY <2>3, <2>4, <2>5, <2>6 DEF Held
    <3> QED BY <2>1, <2>4, <3>1
  <2>8. ASSUME NEW i \in Nat, i # m PROVE Held(i)' = Held(i)
    <3>1. CASE i \in 1..(m - 1)
      <4>1. i \in 1..m
        BY <3>1
      <4> QED BY <2>1, <2>3, <2>4, <2>6, <3>1, <4>1 DEF Held
    <3>2. CASE i \notin 1..(m - 1)
      <4>1. i \notin 1..m
        BY <2>8, <3>2
      <4> QED BY <2>3, <2>4, <2>6, <4>1 DEF Held
    <3> QED BY <3>1, <3>2
  <2> QED BY <1>1, <2>2, <2>7, <2>8, SteersTold
<1>6. CASE ClearBits
  <2>1. /\ dropped' = dropped \cup pendingSteer /\ pendingSteer' = {}
        /\ steers' = steers /\ messages' = messages
    BY <1>6 DEF ClearBits
  <2>2. \A i \in Nat : Held(i)' = Held(i)
    BY <2>1 DEF Held, Texts
  <2> QED BY <1>1, <2>1, <2>2 DEF SteersOK
<1>7. CASE Steer
  <2>1. /\ steers' = steers + 1 /\ pendingSteer' = pendingSteer \cup {steers + 1}
        /\ dropped' = dropped /\ messages' = messages /\ steers \in Nat
    BY <1>1, <1>7, BoundsAssumption DEF Steer, TypeOK
  <2>2. \A i \in Nat : Held(i)' = Held(i)
    BY <2>1 DEF Held, Texts
  <2>3. steers + 1 \notin dropped /\ \A i \in Nat : steers + 1 \notin Held(i)
    <3>1. steers + 1 \notin 1..steers
      BY <2>1
    <3> QED BY <1>1, <3>1 DEF SteersOK
  <2>4. \A k : k \in (1..steers)' <=> k \in 1..steers \/ k = steers + 1
    BY <2>1
  <2> QED BY <1>1, <2>1, <2>2, <2>3, <2>4 DEF SteersOK
<1>8. CASE \/ Submit \/ WaitDone \/ WaitDeadline \/ DeadlineSignal \/ WaitInterrupt
           \/ Collected \/ SeqBegin \/ SeqStart \/ SeqDone \/ SeqRaise \/ SeqKeyboard
           \/ ClearFlag \/ TurnEnd \/ NextTurn
           \/ InterruptFlag \/ InterruptSnapshot \/ InterruptSignal
           \/ (Over /\ UNCHANGED vars)
  <2>1. UNCHANGED textVars
    BY <1>8
    DEF Submit, WaitDone, WaitDeadline, DeadlineSignal, WaitInterrupt, Collected, SeqBegin,
        SeqStart, SeqDone, SeqRaise, SeqKeyboard, ClearFlag, TurnEnd, NextTurn, InterruptFlag,
        InterruptSnapshot, InterruptSignal, vars
  <2> QED BY <1>2, <2>1
<1>9. ASSUME NEW c \in Calls,
             \/ \E t \in Tids : WorkerPick(c, t)
             \/ WorkerRegister(c) \/ WorkerStart(c) \/ WorkerUnregister(c) \/ WorkerClear(c)
             \/ WorkerReturn(c) \/ WorkerKeyboard(c)
      PROVE  SteersOK'
  <2>1. UNCHANGED textVars
    BY <1>9
    DEF WorkerPick, WorkerRegister, WorkerStart, WorkerUnregister, WorkerClear, WorkerReturn, WorkerKeyboard
  <2> QED BY <1>2, <2>1
<1> QED
  BY <1>3, <1>4, <1>5, <1>6, <1>7, <1>8, <1>9
  DEF Next, MainStep, ToolStep, WorkerStep, OtherThread

-------------------------------------------------------------------------------
\* The theorems.

\* The invariant holds initially.
LEMMA BatchInit == Init => BatchInv
<1> SUFFICES ASSUME Init PROVE BatchInv
  OBVIOUS
<1>1. 1 \in DOMAIN Turns /\ 1 \in DOMAIN Turns[1]
  BY PlanTypes
<1>2. TypeOK
  <2>1. interrupts \in 0..MaxInterrupts /\ steers \in 0..MaxSteers
    BY BoundsAssumption DEF Init
  <2>2. messages \in Seq(Message) /\ left \in Seq(Calls)
    BY DEF Init
  <2>3. /\ worker \in [Calls -> WorkerStates] /\ result \in [Calls -> Results]
        /\ tid \in [Calls -> Tids \cup {NoTid}]
    BY DEF Init, WorkerStates, Results
  <2> QED BY <1>1, <2>1, <2>2, <2>3 DEF Init, TypeOK
<1>3. PlaceOK
  <2>1. Upto(1, 0) = <<>>
    <3>1. 1 - 1 = 0
      OBVIOUS
    <3> QED BY <1>1, <3>1, UptoNone, EmittedNone
  <2>2. NotedCalls = <<>> /\ seg - 1 = 0
    BY DEF Init, NotedCalls
  <2> QED BY <2>1, <2>2 DEF Init, PlaceOK, Answering, Ended
<1>4. ASSUME NEW c \in Calls PROVE CallOK(c) /\ WorkerOK(c)
  <2>1. ~Promised(c)
    BY DEF Init, Promised
  <2> QED BY <2>1 DEF Init, CallOK, WorkerOK, Live
<1>5. SteersOK
  <2>1. \A i \in Nat : Held(i) = {}
    BY DEF Init, Held
  <2>2. \A k : k \notin 1..steers
    BY DEF Init
  <2> QED BY <2>1, <2>2 DEF Init, SteersOK
<1> QED BY <1>2, <1>3, <1>4, <1>5 DEF BatchInv

\* And every step keeps it.
LEMMA BatchStep == BatchInv /\ [Next]_vars => BatchInv'
<1> SUFFICES ASSUME BatchInv, [Next]_vars PROVE BatchInv'
  OBVIOUS
<1>1. CASE Next
  BY <1>1, TypeStep, PlaceStep, CallStep, WorkersStep, SteersStep DEF BatchInv
<1>2. CASE UNCHANGED vars
  <2>1. /\ TypeOK /\ PlaceOK /\ (\A c \in Calls : CallOK(c)) /\ (\A c \in Calls : WorkerOK(c))
        /\ SteersOK
    BY DEF BatchInv
  <2>2. TypeOK'
    BY <1>2, <2>1 DEF TypeOK, vars, mainVars, poolVars, interVars, textVars
  <2>3. PlaceOK'
    BY <1>2, <2>1, PlaceKept DEF vars, mainVars, textVars
  <2>4. ASSUME NEW c \in Calls PROVE CallOK(c)'
    <3>1. Ahead(c)' => Ahead(c)
      BY <1>2 DEF Ahead, Later, vars, mainVars
    <3>2. Promised(c)' => Promised(c)
      BY <1>2 DEF Promised, vars, textVars
    <3> QED BY <1>2, <2>1, <3>1, <3>2, CallKept DEF vars, mainVars, poolVars
  <2>5. \A c \in Calls : WorkerOK(c)'
    BY <1>2, <2>1, WorkersKept DEF vars, mainVars, poolVars, interVars
  <2>6. SteersOK'
    BY <1>2, <2>1 DEF SteersOK, Held, Texts, vars, textVars
  <2> QED BY <2>2, <2>3, <2>4, <2>5, <2>6 DEF BatchInv
<1> QED BY <1>1, <1>2

\* So it holds always.
LEMMA BatchAlways == Spec => []BatchInv
  BY BatchInit, BatchStep, PTL DEF Spec

\* The variables of the executor, of the pool and of the interrupting thread keep
\* their types: execute_tool_calls_segmented never indexes a batch it has left.
THEOREM BatchTypes == Spec => []TypeOK
<1>1. BatchInv => TypeOK
  BY DEF BatchInv
<1> QED BY <1>1, BatchAlways, PTL

\* Every call the model has emitted has exactly one message, in the order the
\* model emitted them, when a turn's batch has ended: whatever was rejected,
\* refused, cancelled, timed out or skipped on the way.
THEOREM EachCallAnswered == Spec => []OneResultPerCall
<1>1. BatchInv => OneResultPerCall
  <2> SUFFICES ASSUME BatchInv, pc \in Ended PROVE NotedCalls = EmittedCalls(turn)
    BY DEF OneResultPerCall, Ended, NotedCalls
  <2>1. turn \in 0..Len(Turns) /\ turn # 0
    BY SegmentTypes DEF BatchInv
  <2> QED BY <2>1, EmittedTyped DEF BatchInv, PlaceOK
<1> QED BY <1>1, BatchAlways, PTL

\* A message that says its call had no effect is about a tool that never ran and
\* never will: not in a later segment, and not on a thread of the pool that
\* outlived its batch.
THEOREM PromisesHold == Spec => []NoneMeansNotRun
<1>1. BatchInv => NoneMeansNotRun
  <2> SUFFICES ASSUME BatchInv, NEW i \in DOMAIN messages, messages[i].effect = "none"
               PROVE  /\ messages[i].call \notin invoked
                      /\ worker[messages[i].call] \in {"new", "cancelled"}
    BY DEF NoneMeansNotRun
  <2>1. messages[i].call \in Calls
    <3>1. messages[i] \in Message
      BY DEF BatchInv, TypeOK
    <3> QED BY <3>1 DEF Message
  <2>2. Promised(messages[i].call)
    BY DEF Promised
  <2> QED BY <2>1, <2>2 DEF BatchInv, CallOK
<1> QED BY <1>1, BatchAlways, PTL

\* An interrupt reaches every tool of the batch that runs, whether its worker had
\* registered before interrupt() copied the thread ids or registers after.
THEOREM InterruptsArrive == Spec => []InterruptDelivered
<1>1. BatchInv => InterruptDelivered
  <2>1. ASSUME BatchInv PROVE Batch \subseteq Calls
    BY <2>1, SegmentTypes DEF BatchInv
  <2> QED BY <2>1 DEF BatchInv, WorkerOK, InterruptDelivered
<1> QED BY <1>1, BatchAlways, PTL

\* A steer that was accepted waits, was dropped by clear_interrupt, or is in the
\* text of one message: none is lost, and none is told twice.
THEOREM SteersArrive == Spec => []SteerOnce
<1>1. BatchInv => SteerOnce
  <2> SUFFICES ASSUME BatchInv PROVE SteerOnce
    OBVIOUS
  <2>1. SteersOK /\ messages \in Seq(Message) /\ DOMAIN messages \subseteq Nat
    BY DEF BatchInv, TypeOK
  <2>2. \A i \in DOMAIN messages : Held(i) = messages[i].seen \cup messages[i].lost
    BY DEF Held, Texts
  <2>3. \A k : (\E i \in Nat : k \in Held(i))
                 <=> \E i \in DOMAIN messages : k \in messages[i].seen \cup messages[i].lost
    BY <2>1 DEF Held, Texts
  <2>4. 1..steers = pendingSteer \cup dropped
                   \cup UNION {messages[i].seen \cup messages[i].lost : i \in DOMAIN messages}
    <3>1. \A k : k \in UNION {messages[i].seen \cup messages[i].lost : i \in DOMAIN messages}
                   <=> \E i \in DOMAIN messages : k \in messages[i].seen \cup messages[i].lost
      OBVIOUS
    <3>2. \A k : k \in 1..steers
                   <=> \/ k \in pendingSteer \/ k \in dropped
                       \/ k \in UNION {messages[i].seen \cup messages[i].lost :
                                         i \in DOMAIN messages}
      BY <2>1, <2>3, <3>1, Zenon DEF SteersOK
    <3> QED BY <3>2, Zenon
  <2>5. pendingSteer \cap dropped = {}
    BY <2>1 DEF SteersOK
  <2>6. ASSUME NEW i \in DOMAIN messages
        PROVE  /\ (messages[i].seen \cup messages[i].lost) \cap (pendingSteer \cup dropped) = {}
               /\ \A j \in DOMAIN messages : i # j =>
                    (messages[i].seen \cup messages[i].lost)
                      \cap (messages[j].seen \cup messages[j].lost) = {}
    BY <2>1, <2>2 DEF SteersOK
  <2> QED BY <2>4, <2>5, <2>6 DEF SteerOnce
<1> QED BY <1>1, BatchAlways, PTL
=============================================================================
