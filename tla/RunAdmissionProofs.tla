-------------------------- MODULE RunAdmissionProofs --------------------------
(***************************************************************************)
(* RunAdmission keeps its caps, for every set of runs and agents.          *)
(***************************************************************************)
EXTENDS RunAdmission, FiniteSetTheorems, TLAPS

\* WithinCaps is not inductive: a cardinality says something only of a finite
\* set, and an admitted run must be one that was submitted for an agent.
CapsInv == /\ GlobalMax \in Nat /\ AgentMax \in Nat
           /\ state \in [Run -> {"absent", "queued", "running", "ended"}]
           /\ DOMAIN owner = Run
           /\ IsFiniteSet(Admitted)
           /\ WithinCaps

\* Whatever leaves no new run admitted, and no admitted run with a new owner,
\* keeps the caps.
LEMMA FewerAdmitted ==
    ASSUME CapsInv, Admitted' \subseteq Admitted,
           \A r \in Admitted' : owner'[r] = owner[r]
    PROVE  IsFiniteSet(Admitted)' /\ WithinCaps'
<1>1. IsFiniteSet(Admitted') /\ Cardinality(Admitted') <= Cardinality(Admitted)
  BY FS_Subset DEF CapsInv
<1>2. Cardinality(Admitted') \in Nat /\ Cardinality(Admitted) \in Nat
  BY <1>1, FS_CardinalityType DEF CapsInv
<1>3. Cardinality(Admitted') <= GlobalMax
  BY <1>1, <1>2 DEF CapsInv, WithinCaps
<1>4. ASSUME NEW a \in Agent
      PROVE  Cardinality(AdmittedOf(a)') <= AgentMax
  <2>1. AdmittedOf(a)' \subseteq AdmittedOf(a)
    BY DEF AdmittedOf
  <2>2. IsFiniteSet(AdmittedOf(a))
    BY FS_Subset DEF CapsInv, AdmittedOf
  <2>3. Cardinality(AdmittedOf(a)') <= Cardinality(AdmittedOf(a)) /\ IsFiniteSet(AdmittedOf(a)')
    BY <2>1, <2>2, FS_Subset
  <2>4. Cardinality(AdmittedOf(a)') \in Nat /\ Cardinality(AdmittedOf(a)) \in Nat
    BY <2>2, <2>3, FS_CardinalityType
  <2>5. Cardinality(AdmittedOf(a)) <= AgentMax
    BY DEF CapsInv, WithinCaps
  <2> QED
    BY <2>3, <2>4, <2>5 DEF CapsInv
<1> QED
  BY <1>1, <1>3, <1>4 DEF WithinCaps

LEMMA TurnoverKeepsCaps == CapsInv /\ Turnover => CapsInv'
<1> SUFFICES ASSUME CapsInv, Turnover PROVE CapsInv'
  OBVIOUS
<1>1. state' \in [Run -> {"absent", "queued", "running", "ended"}] /\ DOMAIN owner' = Run
  BY DEF CapsInv, Turnover
<1>2. Admitted' \subseteq Admitted /\ \A r \in Admitted' : owner'[r] = owner[r]
  BY DEF CapsInv, Turnover, Admitted
<1> QED
  BY <1>1, <1>2, FewerAdmitted DEF CapsInv

LEMMA AdmitKeepsCaps ==
    ASSUME CapsInv, NEW r \in Run, Admit(r)
    PROVE  CapsInv'
<1>1. state' \in [Run -> {"absent", "queued", "running", "ended"}] /\ DOMAIN owner' = Run
  BY DEF CapsInv, Admit
<1>2. Admitted' = Admitted \cup {r} /\ r \notin Admitted
  BY DEF CapsInv, Admit, Admitted
<1>3. IsFiniteSet(Admitted') /\ Cardinality(Admitted') = Cardinality(Admitted) + 1
  BY <1>2, FS_AddElement DEF CapsInv
<1>4. Cardinality(Admitted) \in Nat
  BY FS_CardinalityType DEF CapsInv
<1>5. Cardinality(Admitted') <= GlobalMax
  BY <1>3, <1>4 DEF CapsInv, Admit
<1>6. ASSUME NEW a \in Agent
      PROVE  Cardinality(AdmittedOf(a)') <= AgentMax
  <2>1. IsFiniteSet(AdmittedOf(a)) /\ Cardinality(AdmittedOf(a)) \in Nat
    BY FS_Subset, FS_CardinalityType DEF CapsInv, AdmittedOf
  <2>2. CASE owner[r] = a
    <3>1. AdmittedOf(a)' = AdmittedOf(a) \cup {r} /\ r \notin AdmittedOf(a)
      BY <1>2, <2>2 DEF AdmittedOf, Admit
    <3>2. Cardinality(AdmittedOf(a)') = Cardinality(AdmittedOf(a)) + 1
      BY <2>1, <3>1, FS_AddElement
    <3> QED
      BY <2>1, <2>2, <3>2 DEF CapsInv, Admit
  <2>3. CASE owner[r] # a
    <3>1. AdmittedOf(a)' = AdmittedOf(a)
      BY <1>2, <2>3 DEF AdmittedOf, Admit
    <3> QED
      BY <3>1 DEF CapsInv, WithinCaps
  <2> QED
    BY <2>2, <2>3
<1> QED
  BY <1>1, <1>3, <1>5, <1>6 DEF CapsInv, WithinCaps

\* The abstract scheduler never admits more runs than either cap allows.
THEOREM WithinCapsAlways ==
    ASSUME GlobalMax \in Nat, AgentMax \in Nat
    PROVE  Spec => []WithinCaps
<1>1. Init => CapsInv
  <2> SUFFICES ASSUME Init PROVE CapsInv
    OBVIOUS
  <2>1. Admitted = {} /\ \A a \in Agent : AdmittedOf(a) = {}
    BY DEF Init, Admitted, AdmittedOf
  <2> QED
    BY <2>1, FS_EmptySet DEF Init, CapsInv, WithinCaps
<1>2. CapsInv /\ [Next]_admission => CapsInv'
  <2> SUFFICES ASSUME CapsInv, [Next]_admission PROVE CapsInv'
    OBVIOUS
  <2>1. CASE Turnover
    BY <2>1, TurnoverKeepsCaps
  <2>2. ASSUME NEW r \in Run, Admit(r) PROVE CapsInv'
    BY <2>2, AdmitKeepsCaps
  <2>3. CASE UNCHANGED admission
    BY <2>3 DEF admission, CapsInv, WithinCaps, Admitted, AdmittedOf
  <2> QED
    BY <2>1, <2>2, <2>3 DEF Next
<1>3. CapsInv => WithinCaps
  BY DEF CapsInv
<1> QED
  BY <1>1, <1>2, <1>3, PTL DEF Spec
===============================================================================
