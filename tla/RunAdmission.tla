---------------------------- MODULE RunAdmission ----------------------------
(***************************************************************************)
(* What the run scheduler promises about admission, without its locks,     *)
(* executors or crashes: a run is submitted once for one agent, waits, is  *)
(* admitted at most once and only within the two caps, and ends for good.  *)
(***************************************************************************)
EXTENDS Naturals, FiniteSets

CONSTANTS Run, Agent, NoAgent, GlobalMax, AgentMax

VARIABLES state,  \* where the run is in its life
          owner   \* the agent the run was submitted for

admission == <<state, owner>>

Admitted == {r \in Run : state[r] = "running"}
AdmittedOf(a) == {r \in Admitted : owner[r] = a}

Init == /\ state = [r \in Run |-> "absent"]
        /\ owner = [r \in Run |-> NoAgent]

\* Runs are ended and at most one is submitted, in one transaction; the
\* transaction of a follow-up wake can do both.
Turnover ==
    \E ended \in SUBSET {r \in Run : state[r] \in {"queued", "running"}} :
        \/ /\ state' = [r \in Run |-> IF r \in ended THEN "ended" ELSE state[r]]
           /\ owner' = owner
        \/ \E r \in Run, a \in Agent :
              /\ state[r] = "absent"
              /\ state' = [q \in Run |-> IF q = r THEN "queued"
                                         ELSE IF q \in ended THEN "ended" ELSE state[q]]
              /\ owner' = [owner EXCEPT ![r] = a]

\* Admission is within the caps.
Admit(r) ==
    /\ state[r] = "queued"
    /\ Cardinality(Admitted) < GlobalMax
    /\ Cardinality(AdmittedOf(owner[r])) < AgentMax
    /\ state' = [state EXCEPT ![r] = "running"]
    /\ owner' = owner

Next == Turnover \/ \E r \in Run : Admit(r)

Spec == Init /\ [][Next]_admission

WithinCaps == /\ Cardinality(Admitted) <= GlobalMax
              /\ \A a \in Agent : Cardinality(AdmittedOf(a)) <= AgentMax
=============================================================================
