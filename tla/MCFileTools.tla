----------------------------- MODULE MCFileTools -----------------------------
(* An agent A with two concurrent calls and its sibling B, two directories. *)
EXTENDS FileTools, TLC

CONSTANTS A, B, a1, a2, b1, main, work

MCTaskOf == [s \in Slots |-> IF s = b1 THEN B ELSE A]
MCPathOrder == <<<<main>>, <<work>>>>
MCCommands == [t \in Tasks |-> IF t = A THEN {main} ELSE {}]
MCOverride == [t \in Owners |-> IF t = A THEN work ELSE Unset]

One(op, n) == [op |-> op, names |-> <<n>>]

(* Every operation, and the two files in opposite orders.                   *)
MCInputs == [s \in Slots |->
  IF s = b1 THEN {[op |-> "v4a", names |-> <<<<main>>, <<work>>>>], One("search", Relative)}
  ELSE {One("read", <<work>>), One("write", Relative),
        One("replace", Relative), One("v4a", Relative),
        [op |-> "v4a", names |-> <<<<work>>, <<main>>>>]}]

(* A name the shell may resolve differently, beside absolute ones.          *)
NamedInputs == [s \in Slots |->
  IF s = b1 THEN {One("replace", <<main>>)}
  ELSE {One("read", <<work>>), One("read", Relative), One("write", <<work>>),
        One("v4a", Relative)}]

(* The two calls of A may be given the same names.                          *)
CallsOfA == Permutations({a1, a2})
=============================================================================
