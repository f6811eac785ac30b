---------------------------- MODULE MCToolBatch ----------------------------
(* The turns that TLC runs: a parallel segment and a sequential one, then a *)
(* turn of a single call.                                                  *)
EXTENDS ToolBatch

CONSTANTS a, b, c, d

Par(s) == [kind |-> "parallel", calls |-> s]
Sequ(s) == [kind |-> "sequential", calls |-> s]

MCTurns == << <<Par(<<a, b>>), Sequ(<<c>>)>>, <<Sequ(<<d>>)>> >>
=============================================================================
