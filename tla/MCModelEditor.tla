--------------------------- MODULE MCModelEditor ---------------------------
(* Instances of the model generator for TLC: two CVs and two inputs, a     *)
(* legacy file with a block too many, one that lacks a block, responses of *)
(* the step response tool for an MV and a DV, an input that moves twice by *)
(* the same step and one that moves by no more than the threshold.         *)
EXTENDS StepResponseTool

CONSTANTS c1, c2, i1, i2

Block(cv, mvs) == [cv |-> cv, mvs |-> mvs]
MCMdlFiles == {
  [cvs |-> <<c1, c2>>, mvs |-> <<i1, i2>>,
   blocks |-> <<Block(c1, {i1, i2}), Block(None, {i1}), Block(c2, {i2})>>],
  [cvs |-> <<c1, c2>>, mvs |-> <<i1>>, blocks |-> <<Block(c2, {i1}), Block(c1, {i1})>>]}
MCJsonFiles == {
  [input |-> i1, type |-> "MV", cvs |-> <<c2, c1>>],
  [input |-> i2, type |-> "DV", cvs |-> <<c2>>]}

Point(t, v) == [at |-> t, value |-> v]
MCHistory == [x \in {i1, i2} |->
  IF x = i1 THEN <<Point(1, 0), Point(2, 3), Point(3, 0)>> ELSE <<Point(1, 0), Point(2, 1), Point(3, 4)>>]
=============================================================================
