---------------------------- MODULE MCCommandRun ----------------------------
(* CommandRun on small instances. *)
EXTENDS CommandRun, TLC

\* Descendants are interchangeable; the streams are not, because they are
\* started, joined and reported in a fixed order.
Symmetry == Permutations(Descendants)

\* stdout may run on once its reader has stopped reading; stderr has one byte less.
ThreeAndTwo == [stdout |-> 3, stderr |-> 2]
TwoEach == [stdout |-> 2, stderr |-> 2]
=============================================================================
