------------------------- MODULE MCSequenceDelivery -------------------------
(***************************************************************************)
(* Instances of SequenceDelivery for TLC.                                  *)
(***************************************************************************)
EXTENDS SequenceDelivery, TLC

CONSTANTS e1, c1, w1, w2

MCContactOf == [e \in Enrollments |-> c1]

Symmetry == Permutations(Workers)
=============================================================================
