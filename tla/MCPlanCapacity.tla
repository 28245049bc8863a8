--------------------------- MODULE MCPlanCapacity ----------------------------
(***************************************************************************)
(* Instances of PlanCapacity for TLC: a creation and the restore of two    *)
(* records, one of which they share, and a contact import of two rows.     *)
(***************************************************************************)
EXTENDS PlanCapacity, TLC

CONSTANTS create, many, import, c1, c2, r1, r2, r3, r4, large, enterprise

BatchOf == create :> {r1} @@ many :> {r1, r2} @@ import :> {r3, r4}
Limits == large :> 2 @@ enterprise :> Unlimited
Symmetry == Permutations(Ids)
=============================================================================
