-------------------------- MODULE MCPaidOperation ---------------------------
(* Gateway processes are interchangeable.                                    *)
EXTENDS PaidOperation, TLC

Symmetry == Permutations(Owners)
=============================================================================
