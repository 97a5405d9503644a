------------------------- MODULE MCGrantEnforcement -------------------------
(* Small instances of GrantEnforcement. *)
EXTENDS GrantEnforcement, TLC

IdSymmetry == Permutations(ReceiptIds) \cup Permutations(ApprovalIds) \cup Permutations(Handlers)
=============================================================================
