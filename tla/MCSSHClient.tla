----------------------------- MODULE MCSSHClient -----------------------------
(***************************************************************************)
(* Small instances of SSHClient: one policy that needs no approval and one *)
(* that does.                                                              *)
(***************************************************************************)
EXTENDS SSHClient, TLC

CONSTANTS me, admin

Policy(explicit) == [explicit |-> explicit, mode |-> me :> "preapproved" @@ admin :> "preapproved"]
Preapproved == {Policy(FALSE)}
BothPolicies == {Policy(FALSE), Policy(TRUE)}
Commands == Permutations(Procs)
=============================================================================
