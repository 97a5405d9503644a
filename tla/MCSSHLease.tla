----------------------------- MODULE MCSSHLease -----------------------------
(***************************************************************************)
(* Small instances of SSHLease: an agent, an administrator that may also   *)
(* request, one strict and one preapproved policy.                         *)
(***************************************************************************)
EXTENDS SSHLease, TLC

CONSTANTS agent, admin

MCTokens == {agent, admin}

\* Agent may enter without approval, the administrator's own requests may not.
Open1 == [mode |-> (agent :> "preapproved" @@ admin :> "approval"), explicit |-> FALSE,
          maxLease |-> 2, certTTL |-> 1, certCap |-> 2,
          ceiling |-> (agent :> 0 @@ admin :> 1)]

\* Explicit approval for everybody, and a longer certificate.
Strict == [Open1 EXCEPT !.explicit = TRUE, !.certTTL = 2]

MCOpenStrict == {Open1, Strict}
\* Open1 with a longer certificate: another digest, the same role otherwise.
MCTwoTTLs == {Open1, [Open1 EXCEPT !.certTTL = 2]}

\* Handlers are interchangeable.
HandlerSymmetry == Permutations(Handlers)
=============================================================================
