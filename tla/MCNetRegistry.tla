---------------------------- MODULE MCNetRegistry ----------------------------
(***************************************************************************)
(* A small network for NetRegistry: a trusted network and a guest, a       *)
(* service and the VPN that leads to it.                                   *)
(***************************************************************************)
EXTENDS NetRegistry, TLC

CONSTANTS vpn, trusted, guest, dns, a1, a2, b1, b2, p1, p2, udp

MCKindOf == vpn :> "vpn" @@ trusted :> "network" @@ guest :> "network" @@ dns :> "service"

NoRefs == [r \in Roles |-> NoRef]
Draft(alias, body, refs) == [alias |-> alias, binding |-> [body |-> body, refs |-> refs]]

\* The alias of the trusted network may pass to the guest.
MCDrafts ==
    vpn :> {Draft(a1, b1, NoRefs)}
    @@ trusted :> {Draft(a1, b1, NoRefs), Draft(a2, b1, NoRefs)}
    @@ guest :> {Draft(a1, b2, NoRefs)}
    @@ dns :> {Draft(a1, b1, [NoRefs EXCEPT !["vpn"] = AnyRevision(vpn)])}

Rule(source, path) == [decision |-> "allow", path |-> path,
                       tuples |-> {[source |-> source, endpoint |-> dns, scope |-> udp]}]

\* p1 admits the trusted network through the VPN; p2 admits the
\* guest directly, or collides with p1 if that names the same tuple.
MCRuleDrafts == p1 :> {Rule(trusted, vpn)}
                @@ p2 :> {Rule(guest, NoRef), Rule(trusted, NoRef)}

MCMaxRevision == vpn :> 2 @@ trusted :> 1 @@ guest :> 1 @@ dns :> 2 @@ p1 :> 2 @@ p2 :> 1
=============================================================================
