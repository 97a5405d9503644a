--------------------------- MODULE LeaseAuthority ---------------------------
(***************************************************************************)
(* What the SSH lease service promises, with no files, locks, processes or *)
(* signers: leases that only move forward through their life cycle, and    *)
(* certificates that are each issued in one instant, under an ACTIVE       *)
(* lease, with a serial above every earlier one.  SSHLease is shown to     *)
(* implement it.                                                           *)
(***************************************************************************)
EXTENDS Naturals

CONSTANTS LeaseIds,    \* identities a lease can have
          Tokens,      \* the app tokens that can ask
          Keys,        \* client public keys
          Objectives,  \* what a lease was asked for
          Policies,    \* scopes of a host's role
          NoLease,     \* value of an identity not yet taken
          None         \* value of an absent approver

VARIABLES leases,      \* LeaseIds -> lease, or NoLease
          issuances,   \* every certificate the service has recorded
          now          \* the clock, in seconds

avars == <<leases, issuances, now>>

Live == {"PENDING_APPROVAL", "ACTIVE"}
Terminal == {"COMPLETED", "CANCELLED", "REVOKED", "EXPIRED"}
Status == Live \cup Terminal

Lease == [requester : Tokens, key : Keys, objective : Objectives,
          policy : Policies, hardExp : Nat, status : Status,
          approvedBy : Tokens \cup {None}]

Certificate == [lease : LeaseIds, key : Keys, serial : Nat, at : Nat, before : Nat]

Known == {id \in LeaseIds : leases[id] # NoLease}

\* The policy lets this requester in only after a second person's decision.
NeedsApproval(p, t) == p.explicit \/ p.mode[t] # "preapproved"

AInit == /\ leases = [id \in LeaseIds |-> NoLease]
         /\ issuances = {}
         /\ now = 0

\* A lease starts under a key no lease has had, pending or, where the
\* policy waives approval, active.
Grant(id) ==
    /\ leases[id] = NoLease
    /\ LET l == leases'[id] IN
         /\ l \in Lease
         /\ \A other \in Known : leases[other].key # l.key
         /\ l.approvedBy = None
         /\ now < l.hardExp
         /\ \/ l.status = "PENDING_APPROVAL"
            \/ l.status = "ACTIVE" /\ ~NeedsApproval(l.policy, l.requester)
    /\ leases' = [leases EXCEPT ![id] = leases'[id]]
    /\ UNCHANGED <<issuances, now>>

\* A pending lease becomes active by the decision of somebody else, in time.
Decide(id) ==
    /\ id \in Known
    /\ leases[id].status = "PENDING_APPROVAL"
    /\ now < leases[id].hardExp
    /\ \E t \in Tokens \ {leases[id].requester} :
         leases' = [leases EXCEPT ![id].status = "ACTIVE", ![id].approvedBy = t]
    /\ UNCHANGED <<issuances, now>>

\* A live lease ends for good.
Terminate(id) ==
    /\ id \in Known
    /\ leases[id].status \in Live
    /\ \E s \in Terminal : leases' = [leases EXCEPT ![id].status = s]
    /\ UNCHANGED <<issuances, now>>

\* Any of the leases whose window is over are marked so.
Lapse ==
    /\ \E S \in SUBSET {id \in Known : leases[id].status \in Live
                                        /\ leases[id].hardExp <= now} :
         leases' = [id \in LeaseIds |->
                      IF id \in S THEN [leases[id] EXCEPT !.status = "EXPIRED"]
                                  ELSE leases[id]]
    /\ UNCHANGED <<issuances, now>>

\* A certificate: under an active lease and its key, alive now and dead by the
\* end of the lease, numbered above every certificate before it.
Certify(c) ==
    /\ c \in Certificate
    /\ c.lease \in Known
    /\ LET l == leases[c.lease] IN
         /\ l.status = "ACTIVE"
         /\ c.key = l.key
         /\ c.before <= l.hardExp
    /\ now < c.before
    /\ \A i \in issuances : i.serial < c.serial
    /\ issuances' = issuances \cup {c}
    /\ UNCHANGED <<leases, now>>

Pass == now' = now + 1 /\ UNCHANGED <<leases, issuances>>

ANext == \/ \E id \in LeaseIds : Grant(id) \/ Decide(id) \/ Terminate(id)
         \/ Lapse
         \/ \E c \in issuances' : Certify(c)
         \/ Pass

ASpec == AInit /\ [][ANext]_avars
=============================================================================
