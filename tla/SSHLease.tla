------------------------------ MODULE SSHLease ------------------------------
(***************************************************************************)
(* The SSH lease service (internal/sshaccess/lease.go) behind its gateway  *)
(* handlers (internal/gateway/ssh.go).                                     *)
(*                                                                         *)
(* Every handler validates its token, loads config.json into a private     *)
(* snapshot and then runs transactions: read leases.json under a file      *)
(* lock, change the state in memory, replace the file.  Two other files    *)
(* change under the handlers' feet: config.json (the administrator) and    *)
(* the token store (other processes).  Issuing a certificate keeps the     *)
(* lock across three steps: reserve a serial and save, sign, check again   *)
(* and save.  Any step can fail and the gateway can die between two steps. *)
(*                                                                         *)
(* One host and role is modelled; a policy stands for all that scopeDigest *)
(* covers, and two policies have one digest only when they are equal.      *)
(* "objective" stands for the fields of a request that a retry must repeat *)
(* (host, role, objective, purpose, agent class).                          *)
(***************************************************************************)
EXTENDS Naturals

CONSTANTS Handlers,       \* requests the gateway can be serving at once
          Tokens,         \* app tokens; Actor.ID is the token's hash
          Users,          \* tokens whose scopes include ssh:use
          Approvers,      \* tokens whose scopes include ssh:approve
          Keys,           \* client public keys (by fingerprint)
          Objectives,     \* what a lease is asked for
          LeaseIds,       \* random lease identities, bounded
          Policies,       \* the contents config.json can have for the role
          Windows,        \* durations a request can ask for
          MaxSerial,      \* last serial: ^uint64(0) in the code
          MaxTime,        \* bound on the clock
          Revocable,      \* bound: the tokens whose acceptance changes
          NoLease, NoPolicy, NoRequest, NoCert, Nobody, None

\* A policy: how each requester may enter ("none" for all: no such role), and the limits
\* in seconds.  ceiling is RequesterMaxLease, 0 where the requester has none.
PolicyType == [mode : [Tokens -> {"none", "approval", "preapproved"}],
               explicit : BOOLEAN, maxLease : Nat, certTTL : Nat, certCap : Nat,
               ceiling : [Tokens -> Nat]]

VARIABLES
    leases,      \* leases.json: lease of every identity, or NoLease
    issuances,   \* leases.json: the certificates recorded
    nextSerial,  \* leases.json: the last serial reserved
    lock,        \* holder of leases.lock across an issue, or Nobody
    config,      \* config.json: the policy of the role, or NoPolicy (unreadable)
    valid,       \* the tokens ValidateSSHToken accepts
    now,         \* the clock
    pc,          \* where each handler is
    req,         \* the request each handler serves
    draft,       \* the certificate an issuing handler is making
    signed       \* history: every certificate the signer ever made

disk == <<leases, issuances, nextSerial>>
env == <<config, valid, now>>
vars == <<leases, issuances, nextSerial, lock, config, valid, now, pc, req, draft, signed>>

Live == {"PENDING_APPROVAL", "ACTIVE"}
Terminal == {"COMPLETED", "CANCELLED", "REVOKED", "EXPIRED"}
Status == Live \cup Terminal

Lease == [requester : Tokens, key : Keys, objective : Objectives,
          policy : Policies, hardExp : Nat, status : Status,
          approvedBy : Tokens \cup {None}]

Certificate == [lease : LeaseIds, key : Keys, serial : Nat, at : Nat, before : Nat]

Ops == {"open", "certificate", "read", "list", "approve", "complete", "cancel", "revoke"}

Request == [op : Ops, actor : Tokens, lease : LeaseIds \cup {None},
            key : Keys \cup {None}, objective : Objectives \cup {None},
            window : Nat, cfg : Policies \cup {NoPolicy}]

ASSUME SSHAssumption ==
    /\ Users \subseteq Tokens /\ Approvers \subseteq Tokens /\ Revocable \subseteq Tokens
    /\ Policies \subseteq PolicyType
    /\ Windows \subseteq Nat \ {0}
    /\ MaxSerial \in Nat /\ MaxTime \in Nat
    /\ NoPolicy \notin Policies
    /\ None \notin Tokens \cup LeaseIds \cup Keys \cup Objectives
    /\ Nobody \notin Handlers
    /\ NoLease \notin Lease /\ NoRequest \notin Request /\ NoCert \notin Certificate

TypeOK ==
    /\ leases \in [LeaseIds -> Lease \cup {NoLease}]
    /\ issuances \subseteq Certificate
    /\ nextSerial \in 0..MaxSerial
    /\ lock \in Handlers \cup {Nobody}
    /\ config \in Policies \cup {NoPolicy}
    /\ valid \subseteq Tokens
    /\ now \in 0..MaxTime
    /\ pc \in [Handlers -> {"idle", "waiting", "reserved", "signed"}]
    /\ req \in [Handlers -> Request \cup {NoRequest}]
    /\ draft \in [Handlers -> Certificate \cup {NoCert}]
    /\ signed \subseteq Certificate

-----------------------------------------------------------------------------
(* Policy and lease helpers                                                *)

Smaller(a, b) == IF a <= b THEN a ELSE b

\* role(): the requester is named by the configured role.
Allowed(p, t) == p # NoPolicy /\ p.mode[t] # "none"

\* role(): RequesterMaxLease lowers the window and the certificate ceiling.
MaxWindow(p, t) == IF p.ceiling[t] = 0 THEN p.maxLease ELSE p.ceiling[t]
CertCeiling(p, t) == IF p.ceiling[t] = 0 THEN p.certCap ELSE Smaller(p.certCap, p.ceiling[t])

NeedsApproval(p, t) == p.explicit \/ p.mode[t] # "preapproved"

Known == {id \in LeaseIds : leases[id] # NoLease}

\* expire(): what a lease is at time t, whatever its saved status says.
Expire(l, t) == IF l.status \in Live /\ l.hardExp <= t
                THEN [l EXCEPT !.status = "EXPIRED"] ELSE l

\* The token acts with ssh:approve: on the administrator's routes, and on
\* reads whenever it holds that scope.
CanApprove(r) == \/ r.op \in {"approve", "revoke"}
                 \/ r.op \in {"read", "list"} /\ r.actor \in Approvers

MaySee(r, l) == l.requester = r.actor \/ CanApprove(r)

\* svc.Authorize: the same token is still accepted for the route's scope.
Authorize(r) == r.actor \in valid

\* Fault: no transaction looks at the lock.
AlwaysFree == TRUE

Free == lock = Nobody

-----------------------------------------------------------------------------
(* The handler: token, configuration snapshot, then the operation          *)

\* The requests token t can make with some operations and arguments.
Ask(t, ops, ids, keys, objectives, windows, cfg) ==
    [op : ops, actor : {t}, lease : ids, key : keys, objective : objectives,
     window : windows, cfg : {cfg}]

\* Administration needs ssh:approve, requesting ssh:use, and reading either.  The
\* snapshot of the configuration is kept where the operation reads it.
Asks(t) ==
    (IF t \in Users
     THEN Ask(t, {"open"}, {None}, Keys, Objectives, Windows, config)
          \cup Ask(t, {"certificate"}, Known, Keys, {None}, {0}, config)
          \cup Ask(t, {"complete", "cancel"}, Known, {None}, {None}, {0}, NoPolicy)
     ELSE {})
    \cup
    (IF t \in Approvers
     THEN Ask(t, {"approve"}, Known, {None}, {None}, {0}, config)
          \cup Ask(t, {"revoke"}, Known, {None}, {None}, {0}, NoPolicy)
     ELSE {})
    \cup
    (IF t \in Users \cup Approvers
     THEN Ask(t, {"read"}, Known, {None}, {None}, {0}, NoPolicy)
          \cup Ask(t, {"list"}, {None}, {None}, Objectives \cup {None}, {0}, NoPolicy)
     ELSE {})

\* A request arrives with a valid token and the configuration is loaded.  (A
\* request that fails here is answered at once and leaves no trace.)
Begin(h) ==
    /\ pc[h] = "idle"
    /\ config # NoPolicy
    /\ \E t \in valid : \E r \in Asks(t) : req' = [req EXCEPT ![h] = r]
    /\ pc' = [pc EXCEPT ![h] = "waiting"]
    /\ UNCHANGED <<disk, env, lock, draft, signed>>

\* The handler answers and is free for another request.
Answer(h) == /\ pc' = [pc EXCEPT ![h] = "idle"]
             /\ req' = [req EXCEPT ![h] = NoRequest]
             /\ draft' = [draft EXCEPT ![h] = NoCert]

\* A handler whose transaction for one of ops can run now.
Runs(h, ops) == pc[h] = "waiting" /\ req[h].op \in ops /\ Free

\* Open succeeded with lease id: an ACTIVE lease is issued a certificate in
\* the same request, a pending one is answered.
AfterOpen(h, id, status) ==
    IF status = "ACTIVE"
    THEN /\ req' = [req EXCEPT ![h].op = "certificate", ![h].lease = id]
         /\ UNCHANGED <<pc, draft>>
    ELSE Answer(h)

-----------------------------------------------------------------------------
(* Transactions of one step: lock, read, change, save, unlock              *)

\* Fault: only live leases keep their key.
OpenNewOverDeadKey(h) ==
    LET r == req[h] IN
    /\ Runs(h, {"open"})
    /\ Allowed(r.cfg, r.actor)
    /\ \A id \in Known : leases[id].key = r.key => leases[id].status \notin Live
    /\ \E id \in LeaseIds \ Known :
         /\ leases' = [leases EXCEPT ![id] =
                         [requester |-> r.actor, key |-> r.key, objective |-> r.objective,
                          policy |-> r.cfg, hardExp |-> now + r.window,
                          status |-> "PENDING_APPROVAL", approvedBy |-> None]]
         /\ AfterOpen(h, id, "PENDING_APPROVAL")
    /\ UNCHANGED <<issuances, nextSerial, env, lock, signed>>

\* Open under a key no lease has used.
OpenNew(h) ==
    LET r == req[h] IN
    /\ Runs(h, {"open"})
    /\ Allowed(r.cfg, r.actor)
    /\ r.window <= MaxWindow(r.cfg, r.actor)
    /\ \A id \in Known : leases[id].key # r.key
    /\ \E id \in LeaseIds \ Known :
         LET status == IF NeedsApproval(r.cfg, r.actor) THEN "PENDING_APPROVAL" ELSE "ACTIVE"
             l == [requester |-> r.actor, key |-> r.key, objective |-> r.objective,
                   policy |-> r.cfg, hardExp |-> now + r.window, status |-> status,
                   approvedBy |-> None]
         IN /\ leases' = [leases EXCEPT ![id] = l]
            /\ AfterOpen(h, id, status)
    /\ UNCHANGED <<issuances, nextSerial, env, lock, signed>>

\* Open again under the key of a lease: the identical request gets the same
\* live lease back, unchanged.
OpenRetry(h) ==
    LET r == req[h] IN
    /\ Runs(h, {"open"})
    /\ Allowed(r.cfg, r.actor)
    /\ r.window <= MaxWindow(r.cfg, r.actor)
    /\ \E id \in Known :
         LET l == leases[id] IN
         /\ l.key = r.key /\ l.requester = r.actor /\ l.objective = r.objective
         /\ l.policy = r.cfg
         /\ l.status \in Live /\ now < l.hardExp
         /\ AfterOpen(h, id, l.status)
    /\ UNCHANGED <<disk, env, lock, signed>>

\* Get: expiry is decided now and saved.
Get(h) ==
    LET r == req[h] IN
    /\ Runs(h, {"read"})
    /\ MaySee(r, leases[r.lease])
    /\ leases' = [leases EXCEPT ![r.lease] = Expire(leases[r.lease], now)]
    /\ Answer(h)
    /\ UNCHANGED <<issuances, nextSerial, env, lock, signed>>

\* List: the same for every visible lease of the objective (None: of all).
List(h) ==
    LET r == req[h]
        Listed == {id \in Known : /\ MaySee(r, leases[id])
                                  /\ r.objective \in {None, leases[id].objective}}
    IN
    /\ Runs(h, {"list"})
    /\ leases' = [id \in LeaseIds |-> IF id \in Listed THEN Expire(leases[id], now)
                                                       ELSE leases[id]]
    /\ Answer(h)
    /\ UNCHANGED <<issuances, nextSerial, env, lock, signed>>

\* Fault: the requester's own approval counts.
ApproveOwn(h) ==
    LET r == req[h]
        l == Expire(leases[r.lease], now)
    IN
    /\ Runs(h, {"approve"})
    /\ Authorize(r)
    /\ l.status = "PENDING_APPROVAL"
    /\ l.policy = r.cfg
    /\ leases' = [leases EXCEPT ![r.lease] = [l EXCEPT !.status = "ACTIVE",
                                                       !.approvedBy = r.actor]]
    /\ Answer(h)
    /\ UNCHANGED <<issuances, nextSerial, env, lock, signed>>

\* Fault: the saved status is trusted and expiry not looked at.
ApproveStale(h) ==
    LET r == req[h] IN
    /\ Runs(h, {"approve"})
    /\ r.actor # leases[r.lease].requester
    /\ Authorize(r)
    /\ leases[r.lease].status = "PENDING_APPROVAL"
    /\ leases[r.lease].policy = r.cfg
    /\ leases' = [leases EXCEPT ![r.lease].status = "ACTIVE", ![r.lease].approvedBy = r.actor]
    /\ Answer(h)
    /\ UNCHANGED <<issuances, nextSerial, env, lock, signed>>

\* Approve: somebody other than the requester, in time, of the policy the
\* handler loaded.
Approve(h) ==
    LET r == req[h]
        l == Expire(leases[r.lease], now)
    IN
    /\ Runs(h, {"approve"})
    /\ r.actor # l.requester
    /\ Authorize(r)
    /\ l.status = "PENDING_APPROVAL"
    /\ l.policy = r.cfg
    /\ leases' = [leases EXCEPT ![r.lease] = [l EXCEPT !.status = "ACTIVE",
                                                       !.approvedBy = r.actor]]
    /\ Answer(h)
    /\ UNCHANGED <<issuances, nextSerial, env, lock, signed>>

\* Close: complete and cancel by the requester, revoke by an approver.  A lease
\* that has ended keeps the way it ended.
EndOf(op) == CASE op = "complete" -> "COMPLETED"
               [] op = "cancel" -> "CANCELLED"
               [] op = "revoke" -> "REVOKED"

Close(h) ==
    LET r == req[h]
        l == Expire(leases[r.lease], now)
    IN
    /\ Runs(h, {"complete", "cancel", "revoke"})
    /\ MaySee(r, l)
    /\ leases' = [leases EXCEPT ![r.lease] =
                    IF l.status \in Live THEN [l EXCEPT !.status = EndOf(r.op)] ELSE l]
    /\ Answer(h)
    /\ UNCHANGED <<issuances, nextSerial, env, lock, signed>>

\* A transaction that ends in an error saves nothing: the request is denied, the
\* state cannot be read or written, or the lock was not free within ten seconds.
Refuse(h) ==
    /\ pc[h] = "waiting"
    /\ Answer(h)
    /\ UNCHANGED <<disk, env, lock, signed>>

-----------------------------------------------------------------------------
(* Issue: one transaction that saves twice, with the signer in between     *)

\* Fault: the end of the lease does not bound the certificate.
ValidBeyondLease(r, l) == now + Smaller(r.cfg.certTTL, CertCeiling(config, r.actor))

\* End of the certificate's life: the loaded CertTTL, the ceiling of the
\* policy in force, and never later than the lease.
ValidBefore(r, l) ==
    Smaller(now + Smaller(r.cfg.certTTL, CertCeiling(config, r.actor)), l.hardExp)

\* Fault: the reserved serial is not saved before signing.
ReserveInMemory(h) ==
    LET r == req[h]
        l == Expire(leases[r.lease], now)
        c == [lease |-> r.lease, key |-> r.key, serial |-> nextSerial + 1,
              at |-> now, before |-> ValidBefore(r, l)]
    IN
    /\ Runs(h, {"certificate"})
    /\ l.requester = r.actor /\ l.status = "ACTIVE" /\ l.key = r.key
    /\ Allowed(config, r.actor) /\ Authorize(r) /\ l.policy = config
    /\ now < c.before
    /\ lock' = h
    /\ draft' = [draft EXCEPT ![h] = c]
    /\ pc' = [pc EXCEPT ![h] = "reserved"]
    /\ UNCHANGED <<disk, env, req, signed>>

\* Take the lock, check the lease against the configuration in force, reserve a
\* serial and save it.
Reserve(h) ==
    LET r == req[h]
        l == Expire(leases[r.lease], now)
        c == [lease |-> r.lease, key |-> r.key, serial |-> nextSerial + 1,
              at |-> now, before |-> ValidBefore(r, l)]
    IN
    /\ Runs(h, {"certificate"})
    /\ l.requester = r.actor
    /\ l.status = "ACTIVE"
    /\ l.key = r.key
    /\ Allowed(config, r.actor) /\ Authorize(r) /\ l.policy = config
    /\ now < c.before
    /\ nextSerial < MaxSerial
    /\ nextSerial' = nextSerial + 1
    /\ lock' = h
    /\ draft' = [draft EXCEPT ![h] = c]
    /\ pc' = [pc EXCEPT ![h] = "reserved"]
    /\ UNCHANGED <<leases, issuances, env, req, signed>>

Sign(h) ==
    /\ pc[h] = "reserved"
    /\ signed' = signed \cup {draft[h]}
    /\ pc' = [pc EXCEPT ![h] = "signed"]
    /\ UNCHANGED <<disk, env, lock, req, draft>>

\* Fault: nothing is checked after signing.
RecordUnchecked(h) ==
    /\ pc[h] = "signed"
    /\ issuances' = issuances \cup {draft[h]}
    /\ lock' = Nobody
    /\ Answer(h)
    /\ UNCHANGED <<leases, nextSerial, env, signed>>

\* Check again what may have changed while signing, record the certificate and
\* deliver it.
Record(h) ==
    /\ pc[h] = "signed"
    /\ now < draft[h].before
    /\ Authorize(req[h])
    /\ leases[draft[h].lease].policy = config
    /\ issuances' = issuances \cup {draft[h]}
    /\ lock' = Nobody
    /\ Answer(h)
    /\ UNCHANGED <<leases, nextSerial, env, signed>>

\* Fault: an error path that keeps the lock.
WithdrawLocked(h) ==
    /\ pc[h] \in {"reserved", "signed"}
    /\ Answer(h)
    /\ UNCHANGED <<disk, env, lock, signed>>

\* The signer, the second check or the second save fails: the reserved serial is
\* spent, the certificate is dropped.
Withdraw(h) ==
    /\ pc[h] \in {"reserved", "signed"}
    /\ lock' = Nobody
    /\ Answer(h)
    /\ UNCHANGED <<disk, env, signed>>

-----------------------------------------------------------------------------
(* Everything else                                                         *)

\* The gateway dies: its handlers are gone, the kernel drops the file lock, the
\* files stay as last renamed.
Crash ==
    /\ \E h \in Handlers : pc[h] # "idle"
    /\ pc' = [h \in Handlers |-> "idle"]
    /\ req' = [h \in Handlers |-> NoRequest]
    /\ draft' = [h \in Handlers |-> NoCert]
    /\ lock' = Nobody
    /\ UNCHANGED <<disk, env, signed>>

\* The administrator replaces config.json, which takes no lock.
EditConfig ==
    /\ config' \in Policies \cup {NoPolicy}
    /\ UNCHANGED <<disk, lock, valid, now, pc, req, draft, signed>>

\* A token is revoked or loses its unique name, or is accepted again once its
\* name is unique again.
ChangeTokens ==
    /\ \E t \in Revocable : valid' \in {valid \cup {t}, valid \ {t}}
    /\ UNCHANGED <<disk, lock, config, now, pc, req, draft, signed>>

Tick ==
    /\ now < MaxTime
    /\ now' = now + 1
    /\ UNCHANGED <<disk, lock, config, valid, pc, req, draft, signed>>

Init ==
    /\ leases = [id \in LeaseIds |-> NoLease]
    /\ issuances = {} /\ nextSerial = 0 /\ signed = {}
    /\ lock = Nobody
    /\ config \in Policies \cup {NoPolicy}
    /\ valid = Tokens
    /\ now = 0
    /\ pc = [h \in Handlers |-> "idle"]
    /\ req = [h \in Handlers |-> NoRequest]
    /\ draft = [h \in Handlers |-> NoCert]

Handle(h) == \/ OpenNew(h) \/ OpenRetry(h) \/ Get(h) \/ List(h) \/ Approve(h)
             \/ Close(h) \/ Refuse(h)
             \/ Reserve(h) \/ Sign(h) \/ Record(h) \/ Withdraw(h)

Environment == Crash \/ EditConfig \/ ChangeTokens \/ Tick

Next == (\E h \in Handlers : Begin(h) \/ Handle(h)) \/ Environment

Spec == Init /\ [][Next]_vars

\* A handler that has begun goes on: every wait in it is bounded (ten seconds
\* for the lock, ten for the signer).  Requests, edits, crashes and the clock are
\* under no obligation.
Fairness == \A h \in Handlers : WF_vars(Handle(h))

FairSpec == Spec /\ Fairness

-----------------------------------------------------------------------------
(* Properties                                                              *)

\* No serial is signed twice, whatever failed or crashed in between: every serial
\* signed was first saved, and the one about to be signed is new.
SerialsNeverReused ==
    /\ \A c \in signed : c.serial <= nextSerial
    /\ \A h \in Handlers : pc[h] = "reserved" =>
         /\ draft[h].serial <= nextSerial
         /\ \A c \in signed : c.serial # draft[h].serial

\* Every certificate ever signed is for the key of its lease, lives some time and
\* is dead by the end of the lease's window: renewal extends nothing.
CertificatesInsideLease ==
    \A c \in signed :
        /\ c.lease \in Known
        /\ c.key = leases[c.lease].key
        /\ c.at < c.before /\ c.before <= leases[c.lease].hardExp

\* A certificate signed under a policy that wants an approval for its requester
\* was approved by somebody else who may approve.
ApprovalHonoured ==
    \A c \in signed :
        LET l == leases[c.lease] IN
        NeedsApproval(l.policy, l.requester) => l.approvedBy \in Approvers \ {l.requester}

\* A key serves one lease, dead or alive: it cannot move to another objective.
OneLeasePerKey ==
    \A i, j \in Known : leases[i].key = leases[j].key => i = j

\* Scope, key, requester and deadline of a lease never change, an approval is
\* never withdrawn, and a lease that has ended stays as it ended.
LeaseOnlyMovesForward ==
    [][\A id \in Known :
         /\ leases'[id] # NoLease
         /\ LET l == leases[id]
                m == leases'[id] IN
              /\ m = [l EXCEPT !.status = m.status, !.approvedBy = m.approvedBy]
              /\ l.status \in Terminal => m.status = l.status
              /\ l.status = "ACTIVE" => m.status # "PENDING_APPROVAL"
              /\ m.approvedBy # l.approvedBy => l.status = "PENDING_APPROVAL"]_vars

\* Completing or revoking stops new signing at once: nothing is signed or recorded
\* under a lease that has ended, whichever transactions were under way.
EndStopsSigning ==
    [][\A c \in (signed' \ signed) \cup (issuances' \ issuances) :
         leases[c.lease].status = "ACTIVE"]_vars

\* What is delivered is authorised at delivery: in time, under the configuration in
\* force and a token still accepted, with a serial above every one delivered.
IssuanceAuthorised ==
    [][\A c \in issuances' \ issuances :
         LET l == leases[c.lease] IN
         /\ now < l.hardExp
         /\ l.policy = config /\ Allowed(config, l.requester)
         /\ l.requester \in valid
         /\ \A i \in issuances : i.serial < c.serial]_vars

\* The lock is not kept for ever: a failed issue does not stop the service.
LockIsReleased == lock # Nobody ~> lock = Nobody

\* The service implements the abstract lease authority.
Authority == INSTANCE LeaseAuthority
             WITH leases <- leases, issuances <- issuances, now <- now

ImplementsAuthority == Authority!ASpec
=============================================================================
