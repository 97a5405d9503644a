--------------------------- MODULE SSHLeaseProofs ---------------------------
(***************************************************************************)
(* Theorems about SSHLease for every number of handlers, tokens, keys,     *)
(* leases and policies, every serial limit and every duration.             *)
(*                                                                         *)
(* The argument: whatever a handler does, a known lease only evolves       *)
(* (EvolveStep), and while a handler is between its two saves it holds the *)
(* lock and its draft still fits its lease (DraftOK).                      *)
(***************************************************************************)
EXTENDS SSHLease, TLAPS

-----------------------------------------------------------------------------
(* The inductive invariant                                                 *)

\* The request of a busy handler has the fields its operation reads.
RequestFits(r) ==
    /\ r \in Request
    /\ r.op = "open" => r.key \in Keys /\ r.objective \in Objectives
                        /\ r.cfg \in Policies /\ r.window > 0
    /\ r.op = "certificate" => r.key \in Keys /\ r.cfg \in Policies
    /\ r.op = "approve" => r.cfg \in Policies /\ r.actor \in Approvers
    /\ r.op \in {"certificate", "read", "approve", "complete", "cancel", "revoke"}
         => r.lease \in Known

RequestsFit == \A h \in Handlers : pc[h] # "idle" => RequestFits(req[h])

\* The certificate of a lease is for its key and inside its window.
Inside(c) == /\ c.lease \in Known
             /\ c.key = leases[c.lease].key
             /\ c.at < c.before /\ c.before <= leases[c.lease].hardExp

Approved(l) == NeedsApproval(l.policy, l.requester) => l.approvedBy \in Approvers \ {l.requester}

\* Between its two saves a handler holds the lock, its draft fits an active
\* approved lease, and its serial is the last one reserved.
DraftFits(h) ==
    LET l == leases[draft[h].lease] IN
    /\ lock = h
    /\ draft[h] \in Certificate
    /\ Inside(draft[h])
    /\ l.status = "ACTIVE"
    /\ l.requester = req[h].actor
    /\ Allowed(l.policy, req[h].actor)
    /\ draft[h].serial = nextSerial
    /\ \A c \in issuances : c.serial < draft[h].serial
    /\ pc[h] = "reserved" => \A c \in signed : c.serial < draft[h].serial
    /\ pc[h] = "signed" => draft[h] \in signed

Busy(h) == pc[h] \in {"reserved", "signed"}

DraftOK == \A h \in Handlers : Busy(h) => DraftFits(h)

Serials == /\ \A c \in signed : c.serial <= nextSerial
           /\ issuances \subseteq signed

ActiveApproved == \A id \in Known : leases[id].status = "ACTIVE" => Approved(leases[id])

IInv == /\ TypeOK
        /\ RequestsFit
        /\ DraftOK
        /\ Serials
        /\ ActiveApproved
        /\ OneLeasePerKey
        /\ CertificatesInsideLease
        /\ ApprovalHonoured

-----------------------------------------------------------------------------
(* Leases only evolve                                                      *)

\* What may become of a lease l in one step.
Evolves(l, m) ==
    /\ m \in Lease
    /\ m.requester = l.requester /\ m.key = l.key /\ m.objective = l.objective
    /\ m.policy = l.policy /\ m.hardExp = l.hardExp
    /\ l.status \in Terminal => m.status = l.status
    /\ l.status = "ACTIVE" => m.status # "PENDING_APPROVAL"
    /\ m.approvedBy # l.approvedBy
         => l.status = "PENDING_APPROVAL" /\ m.approvedBy \in Approvers \ {l.requester}
    /\ m.status = "ACTIVE" /\ l.status # "ACTIVE"
         => l.status = "PENDING_APPROVAL" /\ m.approvedBy \in Approvers \ {l.requester}

\* expire() touches the status alone, and only ends what is live.
LEMMA ExpireFacts ==
    ASSUME NEW l \in Lease, NEW t \in Nat
    PROVE  /\ Expire(l, t) \in Lease
           /\ Evolves(l, Expire(l, t))
           /\ Expire(l, t).status = "ACTIVE" => Expire(l, t) = l
           /\ Expire(l, t).status \in Live => Expire(l, t) = l /\ t < l.hardExp
           /\ l.status \in Live /\ t < l.hardExp => Expire(l, t) = l
<1>1. CASE l.status \in Live /\ l.hardExp <= t
  BY <1>1 DEF Expire, Lease, Evolves, Live, Terminal, Status
<1>2. CASE ~(l.status \in Live /\ l.hardExp <= t)
  BY <1>2 DEF Expire, Lease, Evolves, Live, Terminal, Status
<1> QED BY <1>1, <1>2

LEMMA StayFacts ==
    ASSUME NEW l \in Lease
    PROVE  Evolves(l, l)
BY DEF Evolves, Lease

LEMMA NoLeaseFact == NoLease \notin Lease
BY SSHAssumption

LEMMA KnownFacts ==
    ASSUME TypeOK, NEW id \in Known
    PROVE  id \in LeaseIds /\ leases[id] \in Lease /\ leases[id] # NoLease
BY DEF TypeOK, Known

-----------------------------------------------------------------------------
(* What each transaction does to the leases                                *)

\* The lease Open creates, and where.
LEMMA OpenNewFacts ==
    ASSUME TypeOK, RequestsFit, NEW h \in Handlers, OpenNew(h)
    PROVE  \E id \in LeaseIds \ Known : \E l \in Lease :
             /\ leases' = [leases EXCEPT ![id] = l]
             /\ \A other \in Known : leases[other].key # l.key
             /\ l.approvedBy = None /\ now < l.hardExp
             /\ \/ l.status = "PENDING_APPROVAL"
                \/ l.status = "ACTIVE" /\ ~NeedsApproval(l.policy, l.requester)
             /\ AfterOpen(h, id, l.status)
<1> DEFINE r == req[h]
           status == IF NeedsApproval(r.cfg, r.actor) THEN "PENDING_APPROVAL" ELSE "ACTIVE"
           l == [requester |-> r.actor, key |-> r.key, objective |-> r.objective,
                 policy |-> r.cfg, hardExp |-> now + r.window, status |-> status,
                 approvedBy |-> None]
<1>1. r.op = "open" /\ RequestFits(r)
  BY DEF OpenNew, Runs, RequestsFit
<1>2. r.actor \in Tokens /\ r.key \in Keys /\ r.objective \in Objectives
      /\ r.cfg \in Policies /\ r.window \in Nat /\ r.window > 0 /\ now \in Nat
  BY <1>1 DEF RequestFits, Request, TypeOK
<1>3. l \in Lease
  <2>1. status \in Status
    BY Zenon DEF Status, Live
  <2>2. now + r.window \in Nat
    BY <1>2
  <2> HIDE DEF status, r
  <2> QED BY <1>2, <2>1, <2>2 DEF Lease
<1>4. now < l.hardExp
  BY <1>2
<1>5. PICK id \in LeaseIds \ Known : /\ leases' = [leases EXCEPT ![id] = l]
                                      /\ AfterOpen(h, id, status)
  BY DEF OpenNew
<1>6. \A other \in Known : leases[other].key # l.key
  BY DEF OpenNew
<1>7. \/ l.status = "PENDING_APPROVAL"
      \/ l.status = "ACTIVE" /\ ~NeedsApproval(l.policy, l.requester)
  OBVIOUS
<1>8. l.approvedBy = None /\ l.status = status
  OBVIOUS
<1> HIDE DEF l, status
<1> QED BY <1>3, <1>4, <1>5, <1>6, <1>7, <1>8

\* One lease takes an evolved value.
LEMMA OneEvolves ==
    ASSUME TypeOK, NEW id \in Known, NEW m, Evolves(leases[id], m),
           leases' = [leases EXCEPT ![id] = m]
    PROVE  \A k \in LeaseIds : /\ k \in Known => Evolves(leases[k], leases'[k])
                               /\ k \notin Known => leases'[k] = leases[k]
<1> SUFFICES ASSUME NEW k \in LeaseIds
             PROVE  /\ k \in Known => Evolves(leases[k], leases'[k])
                    /\ k \notin Known => leases'[k] = leases[k]
  OBVIOUS
<1>1. id \in LeaseIds /\ leases \in [LeaseIds -> Lease \cup {NoLease}]
  BY KnownFacts DEF TypeOK
<1>2. CASE k = id
  BY <1>1, <1>2
<1>3. CASE k # id
  BY <1>1, <1>3, KnownFacts, StayFacts
<1> QED BY <1>2, <1>3

\* Transactions on existing leases.
LEMMA TouchEvolves ==
    ASSUME TypeOK, RequestsFit, NEW h \in Handlers,
           Get(h) \/ List(h) \/ Approve(h) \/ Close(h)
    PROVE  \A k \in LeaseIds : /\ k \in Known => Evolves(leases[k], leases'[k])
                               /\ k \notin Known => leases'[k] = leases[k]
<1> DEFINE r == req[h]
           Goal == \A k \in LeaseIds : /\ k \in Known => Evolves(leases[k], leases'[k])
                                       /\ k \notin Known => leases'[k] = leases[k]
<1>0. now \in Nat
  BY DEF TypeOK
<1>1. ASSUME Get(h) PROVE Goal
  <2>1. r.lease \in Known
    BY <1>1 DEF Get, Runs, RequestsFit, RequestFits
  <2>2. Evolves(leases[r.lease], Expire(leases[r.lease], now))
    BY <1>0, <2>1, KnownFacts, ExpireFacts
  <2>3. leases' = [leases EXCEPT ![r.lease] = Expire(leases[r.lease], now)]
    BY <1>1 DEF Get
  <2> QED BY <2>1, <2>2, <2>3, OneEvolves
<1>2. ASSUME List(h) PROVE Goal
  <2>1. PICK S \in SUBSET Known :
          leases' = [k \in LeaseIds |-> IF k \in S THEN Expire(leases[k], now) ELSE leases[k]]
    BY <1>2 DEF List
  <2> SUFFICES ASSUME NEW k \in LeaseIds
               PROVE  /\ k \in Known => Evolves(leases[k], leases'[k])
                      /\ k \notin Known => leases'[k] = leases[k]
    OBVIOUS
  <2>2. CASE k \in S
    BY <1>0, <2>1, <2>2, KnownFacts, ExpireFacts
  <2>3. CASE k \notin S
    BY <2>1, <2>3, KnownFacts, StayFacts
  <2> QED BY <2>2, <2>3
<1>3. ASSUME Approve(h) PROVE Goal
  <2> DEFINE l == Expire(leases[r.lease], now)
             m == [l EXCEPT !.status = "ACTIVE", !.approvedBy = r.actor]
  <2>1. r.lease \in Known /\ r.actor \in Approvers /\ r.actor \in Tokens
    BY <1>3 DEF Approve, Runs, RequestsFit, RequestFits, Request
  <2>2. leases[r.lease] \in Lease /\ l.status = "PENDING_APPROVAL" /\ r.actor # l.requester
    BY <1>3, <2>1, KnownFacts DEF Approve
  <2>3. l = leases[r.lease]
    BY <1>0, <2>2, ExpireFacts DEF Live
  <2>4. Evolves(leases[r.lease], m)
    BY <2>1, <2>2, <2>3 DEF Evolves, Lease, Status, Live, Terminal
  <2>5. leases' = [leases EXCEPT ![r.lease] = m]
    BY <1>3 DEF Approve
  <2> QED BY <2>1, <2>4, <2>5, OneEvolves
<1>4. ASSUME Close(h) PROVE Goal
  <2> DEFINE l == Expire(leases[r.lease], now)
             m == IF l.status \in Live THEN [l EXCEPT !.status = EndOf(r.op)] ELSE l
  <2>1. r.lease \in Known /\ r.op \in {"complete", "cancel", "revoke"}
    BY <1>4 DEF Close, Runs, RequestsFit, RequestFits
  <2>2. leases[r.lease] \in Lease
    BY <2>1, KnownFacts
  <2>3. Evolves(leases[r.lease], m)
    <3>1. CASE l.status \in Live
      <4>1. l = leases[r.lease] /\ EndOf(r.op) \in Terminal \ {"EXPIRED"}
        BY <1>0, <2>1, <2>2, <3>1, ExpireFacts DEF EndOf, Terminal
      <4> QED BY <2>2, <3>1, <4>1 DEF Evolves, Lease, Status, Live, Terminal
    <3>2. CASE l.status \notin Live
      BY <1>0, <2>2, <3>2, ExpireFacts
    <3> QED BY <3>1, <3>2
  <2>4. leases' = [leases EXCEPT ![r.lease] = m]
    BY <1>4 DEF Close
  <2> QED BY <2>1, <2>3, <2>4, OneEvolves
<1> QED BY <1>1, <1>2, <1>3, <1>4

\* A lease that appears in a step.
Fresh(m) ==
    /\ m \in Lease
    /\ \A other \in Known : leases[other].key # m.key
    /\ m.approvedBy = None /\ now < m.hardExp
    /\ \/ m.status = "PENDING_APPROVAL"
       \/ m.status = "ACTIVE" /\ ~NeedsApproval(m.policy, m.requester)

\* In any step the known leases evolve and at most one fresh one appears.
LEMMA EvolveStep ==
    ASSUME TypeOK, RequestsFit, [Next]_vars
    PROVE  /\ leases' \in [LeaseIds -> Lease \cup {NoLease}]
           /\ \A id \in Known : id \in Known' /\ Evolves(leases[id], leases'[id])
           /\ \A id \in Known' : id \notin Known => Fresh(leases'[id])
           /\ \A i, j \in Known' : i \notin Known /\ j \notin Known => i = j
<1> DEFINE Goal ==
           /\ leases' \in [LeaseIds -> Lease \cup {NoLease}]
           /\ \A id \in Known : id \in Known' /\ Evolves(leases[id], leases'[id])
           /\ \A id \in Known' : id \notin Known => Fresh(leases'[id])
           /\ \A i, j \in Known' : i \notin Known /\ j \notin Known => i = j
<1>1. ASSUME NEW h \in Handlers, OpenNew(h) PROVE Goal
  <2>1. PICK id \in LeaseIds \ Known, l \in Lease :
          leases' = [leases EXCEPT ![id] = l] /\ Fresh(l)
    BY <1>1, OpenNewFacts DEF Fresh
  <2>2. leases' \in [LeaseIds -> Lease \cup {NoLease}]
    BY <2>1 DEF TypeOK
  <2>3. \A k \in LeaseIds : leases'[k] = IF k = id THEN l ELSE leases[k]
    BY <2>1 DEF TypeOK
  <2>4. l # NoLease
    BY <2>1, SSHAssumption
  <2>5. Known' = Known \cup {id}
    BY <2>1, <2>3, <2>4 DEF Known
  <2>6. \A k \in Known : k # id /\ leases'[k] = leases[k]
    BY <2>1, <2>3 DEF Known
  <2>7. \A k \in Known : Evolves(leases[k], leases'[k])
    BY <2>6, KnownFacts, StayFacts
  <2> QED BY <2>1, <2>2, <2>3, <2>5, <2>7
<1>2. ASSUME NEW h \in Handlers, Get(h) \/ List(h) \/ Approve(h) \/ Close(h) PROVE Goal
  <2>1. \A k \in LeaseIds : /\ k \in Known => Evolves(leases[k], leases'[k])
                            /\ k \notin Known => leases'[k] = leases[k]
    BY <1>2, TouchEvolves
  <2>2. leases \in [LeaseIds -> Lease \cup {NoLease}]
    BY DEF TypeOK
  <2>3. \A k \in LeaseIds : leases'[k] \in Lease \cup {NoLease} /\ (k \in Known => leases'[k] # NoLease)
    <3> SUFFICES ASSUME NEW k \in LeaseIds
                 PROVE  leases'[k] \in Lease \cup {NoLease} /\ (k \in Known => leases'[k] # NoLease)
      OBVIOUS
    <3>1. CASE k \in Known
      <4>1. leases'[k] \in Lease
        BY <2>1, <3>1 DEF Evolves
      <4> QED BY <4>1, NoLeaseFact
    <3>2. CASE k \notin Known
      BY <2>1, <2>2, <3>2
    <3> QED BY <3>1, <3>2
  <2>4. leases' = [k \in LeaseIds |-> leases'[k]]
    BY <1>2, <2>2 DEF Get, List, Approve, Close
  <2>5. leases' \in [LeaseIds -> Lease \cup {NoLease}]
    BY <2>3, <2>4
  <2>6. Known' = Known
    <3>1. \A k \in LeaseIds : leases'[k] # NoLease <=> leases[k] # NoLease
      BY <2>1, <2>3 DEF Known
    <3> QED BY <3>1 DEF Known
  <2>7. \A k \in Known : k \in Known' /\ Evolves(leases[k], leases'[k])
    BY <2>1, <2>6 DEF Known
  <2> QED BY <2>5, <2>6, <2>7
<1>3. ASSUME leases' = leases PROVE Goal
  BY <1>3, KnownFacts, StayFacts DEF TypeOK, Known
<1>4. ASSUME NEW h \in Handlers, Begin(h) \/ OpenRetry(h) \/ Refuse(h) \/ Reserve(h)
               \/ Sign(h) \/ Record(h) \/ Withdraw(h)
      PROVE  leases' = leases
  BY <1>4 DEF Begin, OpenRetry, Refuse, Reserve, Sign, Record, Withdraw, disk
<1>5. ASSUME Environment PROVE leases' = leases
  BY <1>5 DEF Environment, Crash, EditConfig, ChangeTokens, Tick, disk
<1>6. ASSUME UNCHANGED vars PROVE leases' = leases
  BY <1>6 DEF vars
<1> QED BY <1>1, <1>2, <1>3, <1>4, <1>5, <1>6 DEF Next, Handle

-----------------------------------------------------------------------------
(* The invariant is inductive                                              *)

\* Idle handlers hold nothing after they answer.
LEMMA AnswerType ==
    ASSUME TypeOK, NEW h \in Handlers, Answer(h)
    PROVE  /\ pc' \in [Handlers -> {"idle", "waiting", "reserved", "signed"}]
           /\ req' \in [Handlers -> Request \cup {NoRequest}]
           /\ draft' \in [Handlers -> Certificate \cup {NoCert}]
BY DEF Answer, TypeOK

LEMMA AfterOpenType ==
    ASSUME TypeOK, RequestsFit, NEW h \in Handlers, pc[h] = "waiting",
           NEW id \in LeaseIds, NEW s, AfterOpen(h, id, s)
    PROVE  /\ pc' \in [Handlers -> {"idle", "waiting", "reserved", "signed"}]
           /\ req' \in [Handlers -> Request \cup {NoRequest}]
           /\ draft' \in [Handlers -> Certificate \cup {NoCert}]
<1>1. CASE s = "ACTIVE"
  <2>1. req' = [req EXCEPT ![h].op = "certificate", ![h].lease = id]
        /\ pc' = pc /\ draft' = draft
    BY <1>1 DEF AfterOpen
  <2>2. req[h] \in Request
    BY DEF RequestsFit, RequestFits
  <2>3. [req[h] EXCEPT !.op = "certificate", !.lease = id] \in Request
    BY <2>2 DEF Request, Ops
  <2> QED BY <2>1, <2>3 DEF TypeOK
<1>2. CASE s # "ACTIVE"
  BY <1>2, AnswerType DEF AfterOpen
<1> QED BY <1>1, <1>2

\* The draft made by Reserve.
LEMMA ReserveFacts ==
    ASSUME TypeOK, RequestsFit, NEW h \in Handlers, Reserve(h)
    PROVE  LET id == req[h].lease
               l == leases[id]
           IN /\ id \in Known
              /\ l.status = "ACTIVE" /\ l.requester = req[h].actor
              /\ Allowed(l.policy, req[h].actor)
              /\ draft' = [draft EXCEPT ![h] = draft'[h]]
              /\ draft'[h] \in Certificate
              /\ draft'[h].lease = id /\ draft'[h].key = l.key
              /\ draft'[h].serial = nextSerial + 1
              /\ draft'[h].at < draft'[h].before /\ draft'[h].before <= l.hardExp
              /\ nextSerial' \in 0..MaxSerial
<1> DEFINE r == req[h]
           l == leases[r.lease]
           e == Expire(l, now)
           ttl == Smaller(r.cfg.certTTL, CertCeiling(config, r.actor))
           c == [lease |-> r.lease, key |-> r.key, serial |-> nextSerial + 1,
                 at |-> now, before |-> ValidBefore(r, e)]
<1>1. r.op = "certificate" /\ RequestFits(r) /\ pc[h] = "waiting"
  BY DEF Reserve, Runs, RequestsFit
<1>2. r.lease \in Known /\ r.lease \in LeaseIds /\ r.key \in Keys /\ r.cfg \in Policies
      /\ r.actor \in Tokens
  BY <1>1, KnownFacts DEF RequestFits, Request
<1>3. l \in Lease
  BY <1>2, KnownFacts
<1>4. now \in Nat /\ nextSerial \in Nat
  BY SSHAssumption DEF TypeOK
<1>5. e = l
  <2>1. e.status = "ACTIVE"
    BY DEF Reserve
  <2> QED BY <1>3, <1>4, <2>1, ExpireFacts
<1>6. /\ l.status = "ACTIVE" /\ l.requester = r.actor /\ l.key = r.key
      /\ l.policy = config /\ Allowed(config, r.actor)
  BY <1>5 DEF Reserve
<1>7. draft' = [draft EXCEPT ![h] = c] /\ now < c.before /\ nextSerial < MaxSerial
      /\ nextSerial' = nextSerial + 1
  BY DEF Reserve
<1>8. config \in PolicyType /\ r.cfg \in PolicyType
  BY <1>2, <1>6, SSHAssumption DEF TypeOK, Allowed
<1>9. ttl \in Nat
  BY <1>2, <1>8 DEF PolicyType, Smaller, CertCeiling
<1>10. ValidBefore(r, l) \in Nat /\ ValidBefore(r, l) <= l.hardExp
  BY <1>3, <1>4, <1>9 DEF ValidBefore, Smaller, Lease
<1>11. c \in Certificate
  BY <1>2, <1>4, <1>5, <1>10 DEF Certificate
<1>12. draft'[h] = c
  BY <1>7 DEF TypeOK
<1>13. nextSerial' \in 0..MaxSerial
  BY <1>4, <1>7, SSHAssumption
<1>14. c.lease = r.lease /\ c.key = r.key /\ c.serial = nextSerial + 1
       /\ c.at = now /\ c.before = ValidBefore(r, l)
  BY <1>5
<1> HIDE DEF c
<1> QED BY <1>2, <1>6, <1>7, <1>10, <1>11, <1>12, <1>13, <1>14

\* Whatever a token can ask for fits.
LEMMA AsksFit ==
    ASSUME NEW t \in Tokens, config \in Policies, NEW r \in Asks(t)
    PROVE  RequestFits(r)
<1>0. Known \subseteq LeaseIds /\ Windows \subseteq Nat \ {0} /\ 0 \in Nat
  BY SSHAssumption DEF Known
<1>00. \A w \in Windows : w \in Nat /\ w > 0
  <2>1. \A w \in Nat \ {0} : w > 0
    OBVIOUS
  <2> QED BY <1>0, <2>1
<1> USE DEF RequestFits, Request, Ops, Ask
<1>1. CASE r \in Ask(t, {"open"}, {None}, Keys, Objectives, Windows, config)
  <2>1. r.op = "open" /\ r.window \in Windows /\ r.key \in Keys
        /\ r.objective \in Objectives /\ r.cfg \in Policies
    BY <1>1
  <2>2. r.window \in Nat /\ r.window > 0
    BY <1>00, <2>1
  <2>3. r \in Request
    BY <1>0, <1>1
  <2> QED BY <2>1, <2>2, <2>3
<1>2. CASE r \in Ask(t, {"certificate"}, Known, Keys, {None}, {0}, config)
  BY <1>0, <1>2
<1>3. CASE r \in Ask(t, {"complete", "cancel"}, Known, {None}, {None}, {0}, NoPolicy)
  BY <1>0, <1>3
<1>4. CASE t \in Approvers /\ r \in Ask(t, {"approve"}, Known, {None}, {None}, {0}, config)
  BY <1>0, <1>4
<1>5. CASE r \in Ask(t, {"revoke"}, Known, {None}, {None}, {0}, NoPolicy)
  BY <1>0, <1>5
<1>6. CASE r \in Ask(t, {"read"}, Known, {None}, {None}, {0}, NoPolicy)
  BY <1>0, <1>6
<1>7. CASE r \in Ask(t, {"list"}, {None}, {None}, Objectives \cup {None}, {0}, NoPolicy)
  BY <1>0, <1>7
<1> USE DEF Asks
<1> HIDE DEF RequestFits, Request, Ops, Ask
<1> QED BY <1>1, <1>2, <1>3, <1>4, <1>5, <1>6, <1>7

\* The types hold after every step.
LEMMA TypeStep == ASSUME IInv, [Next]_vars PROVE TypeOK'
<1> USE DEF IInv
<1>1. leases' \in [LeaseIds -> Lease \cup {NoLease}]
  BY EvolveStep
<1>2. ASSUME NEW h \in Handlers, Begin(h) PROVE TypeOK'
  <2>0. PICK t \in valid : \E r \in Asks(t) : req' = [req EXCEPT ![h] = r]
    BY <1>2 DEF Begin
  <2>1. PICK r \in Asks(t) : req' = [req EXCEPT ![h] = r]
    BY <2>0
  <2>2. r \in Request
    BY <1>2, <2>1, AsksFit DEF Begin, TypeOK, RequestFits
  <2> QED BY <1>1, <1>2, <2>1, <2>2 DEF Begin, TypeOK, disk, env
<1>3. ASSUME NEW h \in Handlers, OpenNew(h) \/ OpenRetry(h) PROVE TypeOK'
  <2>0. PICK id \in LeaseIds : \E s : AfterOpen(h, id, s)
    BY <1>3 DEF OpenNew, OpenRetry, Known
  <2>1. PICK s : AfterOpen(h, id, s)
    BY <2>0
  <2>2. pc[h] = "waiting"
    BY <1>3 DEF OpenNew, OpenRetry, Runs
  <2>3. UNCHANGED <<issuances, nextSerial, env, lock, signed>>
    BY <1>3 DEF OpenNew, OpenRetry, disk
  <2> QED BY <1>1, <2>1, <2>2, <2>3, AfterOpenType DEF TypeOK, env
<1>4. ASSUME NEW h \in Handlers, Get(h) \/ List(h) \/ Approve(h) \/ Close(h) \/ Refuse(h)
      PROVE  TypeOK'
  <2>1. Answer(h) /\ UNCHANGED <<issuances, nextSerial, env, lock, signed>>
    BY <1>4 DEF Get, List, Approve, Close, Refuse, disk
  <2> QED BY <1>1, <2>1, AnswerType DEF TypeOK, env
<1>5. ASSUME NEW h \in Handlers, Reserve(h) PROVE TypeOK'
  <2>1. draft' \in [Handlers -> Certificate \cup {NoCert}] /\ nextSerial' \in 0..MaxSerial
    BY <1>5, ReserveFacts DEF TypeOK
  <2> QED BY <1>1, <1>5, <2>1 DEF Reserve, TypeOK, env
<1>6. ASSUME NEW h \in Handlers, Sign(h) PROVE TypeOK'
  <2>1. draft[h] \in Certificate
    BY <1>6 DEF Sign, DraftOK, Busy, DraftFits
  <2> QED BY <1>1, <1>6, <2>1 DEF Sign, TypeOK, disk, env
<1>7. ASSUME NEW h \in Handlers, Record(h) PROVE TypeOK'
  <2>1. draft[h] \in Certificate
    BY <1>7 DEF Record, DraftOK, Busy, DraftFits
  <2>2. Answer(h)
    BY <1>7 DEF Record
  <2> QED BY <1>1, <1>7, <2>1, <2>2, AnswerType DEF Record, TypeOK, env
<1>8. ASSUME NEW h \in Handlers, Withdraw(h) PROVE TypeOK'
  <2>1. Answer(h)
    BY <1>8 DEF Withdraw
  <2> QED BY <1>1, <1>8, <2>1, AnswerType DEF Withdraw, TypeOK, disk, env
<1>9. ASSUME Environment PROVE TypeOK'
  <2>1. CASE Crash
    BY <2>1 DEF Crash, TypeOK, disk, env
  <2>2. CASE EditConfig
    BY <2>2 DEF EditConfig, TypeOK, disk
  <2>3. CASE ChangeTokens
    BY <2>3, SSHAssumption DEF ChangeTokens, TypeOK, disk
  <2>4. CASE Tick
    BY <2>4, SSHAssumption DEF Tick, TypeOK, disk
  <2> QED BY <1>9, <2>1, <2>2, <2>3, <2>4 DEF Environment
<1>10. ASSUME UNCHANGED vars PROVE TypeOK'
  BY <1>10 DEF vars, TypeOK
<1> QED BY <1>2, <1>3, <1>4, <1>5, <1>6, <1>7, <1>8, <1>9, <1>10 DEF Next, Handle

\* A request keeps its fields while leases stay known.
LEMMA RequestKept ==
    ASSUME NEW r, RequestFits(r), Known \subseteq Known'
    PROVE  RequestFits(r)'
BY DEF RequestFits

LEMMA AfterOpenRequest ==
    ASSUME TypeOK, RequestsFit, Known \subseteq Known', NEW h \in Handlers, Runs(h, {"open"}),
           NEW id \in Known', NEW s, AfterOpen(h, id, s)
    PROVE  RequestsFit'
<1>1. RequestFits(req[h]) /\ req[h].op = "open" /\ pc[h] = "waiting"
  BY DEF Runs, RequestsFit
<1>2. id \in LeaseIds
  BY DEF Known
<1> PICK q : q = [req[h] EXCEPT !.op = "certificate", !.lease = id]
  OBVIOUS
<1>3. CASE s = "ACTIVE"
  <2>1. req' = [req EXCEPT ![h] = q] /\ pc' = pc
    BY <1>3 DEF AfterOpen
  <2>2. RequestFits(q)'
    BY <1>1, <1>2 DEF RequestFits, Request, Ops
  <2> QED BY <2>1, <2>2, RequestKept DEF TypeOK, RequestsFit
<1>4. CASE s # "ACTIVE"
  BY <1>4, RequestKept DEF AfterOpen, Answer, TypeOK, RequestsFit
<1> QED BY <1>3, <1>4

\* Busy handlers keep requests that fit.
LEMMA RequestStep == ASSUME IInv, [Next]_vars PROVE RequestsFit'
<1> USE DEF IInv
<1>0. Known \subseteq Known'
  BY EvolveStep
<1>1. ASSUME NEW h \in Handlers, Begin(h) PROVE RequestsFit'
  <2>0. PICK t \in valid : \E r \in Asks(t) : req' = [req EXCEPT ![h] = r]
    BY <1>1 DEF Begin
  <2>1. PICK r \in Asks(t) : req' = [req EXCEPT ![h] = r]
    BY <2>0
  <2>2. config \in Policies /\ t \in Tokens
    BY <1>1, <2>1 DEF Begin, TypeOK
  <2>3. RequestFits(r)'
    BY <1>0, <2>1, <2>2, AsksFit, RequestKept
  <2> QED BY <1>0, <1>1, <2>1, <2>3, RequestKept DEF Begin, TypeOK, RequestsFit
<1>2. ASSUME NEW h \in Handlers, OpenNew(h) PROVE RequestsFit'
  <2>1. PICK id \in LeaseIds \ Known, l \in Lease :
          leases' = [leases EXCEPT ![id] = l] /\ AfterOpen(h, id, l.status)
    BY <1>2, OpenNewFacts
  <2>2. id \in Known'
    BY <2>1, NoLeaseFact DEF Known, TypeOK
  <2> QED BY <1>0, <1>2, <2>1, <2>2, AfterOpenRequest DEF OpenNew
<1>3. ASSUME NEW h \in Handlers, OpenRetry(h) PROVE RequestsFit'
  <2>1. PICK id \in Known : AfterOpen(h, id, leases[id].status)
    BY <1>3 DEF OpenRetry
  <2> QED BY <1>0, <1>3, <2>1, AfterOpenRequest DEF OpenRetry
<1>4. ASSUME NEW h \in Handlers, Answer(h) PROVE RequestsFit'
  BY <1>0, <1>4, RequestKept DEF Answer, TypeOK, RequestsFit
<1>5. ASSUME NEW h \in Handlers, Get(h) \/ List(h) \/ Approve(h) \/ Close(h) \/ Refuse(h)
               \/ Record(h) \/ Withdraw(h)
      PROVE  Answer(h)
  BY <1>5 DEF Get, List, Approve, Close, Refuse, Record, Withdraw
<1>6. ASSUME NEW h \in Handlers, Reserve(h) \/ Sign(h) PROVE RequestsFit'
  BY <1>0, <1>6, RequestKept DEF Reserve, Runs, Sign, TypeOK, RequestsFit
<1>7. ASSUME Environment \/ UNCHANGED vars PROVE RequestsFit'
  BY <1>0, <1>7, RequestKept
     DEF Environment, Crash, EditConfig, ChangeTokens, Tick, vars, TypeOK, RequestsFit
<1> QED BY <1>1, <1>2, <1>3, <1>4, <1>5, <1>6, <1>7 DEF Next, Handle

\* Nobody is between two saves while the lock is free, and nobody but its holder
\* ever is.
LEMMA HolderFacts ==
    ASSUME DraftOK
    PROVE  /\ Free => \A k \in Handlers : ~Busy(k)
           /\ \A h, k \in Handlers : Busy(h) /\ Busy(k) => h = k
BY SSHAssumption DEF DraftOK, DraftFits, Free

LEMMA DraftKept ==
    ASSUME NEW h \in Handlers, DraftFits(h),
           UNCHANGED <<leases, issuances, nextSerial, lock, signed>>,
           draft'[h] = draft[h], req'[h] = req[h], pc'[h] = pc[h]
    PROVE  DraftFits(h)'
<1> PICK d : d = draft[h]
  OBVIOUS
<1>1. draft'[h] = d
  OBVIOUS
<1>2. Known' = Known
  BY DEF Known
<1>3. Inside(d)' <=> Inside(d)
  BY <1>2 DEF Inside
<1> QED BY <1>1, <1>3 DEF DraftFits, Inside, Known

\* The draft of a handler between its saves keeps fitting.
LEMMA DraftStep == ASSUME IInv, [Next]_vars PROVE DraftOK'
<1> USE DEF IInv
<1>1. ASSUME NEW h \in Handlers, Begin(h) \/ Refuse(h) PROVE DraftOK'
  <2>1. UNCHANGED <<leases, issuances, nextSerial, lock, signed>>
    BY <1>1 DEF Begin, Refuse, disk
  <2>2. pc'[h] \notin {"reserved", "signed"}
    BY <1>1 DEF Begin, Refuse, Answer, TypeOK
  <2>3. \A k \in Handlers \ {h} : pc'[k] = pc[k] /\ req'[k] = req[k] /\ draft'[k] = draft[k]
    BY <1>1 DEF Begin, Refuse, Answer, TypeOK
  <2> SUFFICES ASSUME NEW k \in Handlers, Busy(k)' PROVE DraftFits(k)'
    BY DEF DraftOK
  <2>4. k # h /\ Busy(k)
    BY <2>2, <2>3 DEF Busy
  <2>5. DraftFits(k)
    BY <2>4 DEF DraftOK
  <2> QED BY <2>1, <2>3, <2>4, <2>5, DraftKept
<1>2. ASSUME NEW h \in Handlers,
             OpenNew(h) \/ OpenRetry(h) \/ Get(h) \/ List(h) \/ Approve(h) \/ Close(h)
      PROVE  DraftOK'
  <2>1. Free
    BY <1>2 DEF OpenNew, OpenRetry, Get, List, Approve, Close, Runs
  <2>2. pc' = pc \/ pc' = [pc EXCEPT ![h] = "idle"]
    BY <1>2 DEF OpenNew, OpenRetry, Get, List, Approve, Close, AfterOpen, Answer
  <2> QED BY <2>1, <2>2, HolderFacts DEF DraftOK, Busy, TypeOK
<1>3. ASSUME NEW h \in Handlers, Reserve(h) PROVE DraftOK'
  <2>1. Free /\ lock' = h /\ nextSerial' = nextSerial + 1 /\ pc' = [pc EXCEPT ![h] = "reserved"]
        /\ UNCHANGED <<leases, issuances, req, signed>>
    BY <1>3 DEF Reserve, Runs
  <2>2. \A k \in Handlers : Busy(k)' => k = h
    BY <2>1, HolderFacts DEF Busy, TypeOK
  <2>3. pc'[h] = "reserved"
    BY <2>1 DEF TypeOK
  <2> PICK d : d = draft'[h]
    OBVIOUS
  <2>4. Known' = Known
    BY <2>1 DEF Known
  <2>5. /\ d.lease \in Known /\ d \in Certificate /\ d.serial = nextSerial + 1
        /\ leases[d.lease].status = "ACTIVE" /\ leases[d.lease].requester = req[h].actor
        /\ Allowed(leases[d.lease].policy, req[h].actor)
        /\ d.key = leases[d.lease].key /\ d.at < d.before /\ d.before <= leases[d.lease].hardExp
    BY <1>3, ReserveFacts
  <2>6. nextSerial \in Nat /\ \A c \in signed : c.serial \in Nat
    BY SSHAssumption DEF TypeOK, Certificate
  <2>7. \A c \in signed : c.serial < d.serial
    BY <2>5, <2>6 DEF Serials
  <2>8. \A c \in issuances : c.serial < d.serial
    BY <2>7 DEF Serials
  <2>9. DraftFits(h)'
    BY <2>1, <2>3, <2>4, <2>5, <2>7, <2>8 DEF DraftFits, Inside
  <2> QED BY <2>2, <2>9 DEF DraftOK
<1>4. ASSUME NEW h \in Handlers, Sign(h) PROVE DraftOK'
  <2>1. Busy(h) /\ DraftFits(h)
    BY <1>4 DEF Sign, Busy, DraftOK
  <2>2. /\ UNCHANGED <<leases, issuances, nextSerial, lock, req, draft>>
        /\ signed' = signed \cup {draft[h]} /\ pc' = [pc EXCEPT ![h] = "signed"]
    BY <1>4 DEF Sign, disk
  <2>3. \A k \in Handlers : Busy(k)' => k = h
    BY <2>1, <2>2, HolderFacts DEF Busy, TypeOK
  <2>4. pc'[h] = "signed" /\ Known' = Known
    BY <2>2 DEF TypeOK, Known
  <2>5. DraftFits(h)'
    BY <2>1, <2>2, <2>4 DEF DraftFits, Inside
  <2> QED BY <2>3, <2>5 DEF DraftOK
<1>5. ASSUME NEW h \in Handlers, Record(h) \/ Withdraw(h) PROVE DraftOK'
  <2>1. Busy(h) /\ pc' = [pc EXCEPT ![h] = "idle"]
    BY <1>5 DEF Record, Withdraw, Answer, Busy
  <2> QED BY <2>1, HolderFacts DEF DraftOK, Busy, TypeOK
<1>6. CASE Crash
  BY <1>6 DEF Crash, DraftOK, Busy
<1>7. CASE EditConfig \/ ChangeTokens \/ Tick \/ UNCHANGED vars
  <2>1. UNCHANGED <<leases, issuances, nextSerial, lock, signed, pc, req, draft>>
    BY <1>7 DEF EditConfig, ChangeTokens, Tick, vars, disk
  <2> QED BY <2>1, DraftKept DEF DraftOK, Busy
<1> QED BY <1>1, <1>2, <1>3, <1>4, <1>5, <1>6, <1>7 DEF Next, Handle, Environment

\* What a step adds to the history of the signer and to the recorded certificates
\* is the draft of the one handler between its saves.
LEMMA NewCertificates ==
    ASSUME IInv, [Next]_vars
    PROVE  \/ UNCHANGED <<signed, issuances>>
           \/ \E h \in Handlers : /\ DraftFits(h) /\ UNCHANGED <<leases, nextSerial>>
                                  /\ \/ /\ pc[h] = "reserved" /\ issuances' = issuances
                                        /\ signed' = signed \cup {draft[h]}
                                     \/ /\ Record(h) /\ draft[h] \in signed /\ signed' = signed
                                        /\ issuances' = issuances \cup {draft[h]}
<1> USE DEF IInv
<1>1. ASSUME NEW h \in Handlers,
             \/ Begin(h) \/ OpenNew(h) \/ OpenRetry(h) \/ Get(h) \/ List(h) \/ Approve(h)
             \/ Close(h) \/ Refuse(h) \/ Reserve(h) \/ Withdraw(h)
      PROVE  UNCHANGED <<signed, issuances>>
  BY <1>1 DEF Begin, OpenNew, OpenRetry, Get, List, Approve, Close, Refuse, Reserve,
              Withdraw, disk
<1>2. ASSUME NEW h \in Handlers, Sign(h)
      PROVE  /\ DraftFits(h) /\ UNCHANGED <<leases, nextSerial, issuances>>
             /\ pc[h] = "reserved" /\ signed' = signed \cup {draft[h]}
  BY <1>2 DEF Sign, DraftOK, Busy, disk
<1>3. ASSUME NEW h \in Handlers, Record(h)
      PROVE  /\ DraftFits(h) /\ UNCHANGED <<leases, nextSerial, signed>>
             /\ draft[h] \in signed /\ issuances' = issuances \cup {draft[h]}
  BY <1>3 DEF Record, DraftOK, DraftFits, Busy
<1>4. CASE Environment \/ UNCHANGED vars
  BY <1>4 DEF Environment, Crash, EditConfig, ChangeTokens, Tick, disk, vars
<1> QED BY <1>1, <1>2, <1>3, <1>4 DEF Next, Handle

\* Serials are saved before they are signed, and signed before they are recorded.
LEMMA SerialsStep == ASSUME IInv, [Next]_vars PROVE Serials'
<1> USE DEF IInv
<1>1. nextSerial \in Nat /\ \A c \in signed : c.serial \in Nat
  BY SSHAssumption DEF TypeOK, Certificate
<1>2. nextSerial' = nextSerial \/ nextSerial' = nextSerial + 1
  <2>1. ASSUME NEW h \in Handlers, Begin(h) \/ Handle(h)
        PROVE  nextSerial' = nextSerial \/ nextSerial' = nextSerial + 1
    BY <2>1 DEF Begin, Handle, OpenNew, OpenRetry, Get, List, Approve, Close, Refuse,
                Reserve, Sign, Record, Withdraw, disk
  <2>2. CASE Environment \/ UNCHANGED vars
    BY <2>2 DEF Environment, Crash, EditConfig, ChangeTokens, Tick, disk, vars
  <2> QED BY <2>1, <2>2 DEF Next
<1>3. \A c \in signed : c.serial <= nextSerial'
  BY <1>1, <1>2 DEF Serials
<1>4. CASE UNCHANGED <<signed, issuances>>
  BY <1>3, <1>4 DEF Serials
<1>5. ASSUME NEW h \in Handlers, DraftFits(h), nextSerial' = nextSerial,
             issuances' = issuances, signed' = signed \cup {draft[h]}
      PROVE  Serials'
  BY <1>1, <1>3, <1>5 DEF Serials, DraftFits
<1>6. ASSUME NEW h \in Handlers, draft[h] \in signed, signed' = signed,
             issuances' = issuances \cup {draft[h]}
      PROVE  Serials'
  BY <1>3, <1>6 DEF Serials
<1> QED BY <1>4, <1>5, <1>6, NewCertificates

\* An ACTIVE lease has whatever approval its policy wants.
LEMMA ActiveStep == ASSUME IInv, [Next]_vars PROVE ActiveApproved'
<1> USE DEF IInv
<1> SUFFICES ASSUME NEW id \in Known', leases'[id].status = "ACTIVE"
             PROVE  Approved(leases'[id])
  BY DEF ActiveApproved, Approved, NeedsApproval
<1> PICK m : m = leases'[id]
  OBVIOUS
<1>1. CASE id \in Known
  <2>1. Evolves(leases[id], m)
    BY <1>1, EvolveStep
  <2>2. CASE leases[id].status = "ACTIVE"
    BY <1>1, <2>1, <2>2 DEF ActiveApproved, Approved, Evolves
  <2>3. CASE leases[id].status # "ACTIVE"
    BY <2>1, <2>3 DEF Approved, Evolves
  <2> QED BY <2>2, <2>3
<1>2. CASE id \notin Known
  BY <1>2, EvolveStep DEF Fresh, Approved
<1> QED BY <1>1, <1>2

LEMMA KeyStep == ASSUME IInv, [Next]_vars PROVE OneLeasePerKey'
<1> USE DEF IInv
<1> SUFFICES ASSUME NEW i \in Known', NEW j \in Known', leases'[i].key = leases'[j].key
             PROVE  i = j
  BY DEF OneLeasePerKey
<1>1. \A k \in Known : leases'[k].key = leases[k].key
  BY EvolveStep DEF Evolves
<1> QED BY <1>1, EvolveStep DEF Fresh, OneLeasePerKey

\* A certificate stays inside its lease, and approved, as the lease evolves.
LEMMA InsideKept ==
    ASSUME IInv, [Next]_vars, NEW c, Inside(c), Approved(leases[c.lease])
    PROVE  Inside(c)' /\ Approved(leases'[c.lease])
<1> PICK m : m = leases'[c.lease]
  OBVIOUS
<1>1. c.lease \in Known' /\ Evolves(leases[c.lease], m)
  BY EvolveStep DEF IInv, Inside
<1> QED BY <1>1 DEF Evolves, Inside, Approved

\* Every signed certificate is inside its lease and approved.
LEMMA SignedStep ==
    ASSUME IInv, [Next]_vars PROVE CertificatesInsideLease' /\ ApprovalHonoured'
<1> USE DEF IInv
<1>1. \A c \in signed : Inside(c) /\ Approved(leases[c.lease])
  BY DEF CertificatesInsideLease, ApprovalHonoured, Inside, Approved
<1>2. \A c \in signed' : Inside(c) /\ Approved(leases[c.lease])
  <2>1. ASSUME NEW h \in Handlers, DraftFits(h)
        PROVE  Inside(draft[h]) /\ Approved(leases[draft[h].lease])
    BY <2>1 DEF DraftFits, Inside, ActiveApproved
  <2> QED BY <1>1, <2>1, NewCertificates
<1>3. \A c \in signed' : Inside(c)' /\ Approved(leases'[c.lease])
  BY <1>2, InsideKept
<1> QED BY <1>3 DEF CertificatesInsideLease, ApprovalHonoured, Inside, Approved, NeedsApproval

LEMMA InitInv == Init => IInv
<1> SUFFICES ASSUME Init PROVE IInv
  OBVIOUS
<1>1. Known = {}
  BY DEF Init, Known
<1>2. TypeOK
  BY SSHAssumption DEF Init, TypeOK
<1> QED BY <1>1, <1>2
        DEF IInv, Init, RequestsFit, DraftOK, Busy, Serials, ActiveApproved, OneLeasePerKey,
            CertificatesInsideLease, ApprovalHonoured

LEMMA StepInv == IInv /\ [Next]_vars => IInv'
BY TypeStep, RequestStep, DraftStep, SerialsStep, ActiveStep, KeyStep, SignedStep DEF IInv

-----------------------------------------------------------------------------
(* Theorems                                                                *)

\* Every behaviour of the service keeps the inductive invariant.
THEOREM Invariance == Spec => []IInv
BY InitInv, StepInv, PTL DEF Spec

\* Every variable keeps its type: no serial passes the last one, and every request
\* and draft in flight is well formed.
THEOREM TypeCorrect == Spec => []TypeOK
BY Invariance, PTL DEF IInv

\* No serial is signed twice, whatever crashes or fails between save and signature.
THEOREM SerialsSafe == Spec => []SerialsNeverReused
<1>1. IInv => SerialsNeverReused
  <2> SUFFICES ASSUME IInv, NEW h \in Handlers, pc[h] = "reserved"
               PROVE  /\ draft[h].serial <= nextSerial
                      /\ \A c \in signed : c.serial # draft[h].serial
    BY DEF SerialsNeverReused, IInv, Serials
  <2>1. DraftFits(h) /\ nextSerial \in Nat /\ \A c \in signed : c.serial \in Nat
    BY SSHAssumption DEF IInv, TypeOK, DraftOK, Busy, Certificate
  <2> QED BY <2>1 DEF DraftFits
<1> QED BY <1>1, Invariance, PTL

\* Every certificate signed is for its lease's key and inside its lease's window.
THEOREM CertificatesSafe == Spec => []CertificatesInsideLease
BY Invariance, PTL DEF IInv

\* Nothing is signed without the second person's approval its policy asks for.
THEOREM ApprovalSafe == Spec => []ApprovalHonoured
BY Invariance, PTL DEF IInv

\* A client key never serves two leases.
THEOREM KeysSafe == Spec => []OneLeasePerKey
BY Invariance, PTL DEF IInv

\* Leases only move forward: scope and deadline are fixed and an end is an end.
THEOREM ForwardOnly == Spec => LeaseOnlyMovesForward
<1>1. ASSUME IInv, [Next]_vars, NEW id \in Known
      PROVE  /\ leases'[id] # NoLease
             /\ LET l == leases[id]
                    m == leases'[id] IN
                  /\ m = [l EXCEPT !.status = m.status, !.approvedBy = m.approvedBy]
                  /\ l.status \in Terminal => m.status = l.status
                  /\ l.status = "ACTIVE" => m.status # "PENDING_APPROVAL"
                  /\ m.approvedBy # l.approvedBy => l.status = "PENDING_APPROVAL"
  <2> PICK l, m : l = leases[id] /\ m = leases'[id]
    OBVIOUS
  <2>1. l \in Lease /\ m \in Lease /\ Evolves(l, m)
    BY <1>1, EvolveStep, KnownFacts DEF IInv, Evolves
  <2>2. m = [l EXCEPT !.status = m.status, !.approvedBy = m.approvedBy]
    BY <2>1 DEF Evolves, Lease
  <2> QED BY <2>1, <2>2, NoLeaseFact DEF Evolves
<1>2. IInv /\ [Next]_vars => [\A id \in Known :
         /\ leases'[id] # NoLease
         /\ LET l == leases[id]
                m == leases'[id] IN
              /\ m = [l EXCEPT !.status = m.status, !.approvedBy = m.approvedBy]
              /\ l.status \in Terminal => m.status = l.status
              /\ l.status = "ACTIVE" => m.status # "PENDING_APPROVAL"
              /\ m.approvedBy # l.approvedBy => l.status = "PENDING_APPROVAL"]_vars
  BY <1>1
<1> QED BY <1>2, Invariance, PTL DEF Spec, LeaseOnlyMovesForward

\* Once a lease has ended nothing is signed or recorded under it.
THEOREM EndIsEnd == Spec => EndStopsSigning
<1>1. IInv /\ [Next]_vars => [\A c \in (signed' \ signed) \cup (issuances' \ issuances) :
         leases[c.lease].status = "ACTIVE"]_vars
  BY NewCertificates DEF DraftFits
<1> QED BY <1>1, Invariance, PTL DEF Spec, EndStopsSigning

\* Everything delivered is authorised when it is delivered.
THEOREM DeliveryAuthorised == Spec => IssuanceAuthorised
<1>1. ASSUME IInv, [Next]_vars, NEW c \in issuances' \ issuances
      PROVE  LET l == leases[c.lease] IN
               /\ now < l.hardExp
               /\ l.policy = config /\ Allowed(config, l.requester)
               /\ l.requester \in valid
               /\ \A i \in issuances : i.serial < c.serial
  <2>1. PICK h \in Handlers : DraftFits(h) /\ Record(h) /\ c = draft[h]
    BY <1>1, NewCertificates
  <2>2. c \in Certificate /\ leases[c.lease] \in Lease /\ now \in Nat
    BY <1>1, <2>1, KnownFacts DEF DraftFits, Inside, IInv, TypeOK
  <2>3. now < leases[c.lease].hardExp
    BY <2>1, <2>2 DEF Record, DraftFits, Inside, Certificate, Lease
  <2>4. leases[c.lease].policy = config /\ req[h].actor \in valid
    BY <2>1 DEF Record, Authorize
  <2> QED BY <2>1, <2>3, <2>4 DEF DraftFits
<1>2. IInv /\ [Next]_vars => [\A c \in issuances' \ issuances :
         LET l == leases[c.lease] IN
         /\ now < l.hardExp
         /\ l.policy = config /\ Allowed(config, l.requester)
         /\ l.requester \in valid
         /\ \A i \in issuances : i.serial < c.serial]_vars
  BY <1>1
<1> QED BY <1>2, Invariance, PTL DEF Spec, IssuanceAuthorised

-----------------------------------------------------------------------------
(* Refinement                                                              *)

LEMMA SameSets == Authority!Known = Known /\ Authority!Live = Live
                  /\ Authority!Terminal = Terminal /\ Authority!Lease = Lease
                  /\ Authority!Certificate = Certificate
BY DEF Authority!Known, Known, Authority!Live, Live, Authority!Terminal, Terminal,
       Authority!Lease, Lease, Authority!Status, Status, Authority!Certificate, Certificate

\* A transaction on one lease is a lapse of it, a decision or a termination.
LEMMA TouchMaps ==
    ASSUME IInv, NEW h \in Handlers, Get(h) \/ List(h) \/ Approve(h) \/ Close(h)
    PROVE  Authority!Lapse \/ \E id \in LeaseIds : Authority!Decide(id) \/ Authority!Terminate(id)
<1> USE DEF IInv
<1> DEFINE r == req[h]
           Mapped == Authority!Lapse
                     \/ \E id \in LeaseIds : Authority!Decide(id) \/ Authority!Terminate(id)
           Over == {id \in Known : leases[id].status \in Live /\ leases[id].hardExp <= now}
<1>0. UNCHANGED <<issuances, now>>
  BY DEF Get, List, Approve, Close, env
<1>1. leases \in [LeaseIds -> Lease \cup {NoLease}] /\ Known \subseteq LeaseIds
      /\ now \in Nat
  BY DEF TypeOK, Known
\* Expiring any set of known leases is a lapse of those whose window is over.
<1>2. ASSUME NEW S \in SUBSET Known,
             leases' = [k \in LeaseIds |-> IF k \in S THEN Expire(leases[k], now) ELSE leases[k]]
      PROVE  Mapped
  <2>1. leases' = [k \in LeaseIds |-> IF k \in S \cap Over
                                      THEN [leases[k] EXCEPT !.status = "EXPIRED"]
                                      ELSE leases[k]]
    BY <1>1, <1>2 DEF Expire
  <2>2. S \cap Over \in SUBSET Over
    OBVIOUS
  <2> QED BY <1>0, <2>1, <2>2, SameSets DEF Authority!Lapse
<1>3. CASE Get(h)
  <2>1. r.lease \in Known
    BY <1>3 DEF Get, Runs, RequestsFit, RequestFits
  <2>2. leases' = [k \in LeaseIds |-> IF k \in {r.lease} THEN Expire(leases[k], now) ELSE leases[k]]
    BY <1>1, <1>3, <2>1 DEF Get
  <2> QED BY <1>2, <2>1, <2>2
<1>4. CASE List(h)
  BY <1>2, <1>4 DEF List
<1>5. CASE Approve(h)
  <2> DEFINE l == Expire(leases[r.lease], now)
  <2>1. r.lease \in Known /\ r.actor \in Tokens
    BY <1>5 DEF Approve, Runs, RequestsFit, RequestFits, Request
  <2>2. l.status = "PENDING_APPROVAL" /\ r.actor # l.requester /\ leases[r.lease] \in Lease
        /\ leases' = [leases EXCEPT ![r.lease] = [l EXCEPT !.status = "ACTIVE",
                                                          !.approvedBy = r.actor]]
    BY <1>5, <2>1, KnownFacts DEF Approve
  <2>3. l = leases[r.lease] /\ now < l.hardExp
    BY <1>1, <2>2, ExpireFacts DEF Live
  <2>4. Authority!Decide(r.lease)
    BY <1>0, <1>1, <2>1, <2>2, <2>3, SameSets DEF Authority!Decide
  <2> QED BY <1>1, <2>1, <2>4
<1>6. CASE Close(h)
  <2> DEFINE l == Expire(leases[r.lease], now)
  <2>1. r.lease \in Known /\ r.op \in {"complete", "cancel", "revoke"}
    BY <1>6 DEF Close, Runs, RequestsFit, RequestFits
  <2>2. leases[r.lease] \in Lease
    BY <2>1, KnownFacts
  <2>3. leases' = [leases EXCEPT ![r.lease] =
                     IF l.status \in Live THEN [l EXCEPT !.status = EndOf(r.op)] ELSE l]
    BY <1>6 DEF Close
  <2>4. CASE l.status \in Live
    <3>1. l = leases[r.lease] /\ EndOf(r.op) \in Terminal
      BY <1>1, <2>1, <2>2, <2>4, ExpireFacts DEF EndOf, Terminal
    <3>2. leases' = [leases EXCEPT ![r.lease].status = EndOf(r.op)]
      BY <1>1, <2>1, <2>3, <2>4, <3>1
    <3>3. Authority!Terminate(r.lease)
      BY <1>0, <2>1, <2>4, <3>1, <3>2, SameSets DEF Authority!Terminate
    <3> QED BY <1>1, <2>1, <3>3
  <2>5. CASE l.status \notin Live
    <3>1. leases' = [k \in LeaseIds |-> IF k \in {r.lease} THEN Expire(leases[k], now) ELSE leases[k]]
      BY <1>1, <2>1, <2>3, <2>5
    <3> QED BY <1>2, <2>1, <3>1
  <2> QED BY <2>4, <2>5
<1> QED BY <1>3, <1>4, <1>5, <1>6

\* Every step of the service is a step of the abstract authority, or changes
\* nothing the authority shows.
LEMMA StepMaps ==
    ASSUME IInv, [Next]_vars
    PROVE  [Authority!ANext]_(Authority!avars)
<1> USE DEF IInv
<1>1. ASSUME NEW h \in Handlers, OpenNew(h) PROVE Authority!ANext
  <2>1. PICK id \in LeaseIds \ Known, l \in Lease :
          /\ leases' = [leases EXCEPT ![id] = l]
          /\ \A other \in Known : leases[other].key # l.key
          /\ l.approvedBy = None /\ now < l.hardExp
          /\ \/ l.status = "PENDING_APPROVAL"
             \/ l.status = "ACTIVE" /\ ~NeedsApproval(l.policy, l.requester)
    BY <1>1, OpenNewFacts
  <2>2. leases'[id] = l /\ leases[id] = NoLease
    BY <2>1 DEF TypeOK, Known
  <2>3. UNCHANGED <<issuances, now>>
    BY <1>1 DEF OpenNew, env
  <2>4. Authority!NeedsApproval(l.policy, l.requester) <=> NeedsApproval(l.policy, l.requester)
    BY DEF NeedsApproval, Authority!NeedsApproval
  <2>5. \/ l.status = "PENDING_APPROVAL"
        \/ l.status = "ACTIVE" /\ ~Authority!NeedsApproval(l.policy, l.requester)
    BY <2>1, <2>4
  <2>6. leases' = [leases EXCEPT ![id] = leases'[id]]
    BY <2>1, <2>2
  <2>7. Authority!Grant(id)
    BY <2>1, <2>2, <2>3, <2>5, <2>6, SameSets DEF Authority!Grant
  <2> QED BY <2>7 DEF Authority!ANext
<1>2. ASSUME NEW h \in Handlers, Get(h) \/ List(h) \/ Approve(h) \/ Close(h)
      PROVE  Authority!ANext
  BY <1>2, TouchMaps DEF Authority!ANext
<1>3. ASSUME NEW h \in Handlers, Record(h) PROVE Authority!ANext
  <2>1. DraftFits(h)
    BY <1>3 DEF Record, DraftOK, Busy
  <2>2. /\ now < draft[h].before /\ issuances' = issuances \cup {draft[h]}
        /\ UNCHANGED <<leases, now>>
    BY <1>3 DEF Record, env
  <2>3. Authority!Certify(draft[h])
    BY <2>1, <2>2, SameSets DEF DraftFits, Inside, Authority!Certify
  <2> QED BY <2>2, <2>3 DEF Authority!ANext
<1>4. CASE Tick
  BY <1>4 DEF Tick, disk, Authority!ANext, Authority!Pass
<1>5. ASSUME NEW h \in Handlers,
             \/ Begin(h) \/ OpenRetry(h) \/ Refuse(h) \/ Reserve(h) \/ Sign(h) \/ Withdraw(h)
      PROVE  UNCHANGED Authority!avars
  BY <1>5 DEF Begin, OpenRetry, Refuse, Reserve, Sign, Withdraw, disk, env, Authority!avars
<1>6. CASE Crash \/ EditConfig \/ ChangeTokens \/ UNCHANGED vars
  BY <1>6 DEF Crash, EditConfig, ChangeTokens, vars, disk, env, Authority!avars
<1> QED BY <1>1, <1>2, <1>3, <1>4, <1>5, <1>6 DEF Next, Handle, Environment

\* The service, with its files, lock, snapshots, crashes and two saves around the
\* signer, implements the abstract authority in which a certificate is one step.
THEOREM Refinement == Spec => ImplementsAuthority
<1>1. Init => Authority!AInit
  BY DEF Init, Authority!AInit
<1>2. IInv /\ [Next]_vars => [Authority!ANext]_(Authority!avars)
  BY StepMaps
<1> QED BY <1>1, <1>2, Invariance, PTL DEF Spec, ImplementsAuthority, Authority!ASpec
=============================================================================
