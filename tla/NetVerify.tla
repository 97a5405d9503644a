----------------------------- MODULE NetVerify -----------------------------
(***************************************************************************)
(* A verification of internal/netpolicy: `verify` of cli.go, the native    *)
(* collectors of linuxwg.go and dns_collect.go, the packet monitors of     *)
(* observer_linux.go and the verdict of verify.go. One verification runs   *)
(* at a time; around it the administrator edits the gateway's chain and    *)
(* the registry, the grant is revoked, expires or disappears, the deadline *)
(* passes, and two goroutines watch packets.                               *)
(*                                                                         *)
(* A question is about one endpoint: "access" is asked for a source that   *)
(* the policy allows, "isolation" for one that it denies (isDeny). What a  *)
(* registry answers is NetRegistry's matter: here the question is still    *)
(* the same, or it has moved. Facts are kept as <<property, transport,     *)
(* value>>, and of the missing parts only whether there is one.            *)
(***************************************************************************)
EXTENDS Integers, Sequences, FiniteSets

CONSTANTS Order,   \* the transports of the endpoint, in the order of its binding
          Closed   \* the fixture coordinator vouches for the gateway's chain

ASSUME OrderAssumption == /\ Order \in Seq({"udp", "tcp"})
                          /\ Len(Order) \in 1..2
                          /\ \A i, j \in 1..Len(Order) : Order[i] = Order[j] => i = j
ASSUME ClosedAssumption == Closed \in BOOLEAN

Transports == {Order[i] : i \in 1..Len(Order)}
Monitors == {"gateway", "resolver"}
Operations == {"gateway", "vpn", "access", "isolation"}
None == "none"
Failed == "failed"

\* What the chain says of the two sources: the denied one is dropped, nothing
\* drops it, or the rules are outside of the subset that can be read. The
\* allowed source is guarded by the interface of the VPN in the first two.
Chains == {"denies", "open", "odd"}
Supported(c) == c \in {"denies", "open"}

VARIABLES
    \* the world
    chain,      \* the chain of the gateway
    admission,  \* "good", or "ended": the question moved or the grant is over
    ctxDone,    \* the deadline of the command has passed
    sessionOld, \* the handshake of the VPN is older than it may be
    \* the command
    pc, q,
    permitted,  \* a permit was given for the operation at pc
    p, current, \* the chain as it was read first and last, or Failed
    next,       \* the attempt to be made, as an index of Order
    attempts,   \* transport -> how its probe went
    facts, missing,
    mon,        \* the packet monitors
    result,     \* the assessment, until it is saved
    baseline,   \* the chain under which the access it names was verified, while that is fresh
    \* the truth
    crossed,    \* <<monitor, transport>>: the challenge passed that point
    late        \* native operations begun since the admission ended

world == <<chain, admission, ctxDone, sessionOld>>
truth == <<crossed, late>>
vars == <<chain, admission, ctxDone, sessionOld, pc, q, permitted, p, current, next, attempts,
          facts, missing, mon, result, baseline, crossed, late>>

NoMonitor == [st |-> "none", told |-> FALSE, obs |-> "none",
              queue |-> {}, spoilt |-> FALSE, seen |-> {}, covers |-> {}]
NoQuestion == [op |-> "gateway", protected |-> FALSE]
NoAssessment == [verdict |-> None, cleanup |-> FALSE, grounds |-> None]

-----------------------------------------------------------------------------
(* Permits *)

\* Every permit asks the question again, reads the grant again and resolves
\* the subject with a command that lives as long as the context.
Points == {"admit", "collect", "scope", "interface", "chain", "bound", "source", "policy", "claim",
           "tunnel", "peer", "first", "second", "attempt", "probe", "again",
           "allowed", "session", "route", "guard", "selection"}
Permit ==
    /\ pc \in Points /\ ~permitted
    /\ pc = "attempt" => next <= Len(Order)
    /\ admission = "good" /\ ~ctxDone
    /\ permitted' = TRUE
    /\ UNCHANGED <<world, pc, q, p, current, next, attempts, facts, missing, mon, result,
                   baseline, truth>>

\* A step that makes a native operation, if it was permitted; a step that
\* only passes a permit; and one that found no permit.
Tried == /\ permitted' = FALSE
         /\ late' = IF permitted /\ admission # "good" THEN late + 1 ELSE late
Passed == permitted /\ permitted' = FALSE /\ UNCHANGED late
Refused == ~permitted /\ UNCHANGED <<permitted, late>>

\* What most steps leave alone.
Quiet == UNCHANGED <<world, q, p, current, next, attempts, mon, result, baseline, crossed>>
Holds(prop, t, value) == facts' = facts \cup {<<prop, t, value>>}

-----------------------------------------------------------------------------
(* The command, and the operations "gateway" and "vpn" *)

Fresh ==
    /\ admission' = "good" /\ ctxDone' = FALSE /\ sessionOld' = FALSE
    /\ permitted' = FALSE /\ p' = Failed /\ current' = Failed /\ next' = 1
    /\ attempts' = [t \in Transports |-> None]
    /\ facts' = {} /\ missing' = FALSE
    /\ mon' = [m \in Monitors |-> NoMonitor]
    /\ result' = NoAssessment
    /\ crossed' = {} /\ late' = 0

\* A command asks its question under a grant; an isolation may name an earlier
\* assessment. One that is not of a verified access by the same path is as none.
Ask(op, protected) ==
    /\ pc = "idle"
    /\ q' = [op |-> op, protected |-> protected]
    /\ baseline' \in {None} \cup {c \in Chains : op = "isolation" /\ Supported(c)}
    /\ pc' = "admit"
    /\ Fresh
    /\ UNCHANGED chain

\* The process ends, and with it all it had.
Return == /\ pc' = "idle" /\ q' = NoQuestion /\ baseline' = None
          /\ Fresh
          /\ UNCHANGED chain

\* The first permit: without it nothing is collected and nothing saved.
NotAdmitted == pc = "admit" /\ ~permitted /\ Return
Admitted == /\ pc = "admit" /\ Passed
            /\ pc' = "collect"
            /\ UNCHANGED <<facts, missing>> /\ Quiet

\* collect: the permit of a gateway question is also that of the look at its
\* namespace, which follows.
Collect == /\ pc = "collect" /\ UNCHANGED facts /\ Quiet
           /\ \/ Refused /\ missing' = TRUE /\ pc' = "evaluate"
              \/ /\ permitted /\ UNCHANGED <<missing, late>>
                 /\ permitted' = (q.op = "gateway")
                 /\ pc' = CASE q.op = "gateway" -> "identity"
                            [] q.op = "vpn" -> "bound"
                            [] OTHER -> "scope"

Identity == /\ pc = "identity" /\ Tried
            /\ \/ UNCHANGED facts
               \/ \E same \in BOOLEAN : Holds("gateway.binding", None, same)
            /\ pc' = "interface"
            /\ UNCHANGED missing /\ Quiet

\* A read that yields one fact, or none when it is refused or fails.
ReadFact(here, prop, after) ==
    /\ pc = here /\ Tried
    /\ \/ UNCHANGED facts
       \/ permitted /\ ~ctxDone /\ \E value \in BOOLEAN : Holds(prop, None, value)
    /\ pc' = after
    /\ UNCHANGED missing /\ Quiet

\* Reading the chain proves the reader; a supported chain proves the scope.
ReadGatewayChain ==
    /\ pc = "chain" /\ Tried
    /\ \/ UNCHANGED facts
       \/ /\ permitted /\ ~ctxDone
          /\ facts' = facts \cup {<<"gateway.reader", None, TRUE>>}
                            \cup {x \in {<<"gateway.policy_scope", None, TRUE>>} : Supported(chain)}
    /\ pc' = "evaluate"
    /\ UNCHANGED missing /\ Quiet

\* sessionFact: a handshake too old contradicts; one in the future says nothing.
ReadSession ==
    /\ pc = "session" /\ Tried
    /\ \/ UNCHANGED facts
       \/ permitted /\ ~ctxDone /\ Holds("vpn.session_freshness", None, ~sessionOld)
    /\ pc' = "route"
    /\ UNCHANGED missing /\ Quiet

\* Guard and selection are looked at only under a closed chain, and when the
\* binding requires them.
AfterRoute == IF Closed THEN "guard" ELSE "evaluate"
ReadGuard ==
    /\ pc = "guard" /\ Tried
    /\ \/ UNCHANGED facts /\ pc' = "evaluate"
       \/ /\ permitted /\ ~ctxDone /\ Supported(chain) /\ q.protected
          /\ Holds("vpn.fail_closed_guard", None, TRUE)
          /\ pc' = "selection"
    /\ UNCHANGED missing /\ Quiet

ReadNative ==
    \/ Identity
    \/ ReadFact("interface", "gateway.interface_binding", "chain")
    \/ ReadGatewayChain
    \/ ReadFact("bound", "vpn.binding", "allowed")
    \/ ReadFact("allowed", "vpn.peer_binding", "session")
    \/ ReadSession
    \/ ReadFact("route", "vpn.route_ownership", AfterRoute)
    \/ ReadGuard
    \/ ReadFact("selection", "vpn.path_selection", "evaluate")

-----------------------------------------------------------------------------
(* collectDNS: up to the observers *)

isDeny == q.op = "isolation"
Each(prop) == {<<prop, t, TRUE>> : t \in Transports}

\* A scope richer than one probe for a transport is not supported.
Scope == /\ pc = "scope"
         /\ \/ Passed /\ pc' = "source" /\ UNCHANGED missing
            \/ Refused /\ pc' = "evaluate" /\ missing' \in {missing, TRUE}
         /\ UNCHANGED facts /\ Quiet

\* interfaceBinding of the source.
Source ==
    /\ pc = "source" /\ Tried
    /\ \/ pc' = "evaluate" /\ UNCHANGED facts /\ missing' \in {missing, missing \/ permitted}
       \/ /\ permitted /\ ~ctxDone
          /\ facts' = facts \cup Each("source.binding")
          /\ pc' = "policy"
          /\ UNCHANGED missing
    /\ Quiet

\* policy: the chain is read, or else it stays unknown and that is not an error.
ReadPolicy ==
    /\ pc = "policy" /\ Tried
    /\ p' \in {Failed} \cup {c \in {chain} : permitted /\ ~ctxDone}
    /\ pc' = "coverage"
    /\ UNCHANGED <<world, q, current, next, attempts, facts, missing, mon, result, baseline, crossed>>

\* A denial needs a supported chain that is vouched for, and a baseline:
\* an access to the same endpoint that was verified under the same chain.
BaselineHolds == baseline = p
Coverage ==
    /\ pc = "coverage"
    /\ \/ ~isDeny /\ pc' = "claim" /\ UNCHANGED <<facts, missing>>
       \/ /\ isDeny /\ Closed /\ Supported(p) /\ BaselineHolds
          /\ facts' = facts \cup Each("isolation.baseline")
          /\ pc' = "claim" /\ UNCHANGED missing
       \/ /\ isDeny /\ ~(Closed /\ Supported(p) /\ BaselineHolds)
          /\ missing' = TRUE /\ pc' = "evaluate" /\ UNCHANGED facts
    /\ UNCHANGED <<permitted, late>> /\ Quiet

Claim ==
    /\ pc = "claim" /\ UNCHANGED facts /\ Quiet
    /\ \/ Refused /\ missing' = TRUE /\ pc' = "evaluate"
       \/ /\ Passed
          /\ \/ q.protected /\ pc' = "tunnel" /\ UNCHANGED missing
             \/ ~q.protected /\ ~isDeny /\ pc' = "attempt" /\ UNCHANGED missing
             \/ ~q.protected /\ isDeny /\ pc' = "evaluate" /\ missing' = TRUE

\* The VPN has its address and its peer owns the endpoint, or nothing follows.
ReadTunnel(here, after) ==
    /\ pc = here /\ Tried
    /\ \/ pc' = "evaluate"
       \/ permitted /\ ~ctxDone /\ pc' = after
    /\ UNCHANGED <<facts, missing>> /\ Quiet

-----------------------------------------------------------------------------
(* Packet monitors *)

Open(m) == mon' = [mon EXCEPT ![m].st = "open"]

\* startMonitor. Its permit may be refused, which adds nothing to missing.
Start(m, here, after) ==
    /\ pc = here /\ Tried
    /\ \/ ~permitted /\ pc' = "unwind" /\ UNCHANGED <<mon, missing>>
       \/ permitted /\ pc' = "unwind" /\ missing' = TRUE /\ UNCHANGED mon
       \/ permitted /\ Open(m) /\ pc' = after /\ UNCHANGED missing
    /\ UNCHANGED <<world, q, p, current, next, attempts, facts, result, baseline, crossed>>

\* The goroutine reads until it is cancelled, the deadline passes or a read
\* fails. What it read is fixed here, when it closes the socket: some of the
\* packets that the kernel queued. A failure, a drop in the statistics or a
\* packet that could not be attributed (meta) makes the observation incomplete
\* and void; a packet that is still queued does not.
\* Fault: only drops are noticed.
SpoiltByDropsOnly(m, read) == mon[m].spoilt

Spoilt(m, read) == mon[m].spoilt \/ \E x \in read : x[2] = "meta"
Exit(m) ==
    /\ mon[m].st = "open"
    /\ \E read \in SUBSET mon[m].queue, broken, shut \in BOOLEAN :
          /\ broken \/ mon[m].told \/ ctxDone
          /\ mon' = [mon EXCEPT ![m] =
                IF broken \/ ~shut \/ Spoilt(m, read)
                THEN [NoMonitor EXCEPT !.st = IF shut THEN "closed" ELSE "leaked",
                                       !.told = TRUE, !.spoilt = TRUE]
                ELSE [mon[m] EXCEPT !.st = "closed", !.told = TRUE, !.queue = @ \ read,
                               !.seen = {x[1] : x \in {y \in read : y[2] = "match"}}]]
    /\ UNCHANGED <<world, pc, q, permitted, p, current, next, attempts, facts, missing,
                   result, baseline, truth>>

\* stop: cancel, then wait for the goroutine, but for a second at most. It
\* works once; the first observer is stopped before the second.
Stopping == pc \in {"stop", "unwind"}
ToStop(m) == /\ mon[m].st # "none" /\ mon[m].obs = "none"
             /\ m = "resolver" => mon["gateway"].obs # "none"
Cancel(m) == /\ Stopping /\ ToStop(m) /\ ~mon[m].told
             /\ mon' = [mon EXCEPT ![m].told = TRUE]
Observed(m) == /\ Stopping /\ ToStop(m) /\ mon[m].st \in {"closed", "leaked"}
               /\ mon' = [mon EXCEPT ![m].obs = "result"]
TimedOut(m) == /\ Stopping /\ ToStop(m) /\ mon[m].told
               /\ mon' = [mon EXCEPT ![m] = [NoMonitor EXCEPT !.st = mon[m].st, !.told = TRUE,
                                             !.obs = "timeout", !.spoilt = TRUE]]
StopMonitor(m) ==
    /\ Cancel(m) \/ Observed(m) \/ TimedOut(m)
    /\ UNCHANGED <<world, pc, q, permitted, p, current, next, attempts, facts, missing,
                   result, baseline, truth>>
Stopped ==
    /\ Stopping /\ \A m \in Monitors : ~ToStop(m)
    /\ pc' = IF pc = "unwind" THEN "evaluate" ELSE "again"
    /\ UNCHANGED <<permitted, late, facts, missing>> /\ Quiet

\* Fault: the second observer is forgotten.
CleanOfOne == mon["gateway"].st # "none" => /\ mon["gateway"].obs = "result"
                                            /\ mon["gateway"].st = "closed"

Clean == \A m \in Monitors : mon[m].st # "none" => mon[m].obs = "result" /\ mon[m].st = "closed"

-----------------------------------------------------------------------------
(* The attempts, one for each transport *)

This == Order[next]

\* The loop ends when there is no attempt left or a permit is refused; the
\* observers then have 150 ms more, unless the deadline has passed.
EndOfAttempts == IF q.protected THEN "stop" ELSE "again"

\* Fault: the permit of the control is also that of the probe.
AttemptOnOnePermit ==
    /\ pc = "attempt" /\ next <= Len(Order)
    /\ \/ Refused /\ pc' = EndOfAttempts /\ UNCHANGED <<facts, missing>>
       \/ Passed /\ pc' = "probe" /\ UNCHANGED <<facts, missing>>
       \/ /\ isDeny /\ permitted /\ UNCHANGED permitted /\ pc' = "probe"
          /\ late' = IF admission = "good" THEN late ELSE late + 1
          /\ \/ ~ctxDone /\ Holds("dns.control", This, TRUE) /\ UNCHANGED missing
             \/ missing' = TRUE /\ UNCHANGED facts
    /\ Quiet

\* Every attempt has a permit before the positive control and another one
\* before the probe. The control asks another endpoint, with its own challenge;
\* an allowed source has none, and the endpoint of a denied one may name none.
Attempt ==
    /\ pc = "attempt" /\ next <= Len(Order)
    /\ \/ Refused /\ pc' = EndOfAttempts /\ UNCHANGED <<facts, missing>>
       \/ Passed /\ pc' = "probe" /\ UNCHANGED <<facts, missing>>
       \/ /\ isDeny /\ permitted /\ Tried /\ pc' = "probe"
          /\ \/ ~ctxDone /\ Holds("dns.control", This, TRUE) /\ UNCHANGED missing
             \/ missing' = TRUE /\ UNCHANGED facts
    /\ Quiet
NoAttemptLeft ==
    /\ pc = "attempt" /\ next > Len(Order)
    /\ pc' = EndOfAttempts
    /\ UNCHANGED <<permitted, late, facts, missing>> /\ Quiet

\* What the network does with a challenge: a chain that denies the source
\* keeps it from both points; otherwise it may be seen at any of them. An
\* observer's kernel filter queues it, queues only that something came by, or
\* drops it.
Reachable == IF isDeny /\ chain = "denies" THEN {} ELSE Monitors
Arrive(seenAt, how) ==
    [m \in Monitors |->
        IF m \notin seenAt \/ mon[m].st # "open" THEN mon[m]
        ELSE IF how[m] = "drop" THEN [mon[m] EXCEPT !.spoilt = TRUE]
        ELSE [mon[m] EXCEPT !.queue = @ \cup {<<This, how[m]>>}]]
Probe ==
    /\ pc = "probe"
    /\ \/ /\ Refused /\ pc' = EndOfAttempts
          /\ UNCHANGED <<mon, crossed>>
       \/ /\ permitted /\ Tried /\ pc' = "answer"
          /\ \E seenAt \in SUBSET Reachable : \E how \in [seenAt -> {"match", "meta", "drop"}] :
                /\ mon' = Arrive(seenAt, how)
                /\ crossed' = crossed \cup (seenAt \X {This})
    /\ UNCHANGED <<world, q, p, current, next, attempts, facts, missing, result, baseline>>

\* The probe ends with an answer that is usable or not, with silence, or with
\* an error, which says nothing. A denied source may be answered around the
\* gateway. An observer that is still open covers the attempt.
Answer ==
    /\ pc = "answer"
    /\ \E how \in {"usable", "unusable", "silent", "error"} :
          /\ how \in {"usable", "unusable"} => ~ctxDone
          /\ attempts' = [attempts EXCEPT ![This] = how]
    /\ mon' = [m \in Monitors |-> IF mon[m].st = "open"
                                  THEN [mon[m] EXCEPT !.covers = @ \cup {This}] ELSE mon[m]]
    /\ next' = next + 1
    /\ pc' = "attempt"
    /\ UNCHANGED <<world, q, permitted, p, current, facts, missing, result, baseline, truth>>

\* The chain is read again when the observers are stopped.
ReadPolicyAgain ==
    /\ pc = "again" /\ Tried
    /\ current' \in {Failed} \cup {c \in {chain} : permitted /\ ~ctxDone}
    /\ pc' = "derive"
    /\ UNCHANGED <<world, q, p, next, attempts, facts, missing, mon, result, baseline, crossed>>

-----------------------------------------------------------------------------
(* Facts and verdict *)

Seen(m, t) == t \in mon[m].seen
Covered(t) == \A m \in Monitors : mon[m].obs = "result" /\ ~mon[m].spoilt /\ t \in mon[m].covers
\* Fault: one observer is enough.
ThroughEither(t) == \E m \in Monitors : Seen(m, t)

Through(t) == \A m \in Monitors : Seen(m, t)
stable == p = current
Fact(prop, t, value, if) == {x \in {<<prop, t, value>>} : if}
Answered(t) == attempts[t] \in {"usable", "unusable"}

DenialFacts(t) ==
    Fact("dns.denied", t, ~Answered(t), TRUE)
    \cup Fact("isolation.coverage", t, TRUE, Covered(t))
    \cup Fact("isolation.absence", t, \A m \in Monitors : ~Seen(m, t), Covered(t))
    \cup Fact("isolation.boundary", t, TRUE, stable /\ p = "denies" /\ Closed)
    \cup Fact("guard.fail_closed", t, TRUE, stable /\ p = "denies" /\ Closed)
AccessFacts(t) ==
    Fact("dns.response", t, attempts[t] = "usable", Answered(t))
    \cup Fact("path.selection", t, TRUE, q.protected /\ Covered(t) /\ stable /\ Through(t))
    \cup Fact("guard.fail_closed", t, TRUE, q.protected /\ stable /\ Supported(p) /\ Closed)
Unseen(t) == q.protected /\ ~(Covered(t) /\ (isDeny \/ Through(t)))

\* The two readings of the chain are not used again.
Derive ==
    /\ pc = "derive"
    /\ LET made == {t \in Transports : attempts[t] \notin {None, "error"}}
       IN /\ facts' = facts \cup UNION {IF isDeny THEN DenialFacts(t) ELSE AccessFacts(t) : t \in made}
          /\ missing' = (missing \/ \E t \in made : Unseen(t))
    /\ pc' = "evaluate"
    /\ p' = Failed /\ current' = Failed
    /\ UNCHANGED <<world, q, permitted, next, attempts, mon, result, baseline, truth>>

\* The finite profiles: what must be shown, for each transport where it
\* depends on one.
Required ==
    CASE q.op = "gateway" -> {"gateway.binding", "gateway.interface_binding", "gateway.reader",
                              "gateway.policy_scope"} \X {None}
      [] q.op = "vpn" -> ({"vpn.binding", "vpn.peer_binding", "vpn.session_freshness",
                           "vpn.route_ownership"}
                          \cup (IF q.protected THEN {"vpn.path_selection", "vpn.fail_closed_guard"}
                                ELSE {})) \X {None}
      [] q.op = "access" -> ({"source.binding", "dns.response"}
                             \cup (IF q.protected THEN {"path.selection", "guard.fail_closed"}
                                   ELSE {})) \X Transports
      [] OTHER -> {"source.binding", "dns.control", "dns.denied", "isolation.baseline",
                   "isolation.coverage", "isolation.absence", "isolation.boundary"} \X Transports

\* validFact: within ten minutes, a baseline within its own ten, a handshake
\* within its three, and all of them within the window of the grant.
Valid(f, grounds) == /\ grounds = "kept"
                     /\ f[1] = "isolation.baseline" => baseline # None
                     /\ f[1] = "vpn.session_freshness" /\ f[3] => ~sessionOld

\* Fault: what is missing outranks a contradiction.
VerdictMissingFirst(believed, lacking) ==
    IF lacking THEN "UNVERIFIED"
    ELSE IF \E f \in believed : <<f[1], f[2]>> \in Required /\ ~f[3] THEN "VIOLATED"
    ELSE IF Clean /\ \A r \in Required : <<r[1], r[2], TRUE>> \in believed
    THEN "VERIFIED" ELSE "UNVERIFIED"

\* A contradiction outranks whatever is missing.
Verdict(believed, lacking) ==
    IF \E f \in believed : <<f[1], f[2]>> \in Required /\ ~f[3] THEN "VIOLATED"
    ELSE IF ~lacking /\ Clean /\ \A r \in Required : <<r[1], r[2], TRUE>> \in believed
    THEN "VERIFIED" ELSE "UNVERIFIED"

\* Evaluate, after the grant was read once more. Facts are void when its
\* window is over; a grant that cannot be read takes them away and is itself a
\* missing part.  Only the assessment is kept of what was collected.
Evaluate ==
    /\ pc = "evaluate"
    /\ \E grounds \in {"kept", "over", "unreadable"} :
          /\ grounds = "over" => admission = "ended"
          /\ result' = [verdict |-> Verdict({f \in facts : Valid(f, grounds)},
                                            missing \/ grounds = "unreadable"),
                        cleanup |-> Clean, grounds |-> grounds]
    /\ pc' = "save" /\ facts' = {} /\ missing' = FALSE
    /\ UNCHANGED <<world, q, permitted, p, current, next, attempts, mon, baseline, truth>>

\* SaveAssessment, or a failure of it; the command ends either way.
Save == pc = "save" /\ Return

-----------------------------------------------------------------------------
(* The world *)

ChainChanges == /\ pc # "evaluate"
                /\ \E c \in Chains \ {chain} : chain' = c
                /\ UNCHANGED <<admission, ctxDone, sessionOld, baseline>>
\* The registry moves on, or the grant is revoked, expires or disappears.
AdmissionEnds == /\ admission = "good" /\ admission' = "ended"
                 /\ UNCHANGED <<chain, ctxDone, sessionOld, baseline>>
DeadlinePasses == /\ ~ctxDone /\ ctxDone' = TRUE
                  /\ UNCHANGED <<chain, admission, sessionOld, baseline>>
TimePasses == /\ \/ q.op = "vpn" /\ sessionOld' = TRUE /\ UNCHANGED baseline
                 \/ baseline' = None /\ UNCHANGED sessionOld
              /\ UNCHANGED <<chain, admission, ctxDone>>
\* Nothing looks at the world while the observers are stopped, while the facts are derived
\* and after the verdict: what changes meanwhile is as if it changed right after.  Nor does
\* the verdict look at the chain.
World == /\ pc \notin {"idle", "stop", "unwind", "derive", "save"}
         /\ ChainChanges \/ AdmissionEnds \/ DeadlinePasses \/ TimePasses
         /\ UNCHANGED <<pc, q, permitted, p, current, next, attempts, facts, missing, mon,
                        result, truth>>

Init ==
    /\ chain \in Chains /\ admission = "good" /\ ctxDone = FALSE /\ sessionOld = FALSE
    /\ pc = "idle" /\ q = NoQuestion
    /\ permitted = FALSE /\ p = Failed /\ current = Failed /\ next = 1
    /\ attempts = [t \in Transports |-> None]
    /\ facts = {} /\ missing = FALSE
    /\ mon = [m \in Monitors |-> NoMonitor]
    /\ result = NoAssessment /\ baseline = None
    /\ crossed = {} /\ late = 0

Collector ==
    \/ Collect \/ ReadNative
    \/ Scope \/ Source \/ ReadPolicy \/ Coverage \/ Claim
    \/ ReadTunnel("tunnel", "peer") \/ ReadTunnel("peer", "first")
    \/ Start("gateway", "first", "second") \/ Start("resolver", "second", "attempt")
    \/ Attempt \/ NoAttemptLeft \/ Probe \/ Answer
    \/ \E m \in Monitors : StopMonitor(m)
    \/ Stopped \/ ReadPolicyAgain \/ Derive
Command == Permit \/ Admitted \/ NotAdmitted \/ Collector \/ Evaluate \/ Save

Next == \/ \E op \in Operations, protected \in BOOLEAN : Ask(op, protected)
        \/ Command
        \/ \E m \in Monitors : Exit(m)
        \/ World
Spec == Init /\ [][Next]_vars
-----------------------------------------------------------------------------
(* Properties *)

\* Metadata and grant are checked again before each native operation: once the
\* question has moved or the grant has ended, a verification begins one more
\* operation at most, the one whose permit it held already.
RevocationStopsOperations == late <= 1

\* An assessment that says cleanup has no open socket behind it, whatever way
\* the collector returned and whichever observer was slow.
CleanupIsTrue ==
    pc = "save" /\ result.cleanup => \A m \in Monitors : mon[m].st \in {"none", "closed"}

\* A verified isolation was never answered, and every challenge that passed an
\* observer is one that the kernel had queued and the observer did not read
\* before it was stopped: 150 ms of patience are all that excludes that.
AbsenceIsTrue ==
    pc = "save" /\ isDeny /\ result.verdict = "VERIFIED" =>
        /\ \A t \in Transports : attempts[t] = "silent"
        /\ \A x \in crossed : \E packet \in mon[x[1]].queue : packet[1] = x[2]

\* A verified access on a protected path was answered over every transport and
\* its challenges did pass both the gateway and the resolver's side.
PathWasTaken ==
    pc = "save" /\ q.op = "access" /\ q.protected /\ result.verdict = "VERIFIED" =>
        \A t \in Transports : attempts[t] = "usable" /\ Monitors \X {t} \subseteq crossed

\* A contradiction outranks what is missing: an isolation whose probe was
\* answered, or seen by an observer that covered it, is reported as violated
\* however the collection ended, as long as the grant's window is open.
LeakIsReported ==
    [][pc = "evaluate" /\ pc' = "save" /\ isDeny /\ result'.grounds = "kept"
       /\ (\E t \in Transports : \/ Answered(t)
                                  \/ /\ attempts[t] = "silent" /\ Covered(t)
                                     /\ \E m \in Monitors : Seen(m, t))
       => result'.verdict = "VIOLATED"]_vars

TypeOK ==
    /\ chain \in Chains /\ {p, current} \subseteq Chains \cup {Failed}
    /\ admission \in {"good", "ended"}
    /\ {ctxDone, sessionOld, permitted, missing} \subseteq BOOLEAN
    /\ pc \in Points \cup {"idle", "identity", "coverage", "answer", "stop", "unwind", "derive",
                           "evaluate", "save"}
    /\ q \in [op : Operations, protected : BOOLEAN]
    /\ next \in 1..(Len(Order) + 1) /\ late \in Nat
    /\ attempts \in [Transports -> {None, "usable", "unusable", "silent", "error"}]
    /\ facts \subseteq STRING \X (Transports \cup {None}) \X BOOLEAN
    /\ mon \in [Monitors ->
         [st : {"none", "open", "closed", "leaked"}, told : BOOLEAN,
          obs : {"none", "result", "timeout"}, queue : SUBSET (Transports \X {"match", "meta"}),
          spoilt : BOOLEAN, seen : SUBSET Transports, covers : SUBSET Transports]]
    /\ result \in [verdict : {None, "VERIFIED", "VIOLATED", "UNVERIFIED"}, cleanup : BOOLEAN,
                   grounds : {None, "kept", "over", "unreadable"}]
    /\ baseline \in {None} \cup Chains
    /\ crossed \subseteq Monitors \X Transports
=============================================================================
