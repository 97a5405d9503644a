-------------------------- MODULE NetVerifyProofs --------------------------
(***************************************************************************)
(* Proofs about NetVerify, for any order of transports, and about its      *)
(* composition with the reader of OpenWrt. The first invariant             *)
(* follows a challenge from the probe over the kernel's queue to what an   *)
(* observer reports, and a fact from the step that derived it to the       *)
(* verdict; the steps that do neither are Plain.                           *)
(***************************************************************************)
EXTENDS Collector, SequenceTheorems, WellFoundedInduction, TLAPS

Packets == Transports \X {"match", "meta"}
MonitorRecords == [st : {"none", "open", "closed", "leaked"}, told : BOOLEAN,
                   obs : {"none", "result", "timeout"}, queue : SUBSET Packets,
                   spoilt : BOOLEAN, seen : SUBSET Transports, covers : SUBSET Transports]
Outcomes == {None, "usable", "unusable", "silent", "error"}

\* The counting of operations.
Counted == /\ late \in {0, 1}
           /\ permitted \/ admission = "good" => late = 0

\* What a verdict was given on stays as it was.
Kept == pc = "save" /\ result.cleanup => \A m \in Monitors : mon[m].st \in {"none", "closed"}

Typed == /\ mon \in [Monitors -> MonitorRecords]
         /\ attempts \in [Transports -> Outcomes]
         /\ next \in 1..(Len(Order) + 1)
         /\ pc \in {"probe", "answer"} => next <= Len(Order)
         /\ crossed \subseteq Monitors \X Transports

\* Nothing crosses before the first probe, and what is not yet tried is None.
AfterProbe == {"attempt", "probe", "answer", "stop", "again", "derive", "evaluate", "save"}
Ordered == /\ pc \notin AfterProbe => crossed = {}
           /\ pc \notin AfterProbe \cup {"unwind"} => \A m \in Monitors : mon[m].obs = "none"
           /\ \A i \in next..Len(Order) : attempts[Order[i]] = None
           /\ \A m \in Monitors : \A t \in mon[m].covers : attempts[t] # None

Queued(m, t) == \E x \in mon[m].queue : x[1] = t
\* A challenge that crossed where an observer watches or watched is accounted
\* for, and an observer accounts for nothing else.
Traced == \A m \in Monitors :
    /\ mon[m].st = "open" => mon[m].seen = {} /\ mon[m].obs # "result"
    /\ \A t \in Transports :
         /\ <<m, t>> \in crossed /\ (mon[m].st = "open" \/ t \in mon[m].covers) =>
               mon[m].spoilt \/ t \in mon[m].seen \/ Queued(m, t)
         /\ t \in mon[m].seen \/ Queued(m, t) => <<m, t>> \in crossed

\* The facts that a verdict on a path rests on, and what they mean.
Watched == {"isolation.absence", "dns.denied", "path.selection", "dns.response"}
Founded ==
    /\ \A w \in Watched, t \in Transports : <<w, t, TRUE>> \in facts => pc \in {"evaluate", "save"}
    /\ \A t \in Transports :
         /\ <<"isolation.absence", t, TRUE>> \in facts =>
               Covered(t) /\ \A m \in Monitors : ~Seen(m, t)
         /\ <<"dns.denied", t, TRUE>> \in facts => attempts[t] = "silent"
         /\ <<"path.selection", t, TRUE>> \in facts => Covered(t) /\ Through(t)
         /\ <<"dns.response", t, TRUE>> \in facts => attempts[t] = "usable"
\* A verdict says the same when the facts are gone.
Judged ==
    pc = "save" /\ result.verdict = "VERIFIED" => \A t \in Transports :
        /\ isDeny => Covered(t) /\ (\A m \in Monitors : ~Seen(m, t)) /\ attempts[t] = "silent"
        /\ q.op = "access" => attempts[t] = "usable"
        /\ q.op = "access" /\ q.protected => Covered(t) /\ Through(t)

Inv == Typed /\ Ordered /\ Traced /\ Founded /\ Judged /\ Kept

-----------------------------------------------------------------------------

LEMMA OrderFacts ==
    /\ Len(Order) \in Nat
    /\ \A i \in 1..Len(Order) : Order[i] \in Transports
    /\ \A i, j \in 1..Len(Order) : Order[i] = Order[j] => i = j
BY OrderAssumption DEF Transports

\* A step that touches neither packets nor watched facts.
Plain == /\ UNCHANGED <<mon, attempts, next, crossed, result, q>>
         /\ \A w \in Watched, t \in Transports : <<w, t, TRUE>> \in facts' => <<w, t, TRUE>> \in facts
         /\ facts \subseteq facts'
         /\ pc' = "save" => pc = "save"
         /\ pc \in {"evaluate", "save"} => pc' = pc
         /\ pc \in AfterProbe => pc' \in AfterProbe
         /\ pc = "unwind" => pc' \in AfterProbe \cup {"unwind"}
         /\ pc' \in {"probe", "answer"} => next <= Len(Order)
         /\ pc' = "evaluate" => pc = "evaluate" \/ pc \notin AfterProbe

LEMMA PlainStep == Inv /\ Plain => Inv'
<1> SUFFICES ASSUME Inv, Plain PROVE Inv'
  OBVIOUS
<1>1. Typed' /\ Ordered' /\ Kept'
  BY DEF Inv, Plain, Typed, Ordered, Kept
<1>2. Traced'
  BY DEF Inv, Plain, Traced, Queued
<1>3. Founded'
  <2>1. \A w \in Watched, t \in Transports :
           <<w, t, TRUE>> \in facts' => <<w, t, TRUE>> \in facts /\ pc' \in {"evaluate", "save"}
    BY DEF Inv, Plain, Founded
  <2>3. \A t \in Transports : /\ Covered(t)' = Covered(t) /\ Through(t)' = Through(t)
                              /\ \A m \in Monitors : Seen(m, t)' = Seen(m, t)
    BY DEF Plain, Covered, Through, Seen
  <2> QED BY <2>1, <2>3 DEF Inv, Plain, Founded, Watched
<1>4. Judged'
  BY DEF Inv, Plain, Judged, isDeny, Covered, Through, Seen
<1> QED BY <1>1, <1>2, <1>3, <1>4 DEF Inv

LEMMA ReadsArePlain == ASSUME Typed PROVE
    ReadNative \/ Collect \/ Scope \/ Source \/ ReadPolicy \/ Coverage \/ Claim
    \/ ReadTunnel("tunnel", "peer") \/ ReadTunnel("peer", "first") => Plain
<1> USE DEF Quiet, Plain, Watched, AfterProbe
<1>a. ASSUME NEW prop \in {"gateway.interface_binding", "vpn.binding", "vpn.peer_binding",
                            "vpn.route_ownership", "vpn.path_selection"},
             NEW here \in {"interface", "bound", "allowed", "route", "selection"},
             NEW after \in {"chain", "allowed", "session", "guard", "evaluate"},
             ReadFact(here, prop, after)
      PROVE  Plain
  <2>1. facts' = facts \/ \E value \in BOOLEAN : facts' = facts \cup {<<prop, None, value>>}
    BY <1>a DEF ReadFact, Holds
  <2>2. \A w \in Watched, t \in Transports : <<w, t, TRUE>> \in facts' => <<w, t, TRUE>> \in facts
    BY <1>a, <2>1
  <2> QED BY <1>a, <2>1, <2>2 DEF ReadFact
<1>1. ReadNative => Plain
  <2> SUFFICES ASSUME ReadNative PROVE Plain
    OBVIOUS
  <2>1. CASE Identity
    BY <2>1 DEF Identity, Holds
  <2>2. CASE ReadFact("interface", "gateway.interface_binding", "chain")
    BY <2>2, <1>a
  <2>3. CASE ReadGatewayChain
    <3>1. facts' = facts \/ facts' = facts \cup {<<"gateway.reader", None, TRUE>>}
              \cup {x \in {<<"gateway.policy_scope", None, TRUE>>} : Supported(chain)}
      BY <2>3 DEF ReadGatewayChain
    <3>2. facts \subseteq facts'
      BY <3>1
    <3>a. \A f \in facts' : f \in facts \/ f = <<"gateway.reader", None, TRUE>>
                                        \/ f = <<"gateway.policy_scope", None, TRUE>>
      BY <3>1
    <3>3. \A w \in Watched, t \in Transports : <<w, t, TRUE>> \in facts' => <<w, t, TRUE>> \in facts
      BY <3>a
    <3>4. /\ pc = "chain" /\ pc' = "evaluate"
          /\ UNCHANGED <<mon, attempts, next, crossed, result, q>>
      BY <2>3 DEF ReadGatewayChain
    <3> QED BY <3>2, <3>3, <3>4
  <2>4. CASE ReadFact("bound", "vpn.binding", "allowed")
    BY <2>4, <1>a
  <2>5. CASE ReadFact("allowed", "vpn.peer_binding", "session")
    BY <2>5, <1>a
  <2>6. CASE ReadSession
    BY <2>6 DEF ReadSession, Holds
  <2>7. CASE ReadFact("route", "vpn.route_ownership", AfterRoute)
    BY <2>7, <1>a DEF AfterRoute
  <2>8. CASE ReadGuard
    <3>1. facts' = facts \/ facts' = facts \cup {<<"vpn.fail_closed_guard", None, TRUE>>}
      BY <2>8 DEF ReadGuard, Holds
    <3>2. /\ pc = "guard" /\ pc' \in {"evaluate", "selection"}
          /\ UNCHANGED <<mon, attempts, next, crossed, result, q>>
      BY <2>8 DEF ReadGuard
    <3>3. \A f \in facts' : f \in facts \/ f = <<"vpn.fail_closed_guard", None, TRUE>>
      BY <3>1
    <3>4. \A w \in Watched, t \in Transports : <<w, t, TRUE>> \in facts' => <<w, t, TRUE>> \in facts
      BY <3>3
    <3>5. facts \subseteq facts'
      BY <3>1
    <3> QED BY <3>2, <3>4, <3>5
  <2>9. CASE ReadFact("selection", "vpn.path_selection", "evaluate")
    BY <2>9, <1>a
  <2> QED BY <2>1, <2>2, <2>3, <2>4, <2>5, <2>6, <2>7, <2>8, <2>9 DEF ReadNative
<1>2. CASE Collect
  BY <1>2 DEF Collect
<1>3. CASE Scope \/ ReadPolicy
  BY <1>3 DEF Scope, ReadPolicy
<1>4. ASSUME Source \/ Coverage PROVE Plain
  <2>1. \/ facts' = facts
        \/ facts' = facts \cup {<<"source.binding", t, TRUE>> : t \in Transports}
        \/ facts' = facts \cup {<<"isolation.baseline", t, TRUE>> : t \in Transports}
    BY <1>4 DEF Source, Coverage, Each
  <2>2. facts \subseteq facts'
    BY <2>1
  <2>a. \A f \in facts' : f \in facts \/ \E t \in Transports : \/ f = <<"source.binding", t, TRUE>>
                                                            \/ f = <<"isolation.baseline", t, TRUE>>
    BY <2>1
  <2>3. \A w \in Watched, t \in Transports : <<w, t, TRUE>> \in facts' => <<w, t, TRUE>> \in facts
    BY <2>a
  <2>4. /\ pc \in {"source", "coverage"} /\ pc' \in {"policy", "claim", "evaluate"}
        /\ UNCHANGED <<mon, attempts, next, crossed, result, q>>
    BY <1>4 DEF Source, Coverage
  <2> QED BY <2>2, <2>3, <2>4
<1>5. CASE Claim
  BY <1>5 DEF Claim
<1>6. CASE ReadTunnel("tunnel", "peer") \/ ReadTunnel("peer", "first")
  BY <1>6 DEF ReadTunnel
<1> QED BY <1>1, <1>2, <1>3, <1>4, <1>5, <1>6

LEMMA OthersArePlain == ASSUME Typed PROVE
    Permit \/ Admitted \/ Attempt \/ NoAttemptLeft \/ Stopped \/ ReadPolicyAgain \/ World => Plain
<1> USE DEF Quiet, Plain, Watched, AfterProbe
<1>1. ASSUME Permit \/ Admitted PROVE Plain
  BY <1>1 DEF Permit, Admitted, Passed, Points, Typed, truth
<1>2. ASSUME Attempt PROVE Plain
  <2>1. facts' = facts \/ facts' = facts \cup {<<"dns.control", This, TRUE>>}
    BY <1>2 DEF Attempt, Holds
  <2>2. /\ pc = "attempt" /\ pc' \in {"probe", "stop", "again"} /\ next <= Len(Order)
        /\ UNCHANGED <<mon, attempts, next, crossed, result, q>>
    BY <1>2 DEF Attempt, EndOfAttempts
  <2>3. \A w \in Watched, t \in Transports : <<w, t, TRUE>> # <<"dns.control", This, TRUE>>
    OBVIOUS
  <2>4. \A w \in Watched, t \in Transports : <<w, t, TRUE>> \in facts' => <<w, t, TRUE>> \in facts
    BY <2>1, <2>3
  <2>5. facts \subseteq facts'
    BY <2>1
  <2> QED BY <2>2, <2>4, <2>5
<1>3. ASSUME NoAttemptLeft \/ Stopped PROVE Plain
  BY <1>3 DEF NoAttemptLeft, Stopped, Stopping, EndOfAttempts
<1>4. ASSUME ReadPolicyAgain PROVE Plain
  BY <1>4 DEF ReadPolicyAgain
<1>5. ASSUME World PROVE Plain
  BY <1>5 DEF World, Typed, truth
<1> QED BY <1>1, <1>2, <1>3, <1>4, <1>5

\* A command that starts or ends has nothing of the one before.
LEMMA FreshStep == ASSUME Fresh, pc' \in {"idle", "admit"} PROVE Inv'
<1>1. mon' = [m \in Monitors |-> NoMonitor] /\ attempts' = [t \in Transports |-> None]
      /\ next' = 1 /\ crossed' = {} /\ facts' = {}
  BY DEF Fresh
<1>2. NoMonitor \in MonitorRecords /\ NoMonitor.seen = {} /\ NoMonitor.queue = {}
      /\ NoMonitor.covers = {} /\ NoMonitor.obs = "none"
  BY DEF NoMonitor, MonitorRecords
<1>3. Typed'
  BY <1>1, <1>2, OrderFacts DEF Typed, Outcomes
<1>4. Ordered'
  BY <1>1, <1>2, OrderFacts DEF Ordered
<1>5. Traced'
  BY <1>1, <1>2 DEF Traced, Queued
<1>6. Founded' /\ Judged' /\ Kept'
  BY <1>1 DEF Founded, Judged, Kept
<1> QED BY <1>3, <1>4, <1>5, <1>6 DEF Inv

LEMMA InitInv == Init => Inv
<1> SUFFICES ASSUME Init PROVE Inv
  OBVIOUS
<1>1. mon = [m \in Monitors |-> NoMonitor] /\ attempts = [t \in Transports |-> None]
      /\ next = 1 /\ crossed = {} /\ facts = {} /\ pc = "idle"
  BY DEF Init
<1>2. NoMonitor \in MonitorRecords /\ NoMonitor.seen = {} /\ NoMonitor.queue = {}
      /\ NoMonitor.covers = {} /\ NoMonitor.obs = "none"
  BY DEF NoMonitor, MonitorRecords
<1>3. Typed /\ Ordered
  BY <1>1, <1>2, OrderFacts DEF Typed, Outcomes, Ordered
<1>4. Traced
  BY <1>1, <1>2 DEF Traced, Queued
<1>5. Founded /\ Judged /\ Kept
  BY <1>1 DEF Founded, Judged, Kept
<1> QED BY <1>3, <1>4, <1>5 DEF Inv

LEMMA StartKeeps ==
    Inv /\ (Start("gateway", "first", "second") \/ Start("resolver", "second", "attempt")) => Inv'
<1> SUFFICES ASSUME Inv, Start("gateway", "first", "second") \/ Start("resolver", "second", "attempt")
             PROVE  Inv'
  OBVIOUS
<1>1. /\ pc \in {"first", "second"} /\ pc' \in {"second", "attempt", "unwind"}
      /\ UNCHANGED <<q, next, attempts, facts, result, crossed>>
  BY DEF Start
<1>2. mon' = mon \/ \E m \in Monitors : mon' = [mon EXCEPT ![m].st = "open"]
  BY DEF Start, Open, Monitors
<1>3. crossed = {} /\ \A m \in Monitors : mon[m].obs = "none" /\ mon[m].seen = {}
  BY <1>1 DEF Inv, Ordered, Traced, AfterProbe, Typed, MonitorRecords
<1>4. \A m \in Monitors : /\ mon'[m] \in MonitorRecords /\ mon'[m].obs = "none" /\ mon'[m].seen = {}
                          /\ mon'[m].queue = mon[m].queue /\ mon'[m].covers = mon[m].covers
  BY <1>2, <1>3 DEF Inv, Typed, MonitorRecords
<1>5. Typed'
  BY <1>1, <1>2, <1>4 DEF Inv, Typed
<1>6. Ordered' /\ Traced'
  BY <1>1, <1>3, <1>4 DEF Inv, Ordered, Traced, Queued
<1>7. Founded' /\ Judged' /\ Kept'
  BY <1>1 DEF Inv, Founded, Judged, Kept, Watched
<1> QED BY <1>5, <1>6, <1>7 DEF Inv

LEMMA CoveringRecord == ASSUME NEW r \in MonitorRecords, NEW S \in SUBSET Transports
    PROVE [r EXCEPT !.covers = S] \in MonitorRecords
BY DEF MonitorRecords

LEMMA AnswerKeeps == Inv /\ Answer => Inv'
<1> SUFFICES ASSUME Inv, Answer PROVE Inv'
  OBVIOUS
<1>1. /\ pc = "answer" /\ pc' = "attempt" /\ next <= Len(Order) /\ next' = next + 1
      /\ UNCHANGED <<q, facts, result, crossed>> /\ This \in Transports
  BY OrderFacts DEF Answer, truth, Inv, Typed, This
<1>2. PICK how \in Outcomes \ {None} : attempts' = [attempts EXCEPT ![This] = how]
  BY DEF Answer, Outcomes, None
<1>b. mon' = [m \in Monitors |-> IF mon[m].st = "open"
                                THEN [mon[m] EXCEPT !.covers = @ \cup {This}] ELSE mon[m]]
  BY DEF Answer
<1>c. \A m \in Monitors : mon[m] \in MonitorRecords
  BY DEF Inv, Typed
<1>a. \A m \in Monitors : mon[m] \in MonitorRecords /\ mon'[m] =
        IF mon[m].st = "open" THEN [mon[m] EXCEPT !.covers = @ \cup {This}] ELSE mon[m]
  BY <1>b, <1>c
<1>d. \A m \in Monitors : mon'[m].covers =
        IF mon[m].st = "open" THEN mon[m].covers \cup {This} ELSE mon[m].covers
  BY <1>a DEF MonitorRecords
<1>e. \A m \in Monitors : mon'[m] \in MonitorRecords
  <2> SUFFICES ASSUME NEW m \in Monitors PROVE mon'[m] \in MonitorRecords
    OBVIOUS
  <2>1. PICK r \in MonitorRecords : r = mon[m]
    BY <1>c
  <2>2. PICK S \in SUBSET Transports : S = r.covers \cup {This}
    BY <1>1 DEF MonitorRecords
  <2>3. mon'[m] = IF r.st = "open" THEN [r EXCEPT !.covers = S] ELSE r
    BY <1>a, <2>1, <2>2
  <2> QED BY <2>3, CoveringRecord
<1>3. \A m \in Monitors :
        /\ mon'[m] \in MonitorRecords
        /\ mon[m].covers \subseteq mon'[m].covers /\ mon'[m].covers \subseteq mon[m].covers \cup {This}
        /\ mon[m].st # "open" => mon'[m].covers = mon[m].covers
  BY <1>d, <1>e
<1>4. \A m \in Monitors : /\ mon'[m].st = mon[m].st /\ mon'[m].obs = mon[m].obs
                          /\ mon'[m].queue = mon[m].queue /\ mon'[m].spoilt = mon[m].spoilt
                          /\ mon'[m].seen = mon[m].seen
  BY <1>a DEF MonitorRecords
<1>5. Typed'
  <2>1. mon' \in [Monitors -> MonitorRecords]
    BY <1>3 DEF Answer
  <2>2. next' \in 1..(Len(Order) + 1)
    BY <1>1, OrderFacts DEF Inv, Typed
  <2> QED BY <1>1, <1>2, <2>1, <2>2 DEF Inv, Typed
<1>6. Ordered'
  <2>1. \A i \in next'..Len(Order) : attempts'[Order[i]] = None
    <3> SUFFICES ASSUME NEW i \in next'..Len(Order) PROVE attempts'[Order[i]] = None
      OBVIOUS
    <3>1. Order[i] \in Transports /\ Order[i] # This /\ attempts[Order[i]] = None
      BY <1>1, OrderFacts DEF Inv, Typed, Ordered, This
    <3> QED BY <1>2, <3>1 DEF Inv, Typed
  <2>2. \A m \in Monitors : \A t \in mon'[m].covers : attempts'[t] # None
    BY <1>1, <1>2, <1>3 DEF Inv, Typed, Ordered, MonitorRecords
  <2> QED BY <1>1, <2>1, <2>2 DEF Ordered, AfterProbe
<1>7. Traced'
  BY <1>1, <1>3, <1>4 DEF Inv, Traced, Queued
<1>8. Founded' /\ Judged' /\ Kept'
  BY <1>1 DEF Inv, Founded, Judged, Kept, Watched
<1> QED BY <1>5, <1>6, <1>7, <1>8 DEF Inv

\* A goroutine that ends either reports what it read or nothing.
LEMMA ExitKeeps == ASSUME Inv, NEW m \in Monitors, Exit(m) PROVE Inv'
<1>1. /\ mon[m].st = "open" /\ mon[m].obs # "result" /\ mon[m].seen = {} /\ mon[m] \in MonitorRecords
      /\ UNCHANGED <<pc, q, next, attempts, facts, result, crossed>>
  BY DEF Exit, Inv, Traced, Typed, truth
<1>2. PICK read \in SUBSET mon[m].queue, broken \in BOOLEAN, shut \in BOOLEAN :
        mon' = [mon EXCEPT ![m] =
                IF broken \/ ~shut \/ Spoilt(m, read)
                THEN [NoMonitor EXCEPT !.st = IF shut THEN "closed" ELSE "leaked",
                                       !.told = TRUE, !.spoilt = TRUE]
                ELSE [mon[m] EXCEPT !.st = "closed", !.told = TRUE, !.queue = @ \ read,
                               !.seen = {x[1] : x \in {y \in read : y[2] = "match"}}]]
  BY DEF Exit
<1> DEFINE said == {x[1] : x \in {y \in read : y[2] = "match"}}
<1>3. said \in SUBSET Transports /\ read \in SUBSET Packets
  BY <1>1 DEF MonitorRecords, Packets
<1>4. /\ \A n \in Monitors \ {m} : mon'[n] = mon[n]
      /\ mon'[m].st # "open"
      /\ mon'[m].obs # "result" /\ (mon[m].obs = "none" => mon'[m].obs = "none")
      /\ \/ /\ mon'[m].spoilt /\ mon'[m].seen = {} /\ mon'[m].queue = {} /\ mon'[m].covers = {}
         \/ /\ ~Spoilt(m, read) /\ mon'[m].spoilt = mon[m].spoilt /\ mon'[m].covers = mon[m].covers
            /\ mon'[m].queue = mon[m].queue \ read /\ mon'[m].seen = said
  <2>1. CASE broken \/ ~shut \/ Spoilt(m, read)
    BY <1>1, <1>2, <2>1 DEF NoMonitor, Inv, Typed
  <2>2. CASE ~(broken \/ ~shut \/ Spoilt(m, read))
    <3>1. mon' = [mon EXCEPT ![m] = [mon[m] EXCEPT !.st = "closed", !.told = TRUE,
                                                   !.queue = @ \ read, !.seen = said]]
      BY <1>2, <2>2
    <3> HIDE DEF said
    <3>2. mon'[m] = [mon[m] EXCEPT !.st = "closed", !.told = TRUE, !.queue = @ \ read, !.seen = said]
          /\ \A n \in Monitors \ {m} : mon'[n] = mon[n]
      BY <3>1 DEF Inv, Typed
    <3>3. /\ mon'[m].st = "closed" /\ mon'[m].obs = mon[m].obs /\ mon'[m].spoilt = mon[m].spoilt
          /\ mon'[m].covers = mon[m].covers /\ mon'[m].queue = mon[m].queue \ read /\ mon'[m].seen = said
      BY <1>1, <3>2 DEF MonitorRecords
    <3> QED BY <1>1, <2>2, <3>2, <3>3
  <2> QED BY <2>1, <2>2
<1>5. mon' \in [Monitors -> MonitorRecords]
  <2> HIDE DEF said
  <2>1. PICK r \in MonitorRecords : r = mon[m]
    BY <1>1
  <2>2. PICK Q \in SUBSET Packets : Q = r.queue \ read
    BY <2>1 DEF MonitorRecords
  <2>3. [r EXCEPT !.st = "closed", !.told = TRUE, !.queue = Q, !.seen = said] \in MonitorRecords
    BY <1>3 DEF MonitorRecords
  <2>4. \A st \in {"closed", "leaked"} :
          [NoMonitor EXCEPT !.st = st, !.told = TRUE, !.spoilt = TRUE] \in MonitorRecords
    BY DEF NoMonitor, MonitorRecords
  <2>5. \/ \E st \in {"closed", "leaked"} :
             mon' = [mon EXCEPT ![m] = [NoMonitor EXCEPT !.st = st, !.told = TRUE, !.spoilt = TRUE]]
        \/ mon' = [mon EXCEPT ![m] = [r EXCEPT !.st = "closed", !.told = TRUE, !.queue = Q, !.seen = said]]
    BY <1>2, <2>1, <2>2 DEF said
  <2> QED BY <2>3, <2>4, <2>5 DEF Inv, Typed
<1>6. Typed' /\ Ordered'
  BY <1>1, <1>4, <1>5 DEF Inv, Typed, Ordered
<1>7. Traced'
  <2>1. CASE mon'[m].spoilt /\ mon'[m].seen = {} /\ mon'[m].queue = {}
    BY <1>1, <1>4, <2>1 DEF Inv, Traced, Queued
  <2>2. CASE /\ ~Spoilt(m, read) /\ mon'[m].spoilt = mon[m].spoilt /\ mon'[m].covers = mon[m].covers
             /\ mon'[m].queue = mon[m].queue \ read /\ mon'[m].seen = said
    <3>1. \A x \in read : x[2] = "match" /\ x[1] \in said
      BY <1>3, <2>2 DEF Spoilt, Packets
    <3>2. \A t \in said : \E x \in mon[m].queue : x[1] = t
      OBVIOUS
    <3> HIDE DEF said
    <3>3. \A t \in Transports : Queued(m, t) <=> t \in mon'[m].seen \/ Queued(m, t)'
      BY <2>2, <3>1, <3>2 DEF Queued
    <3>4. \A n \in Monitors \ {m}, t \in Transports : Queued(n, t)' = Queued(n, t)
      BY <1>4 DEF Queued
    <3> QED BY <1>1, <1>4, <2>2, <3>3, <3>4 DEF Inv, Traced
  <2> QED BY <1>4, <2>1, <2>2
<1>8. Founded' /\ Judged' /\ Kept'
  <2>1. \A t \in Transports : ~Covered(t)
    BY <1>1 DEF Covered
  <2>2. pc = "save" => ~result.cleanup
    BY <1>1 DEF Inv, Kept
  <2> QED BY <1>1, <2>1, <2>2 DEF Inv, Founded, Judged, Kept, isDeny
<1> QED BY <1>6, <1>7, <1>8 DEF Inv

LEMMA StopKeeps == ASSUME Inv, NEW m \in Monitors, StopMonitor(m) PROVE Inv'
<1>1. /\ pc \in {"stop", "unwind"} /\ mon[m] \in MonitorRecords
      /\ UNCHANGED <<pc, q, next, attempts, facts, result, crossed>>
  BY DEF StopMonitor, Cancel, Observed, TimedOut, Stopping, Inv, Typed, truth
<1>2. /\ \A n \in Monitors \ {m} : mon'[n] = mon[n]
      /\ mon' \in [Monitors -> MonitorRecords]
      /\ mon'[m].obs = "result" => mon'[m].st # "open"
      /\ \/ /\ mon'[m].spoilt /\ mon'[m].seen = {} /\ mon'[m].queue = {} /\ mon'[m].covers = {}
         \/ /\ mon'[m].st = mon[m].st /\ mon'[m].seen = mon[m].seen /\ mon'[m].queue = mon[m].queue
            /\ mon'[m].spoilt = mon[m].spoilt /\ mon'[m].covers = mon[m].covers
  <2>1. CASE Cancel(m)
    <3>1. [mon[m] EXCEPT !.told = TRUE] \in MonitorRecords
      BY <1>1 DEF MonitorRecords
    <3>2. mon' = [mon EXCEPT ![m] = [mon[m] EXCEPT !.told = TRUE]]
      BY <2>1 DEF Cancel, Inv, Typed, MonitorRecords
    <3>3. mon[m].obs # "result"
      BY <2>1 DEF Cancel, ToStop
    <3>4. mon' \in [Monitors -> MonitorRecords] /\ mon'[m] = [mon[m] EXCEPT !.told = TRUE]
      BY <3>1, <3>2 DEF Inv, Typed
    <3> QED BY <1>1, <3>2, <3>3, <3>4 DEF Inv, Typed, MonitorRecords
  <2>2. CASE Observed(m)
    <3>1. [mon[m] EXCEPT !.obs = "result"] \in MonitorRecords
      BY <1>1 DEF MonitorRecords
    <3>2. mon' = [mon EXCEPT ![m] = [mon[m] EXCEPT !.obs = "result"]] /\ mon[m].st # "open"
      BY <2>2 DEF Observed, Inv, Typed, MonitorRecords
    <3>3. mon' \in [Monitors -> MonitorRecords] /\ mon'[m] = [mon[m] EXCEPT !.obs = "result"]
      BY <3>1, <3>2 DEF Inv, Typed
    <3> QED BY <1>1, <3>2, <3>3 DEF Inv, Typed, MonitorRecords
  <2>3. CASE TimedOut(m)
    <3>1. PICK st \in {"none", "open", "closed", "leaked"} : st = mon[m].st
      BY <1>1 DEF MonitorRecords
    <3>2. mon' = [mon EXCEPT ![m] = [NoMonitor EXCEPT !.st = st, !.told = TRUE,
                                     !.obs = "timeout", !.spoilt = TRUE]]
      BY <2>3, <3>1 DEF TimedOut
    <3>3. [NoMonitor EXCEPT !.st = st, !.told = TRUE, !.obs = "timeout", !.spoilt = TRUE]
             \in MonitorRecords
      BY DEF NoMonitor, MonitorRecords
    <3>4. mon' \in [Monitors -> MonitorRecords]
      BY <3>2, <3>3 DEF Inv, Typed
    <3> QED BY <3>2, <3>4 DEF NoMonitor, Inv, Typed
  <2> QED BY <2>1, <2>2, <2>3 DEF StopMonitor
<1>3. Typed' /\ Ordered'
  BY <1>1, <1>2 DEF Inv, Typed, Ordered, AfterProbe
<1>4. Traced'
  BY <1>1, <1>2 DEF Inv, Traced, Queued
<1>5. Founded' /\ Judged' /\ Kept'
  BY <1>1 DEF Inv, Founded, Judged, Kept, Watched
<1> QED BY <1>3, <1>4, <1>5 DEF Inv

LEMMA QueueingRecord == ASSUME NEW r \in MonitorRecords, NEW S \in SUBSET Packets
    PROVE /\ [r EXCEPT !.queue = S] \in MonitorRecords
          /\ [r EXCEPT !.spoilt = TRUE] \in MonitorRecords
BY DEF MonitorRecords

\* A probe is for a transport that no observer covers yet: a challenge that
\* passes an observer now is queued or spoils it.
LEMMA ProbeKeeps == Inv /\ Probe => Inv'
<1> SUFFICES ASSUME Inv, Probe PROVE Inv'
  OBVIOUS
<1>1. /\ pc = "probe" /\ next <= Len(Order) /\ This \in Transports
      /\ UNCHANGED <<q, next, attempts, facts, result>>
      /\ \A m \in Monitors : This \notin mon[m].covers
  BY OrderFacts DEF Probe, Inv, Typed, Ordered, This
<1>2. CASE Refused
  <2>1. Plain
    BY <1>1, <1>2 DEF Probe, Refused, Plain, EndOfAttempts, AfterProbe
  <2> QED BY <2>1, PlainStep
<1>3. CASE pc' = "answer" /\ \E seenAt \in SUBSET Reachable :
               \E how \in [seenAt -> {"match", "meta", "drop"}] :
                  mon' = Arrive(seenAt, how) /\ crossed' = crossed \cup (seenAt \X {This})
  <2>0. PICK seenAt \in SUBSET Monitors : \E how \in [seenAt -> {"match", "meta", "drop"}] :
          mon' = Arrive(seenAt, how) /\ crossed' = crossed \cup (seenAt \X {This})
    BY <1>3 DEF Reachable
  <2>1. PICK how \in [seenAt -> {"match", "meta", "drop"}] :
          mon' = Arrive(seenAt, how) /\ crossed' = crossed \cup (seenAt \X {This})
    BY <2>0
  <2>2. \A m \in Monitors : mon[m] \in MonitorRecords /\ mon'[m] =
          IF m \notin seenAt \/ mon[m].st # "open" THEN mon[m]
          ELSE IF how[m] = "drop" THEN [mon[m] EXCEPT !.spoilt = TRUE]
          ELSE [mon[m] EXCEPT !.queue = @ \cup {<<This, how[m]>>}]
    BY <2>1 DEF Arrive, Inv, Typed
  <2>3. \A m \in Monitors :
          /\ mon'[m].st = mon[m].st /\ mon'[m].obs = mon[m].obs
          /\ mon'[m].seen = mon[m].seen /\ mon'[m].covers = mon[m].covers
          /\ mon[m].spoilt => mon'[m].spoilt
    BY <2>2 DEF MonitorRecords
  <2>a. \A m \in Monitors :
          \/ mon'[m].queue = mon[m].queue /\ (m \in seenAt /\ mon[m].st = "open" => mon'[m].spoilt)
          \/ m \in seenAt /\ mon'[m].queue = mon[m].queue \cup {<<This, how[m]>>}
    BY <2>2 DEF MonitorRecords
  <2>4. \A m \in Monitors : mon'[m] \in MonitorRecords
    <3> SUFFICES ASSUME NEW m \in Monitors PROVE mon'[m] \in MonitorRecords
      OBVIOUS
    <3>1. PICK r \in MonitorRecords : r = mon[m]
      BY <2>2
    <3>2. CASE m \in seenAt /\ how[m] # "drop"
      <4>1. <<This, how[m]>> \in Packets
        BY <1>1, <3>2 DEF Packets
      <4>2. PICK S \in SUBSET Packets : S = r.queue \cup {<<This, how[m]>>}
        BY <4>1 DEF MonitorRecords
      <4> QED BY <2>2, <3>1, <3>2, <4>2, QueueingRecord
    <3>3. CASE ~(m \in seenAt /\ how[m] # "drop")
      BY <2>2, <3>1, <3>3, QueueingRecord
    <3> QED BY <3>2, <3>3
  <2>5. Typed'
    <3>1. mon' \in [Monitors -> MonitorRecords]
      BY <2>1, <2>4 DEF Arrive
    <3>2. crossed' \subseteq Monitors \X Transports
      BY <1>1, <2>1 DEF Inv, Typed
    <3> QED BY <1>1, <3>1, <3>2 DEF Inv, Typed
  <2>6. Ordered'
    BY <1>1, <1>3, <2>3 DEF Inv, Ordered, AfterProbe
  <2>7. Traced'
    <3>1. \A m \in Monitors, t \in Transports : Queued(m, t) => Queued(m, t)'
      BY <2>a DEF Queued
    <3>2. ASSUME NEW m \in Monitors, NEW t \in Transports, Queued(m, t)'
          PROVE  Queued(m, t) \/ (m \in seenAt /\ t = This)
      <4>1. PICK x \in mon'[m].queue : x[1] = t
        BY <3>2 DEF Queued
      <4>2. CASE x \in mon[m].queue
        BY <4>1, <4>2 DEF Queued
      <4>3. CASE m \in seenAt /\ x = <<This, how[m]>>
        BY <4>1, <4>3
      <4> QED BY <4>1, <4>2, <4>3, <2>a
    <3>3. ASSUME NEW m \in Monitors, m \in seenAt, mon[m].st = "open"
          PROVE  mon'[m].spoilt \/ \E x \in mon'[m].queue : x[1] = This
      <4>1. <<This, how[m]>>[1] = This
        OBVIOUS
      <4>2. CASE <<This, how[m]>> \in mon'[m].queue
        BY <4>1, <4>2
      <4>3. mon'[m].spoilt \/ <<This, how[m]>> \in mon'[m].queue
        BY <2>a, <3>3
      <4> QED BY <4>2, <4>3
    <3>4. \A m \in Monitors, t \in Transports :
            <<m, t>> \in crossed' <=> <<m, t>> \in crossed \/ (m \in seenAt /\ t = This)
      BY <2>1
    <3>5. ASSUME NEW m \in Monitors PROVE
             /\ mon'[m].st = "open" => mon'[m].seen = {} /\ mon'[m].obs # "result"
             /\ \A t \in Transports :
                  /\ <<m, t>> \in crossed' /\ (mon'[m].st = "open" \/ t \in mon'[m].covers) =>
                        mon'[m].spoilt \/ t \in mon'[m].seen \/ Queued(m, t)'
                  /\ t \in mon'[m].seen \/ Queued(m, t)' => <<m, t>> \in crossed'
      <4>1. /\ mon[m].st = "open" => mon[m].seen = {} /\ mon[m].obs # "result"
            /\ \A t \in Transports :
                 /\ <<m, t>> \in crossed /\ (mon[m].st = "open" \/ t \in mon[m].covers) =>
                       mon[m].spoilt \/ t \in mon[m].seen \/ Queued(m, t)
                 /\ t \in mon[m].seen \/ Queued(m, t) => <<m, t>> \in crossed
        BY DEF Inv, Traced
      <4>2. \A t \in Transports : <<m, t>> \in crossed' /\ (mon'[m].st = "open" \/ t \in mon'[m].covers)
              => mon'[m].spoilt \/ t \in mon'[m].seen \/ Queued(m, t)'
        <5> SUFFICES ASSUME NEW t \in Transports, <<m, t>> \in crossed',
                            mon'[m].st = "open" \/ t \in mon'[m].covers
                     PROVE  mon'[m].spoilt \/ t \in mon'[m].seen \/ Queued(m, t)'
          OBVIOUS
        <5>1. mon[m].st = "open" \/ t \in mon[m].covers
          BY <2>3
        <5>2. CASE <<m, t>> \in crossed
          BY <2>3, <3>1, <4>1, <5>1, <5>2
        <5>3. CASE m \in seenAt /\ t = This
          BY <1>1, <3>3, <5>1, <5>3 DEF Queued
        <5> QED BY <3>4, <5>2, <5>3
      <4>3. \A t \in Transports : t \in mon'[m].seen \/ Queued(m, t)' => <<m, t>> \in crossed'
        BY <2>3, <3>2, <3>4, <4>1
      <4> QED BY <2>3, <4>1, <4>2, <4>3
    <3> QED BY <3>5 DEF Traced
  <2>8. Founded' /\ Judged' /\ Kept'
    BY <1>1, <1>3 DEF Inv, Founded, Judged, Kept, Watched
  <2> QED BY <2>5, <2>6, <2>7, <2>8 DEF Inv
<1> QED BY <1>2, <1>3 DEF Probe

\* Which fact comes of what: the rest of the facts of an attempt is not watched.
LEMMA DerivedFacts == ASSUME NEW t \in Transports, NEW u \in Transports PROVE
    /\ <<"isolation.absence", u, TRUE>> \in DenialFacts(t) =>
          u = t /\ Covered(t) /\ \A m \in Monitors : ~Seen(m, t)
    /\ <<"dns.denied", u, TRUE>> \in DenialFacts(t) => u = t /\ ~Answered(t)
    /\ <<"path.selection", u, TRUE>> \notin DenialFacts(t)
    /\ <<"dns.response", u, TRUE>> \notin DenialFacts(t)
    /\ <<"isolation.absence", u, TRUE>> \notin AccessFacts(t)
    /\ <<"dns.denied", u, TRUE>> \notin AccessFacts(t)
    /\ <<"path.selection", u, TRUE>> \in AccessFacts(t) => u = t /\ Covered(t) /\ Through(t)
    /\ <<"dns.response", u, TRUE>> \in AccessFacts(t) => u = t /\ attempts[t] = "usable"
<1>1. \A f \in DenialFacts(t) :
        \/ f = <<"dns.denied", t, ~Answered(t)>>
        \/ f = <<"isolation.coverage", t, TRUE>>
        \/ f = <<"isolation.absence", t, \A m \in Monitors : ~Seen(m, t)>> /\ Covered(t)
        \/ f = <<"isolation.boundary", t, TRUE>>
        \/ f = <<"guard.fail_closed", t, TRUE>>
  BY DEF DenialFacts, Fact
<1>2. \A f \in AccessFacts(t) :
        \/ f = <<"dns.response", t, attempts[t] = "usable">>
        \/ f = <<"path.selection", t, TRUE>> /\ Covered(t) /\ Through(t)
        \/ f = <<"guard.fail_closed", t, TRUE>>
  BY DEF AccessFacts, Fact
<1> QED BY <1>1, <1>2

LEMMA DeriveKeeps == Inv /\ Derive => Inv'
<1> SUFFICES ASSUME Inv, Derive PROVE Inv'
  OBVIOUS
<1> DEFINE made == {t \in Transports : attempts[t] \notin {None, "error"}}
           new(t) == IF isDeny THEN DenialFacts(t) ELSE AccessFacts(t)
<1>1. /\ pc = "derive" /\ pc' = "evaluate"
      /\ UNCHANGED <<q, mon, next, attempts, result, crossed>>
      /\ facts' = facts \cup UNION {new(t) : t \in made}
  BY DEF Derive, truth
<1>2. Typed' /\ Ordered' /\ Judged' /\ Kept'
  BY <1>1 DEF Inv, Typed, Ordered, Judged, Kept, AfterProbe
<1>3. Traced'
  BY <1>1 DEF Inv, Traced, Queued
<1>4. \A t \in Transports : /\ Covered(t)' = Covered(t) /\ Through(t)' = Through(t)
                            /\ \A m \in Monitors : Seen(m, t)' = Seen(m, t)
  BY <1>1 DEF Covered, Through, Seen
<1>5. \A t \in made : attempts[t] = "silent" \/ Answered(t)
  BY DEF Inv, Typed, Outcomes, Answered
<1>6. ASSUME NEW w \in Watched, NEW u \in Transports, <<w, u, TRUE>> \in facts'
      PROVE  \E t \in made : <<w, u, TRUE>> \in new(t)
  <2>1. <<w, u, TRUE>> \notin facts
    BY <1>1 DEF Inv, Founded
  <2> QED BY <1>1, <1>6, <2>1
<1>7. ASSUME NEW t \in Transports PROVE
        /\ <<"isolation.absence", t, TRUE>> \in facts' =>
              Covered(t) /\ \A m \in Monitors : ~Seen(m, t)
        /\ <<"dns.denied", t, TRUE>> \in facts' => attempts[t] = "silent"
        /\ <<"path.selection", t, TRUE>> \in facts' => Covered(t) /\ Through(t)
        /\ <<"dns.response", t, TRUE>> \in facts' => attempts[t] = "usable"
  <2> HIDE DEF made
  <2>0. made \subseteq Transports
    BY DEF made
  <2>1. <<"isolation.absence", t, TRUE>> \in facts' => Covered(t) /\ \A m \in Monitors : ~Seen(m, t)
    BY <1>6, <2>0, DerivedFacts DEF Watched
  <2>2. <<"dns.denied", t, TRUE>> \in facts' => attempts[t] = "silent"
    <3> SUFFICES ASSUME <<"dns.denied", t, TRUE>> \in facts' PROVE attempts[t] = "silent"
      OBVIOUS
    <3>1. PICK u \in made : <<"dns.denied", t, TRUE>> \in new(u)
      BY <1>6 DEF Watched
    <3>2. u = t /\ ~Answered(t)
      BY <2>0, <3>1, DerivedFacts
    <3> QED BY <1>5, <3>2
  <2>3. <<"path.selection", t, TRUE>> \in facts' => Covered(t) /\ Through(t)
    BY <1>6, <2>0, DerivedFacts DEF Watched
  <2>4. <<"dns.response", t, TRUE>> \in facts' => attempts[t] = "usable"
    BY <1>6, <2>0, DerivedFacts DEF Watched
  <2> QED BY <2>1, <2>2, <2>3, <2>4
<1>8. Founded'
  BY <1>1, <1>4, <1>7 DEF Founded
<1> QED BY <1>2, <1>3, <1>8 DEF Inv

LEMMA EvaluateKeeps == Inv /\ Evaluate => Inv'
<1> SUFFICES ASSUME Inv, Evaluate PROVE Inv'
  OBVIOUS
<1>1. /\ pc = "evaluate" /\ pc' = "save"
      /\ UNCHANGED <<q, mon, next, attempts, crossed>> /\ facts' = {}
  BY DEF Evaluate, truth
<1>2. PICK believed \in SUBSET facts, lacking \in BOOLEAN, grounds \in {"kept", "over", "unreadable"} :
        result' = [verdict |-> Verdict(believed, lacking), cleanup |-> Clean, grounds |-> grounds]
  <2>1. PICK grounds \in {"kept", "over", "unreadable"} :
          result' = [verdict |-> Verdict({f \in facts : Valid(f, grounds)},
                                         missing \/ grounds = "unreadable"),
                     cleanup |-> Clean, grounds |-> grounds]
    BY DEF Evaluate
  <2>2. PICK believed \in SUBSET facts : believed = {f \in facts : Valid(f, grounds)}
    OBVIOUS
  <2>3. PICK lacking \in BOOLEAN : lacking = (missing \/ grounds = "unreadable")
    OBVIOUS
  <2> QED BY <2>1, <2>2, <2>3
<1>3. Typed' /\ Ordered'
  BY <1>1 DEF Inv, Typed, Ordered, AfterProbe
<1>4. Traced'
  BY <1>1 DEF Inv, Traced, Queued
<1>5. Founded'
  BY <1>1 DEF Inv, Founded, Covered, Through, Seen
<1>6. Kept'
  BY <1>1, <1>2 DEF Kept, Clean
<1>7. Judged'
  <2> SUFFICES ASSUME result'.verdict = "VERIFIED", NEW t \in Transports PROVE
        /\ isDeny => Covered(t) /\ (\A m \in Monitors : ~Seen(m, t)) /\ attempts[t] = "silent"
        /\ q.op = "access" => attempts[t] = "usable"
        /\ q.op = "access" /\ q.protected => Covered(t) /\ Through(t)
    BY <1>1 DEF Judged, isDeny, Covered, Through, Seen
  <2>1. \A r \in Required : <<r[1], r[2], TRUE>> \in facts
    BY <1>2 DEF Verdict
  <2>2. \A prop : <<prop, t>> \in Required => <<prop, t, TRUE>> \in facts
    BY <2>1
  <2>3. isDeny => <<"isolation.absence", t>> \in Required /\ <<"dns.denied", t>> \in Required
    BY DEF isDeny, Required
  <2>4. q.op = "access" => <<"dns.response", t>> \in Required
    BY DEF Required
  <2>5. q.op = "access" /\ q.protected => <<"path.selection", t>> \in Required
    BY DEF Required
  <2> QED BY <2>2, <2>3, <2>4, <2>5 DEF Inv, Founded
<1> QED BY <1>3, <1>4, <1>5, <1>6, <1>7 DEF Inv

LEMMA NextInv == Inv /\ [Next]_vars => Inv'
<1> SUFFICES ASSUME Inv, [Next]_vars PROVE Inv'
  OBVIOUS
<1>1. ASSUME NEW op \in Operations, NEW protected \in BOOLEAN, Ask(op, protected) PROVE Inv'
  BY <1>1, FreshStep DEF Ask
<1>2. ASSUME Command PROVE Inv'
  <2>1. CASE NotAdmitted \/ Save
    BY <2>1, FreshStep DEF NotAdmitted, Save, Return
  <2>2. CASE ReadNative \/ Collect \/ Scope \/ Source \/ ReadPolicy \/ Coverage \/ Claim
             \/ ReadTunnel("tunnel", "peer") \/ ReadTunnel("peer", "first")
    BY <2>2, ReadsArePlain, PlainStep DEF Inv
  <2>3. CASE Permit \/ Admitted \/ Attempt \/ NoAttemptLeft \/ Stopped \/ ReadPolicyAgain
    BY <2>3, OthersArePlain, PlainStep DEF Inv
  <2>4. CASE Start("gateway", "first", "second") \/ Start("resolver", "second", "attempt")
    BY <2>4, StartKeeps
  <2>5. CASE Probe \/ Answer \/ Derive \/ Evaluate
    BY <2>5, ProbeKeeps, AnswerKeeps, DeriveKeeps, EvaluateKeeps
  <2>6. CASE \E m \in Monitors : StopMonitor(m)
    BY <2>6, StopKeeps
  <2> QED BY <1>2, <2>1, <2>2, <2>3, <2>4, <2>5, <2>6 DEF Command, Collector
<1>3. ASSUME NEW m \in Monitors, Exit(m) PROVE Inv'
  BY <1>3, ExitKeeps
<1>4. ASSUME World PROVE Inv'
  BY <1>4, OthersArePlain, PlainStep DEF Inv
<1>5. ASSUME UNCHANGED vars PROVE Inv'
  <2>1. Plain
    BY <1>5 DEF vars, Plain, Inv, Typed
  <2> QED BY <2>1, PlainStep
<1> QED BY <1>1, <1>2, <1>3, <1>4, <1>5 DEF Next

LEMMA InvHolds == Spec => []Inv
BY InitInv, NextInv, PTL DEF Spec

\* What an assessment says about cleanup is so: no socket of an observer is
\* open behind one that was saved as clean (collectDNS and startMonitor).
THEOREM CleanupHolds == Spec => []CleanupIsTrue
<1>1. Inv => CleanupIsTrue
  BY DEF Inv, Kept, CleanupIsTrue
<1> QED BY <1>1, InvHolds, PTL

\* A verified isolation was silent, and any challenge that crossed was left
\* unread in an observer's queue, whatever the order of transports and of
\* events (collectDNS, observer_linux.go and the profile of verify.go).
THEOREM AbsenceHolds == Spec => []AbsenceIsTrue
<1>1. Inv => AbsenceIsTrue
  <2> SUFFICES ASSUME Inv, pc = "save", isDeny, result.verdict = "VERIFIED"
               PROVE  /\ \A t \in Transports : attempts[t] = "silent"
                      /\ \A x \in crossed : \E packet \in mon[x[1]].queue : packet[1] = x[2]
    BY DEF AbsenceIsTrue
  <2>1. \A t \in Transports : /\ attempts[t] = "silent" /\ Covered(t)
                              /\ \A m \in Monitors : ~Seen(m, t)
    BY DEF Inv, Judged
  <2>2. \A m \in Monitors, t \in Transports : <<m, t>> \in crossed => Queued(m, t)
    BY <2>1 DEF Inv, Traced, Covered, Seen
  <2>3. \A x \in crossed : x[1] \in Monitors /\ x[2] \in Transports /\ <<x[1], x[2]>> = x
    BY DEF Inv, Typed
  <2> QED BY <2>1, <2>2, <2>3 DEF Queued
<1> QED BY <1>1, InvHolds, PTL

\* A verified access on a protected path was answered, and its challenges
\* passed the gateway and the resolver's side.
THEOREM PathHolds == Spec => []PathWasTaken
<1>1. Inv => PathWasTaken
  <2> SUFFICES ASSUME Inv, pc = "save", q.op = "access", q.protected, result.verdict = "VERIFIED",
                      NEW t \in Transports
               PROVE  attempts[t] = "usable" /\ Monitors \X {t} \subseteq crossed
    BY DEF PathWasTaken
  <2>1. attempts[t] = "usable" /\ Through(t)
    BY DEF Inv, Judged
  <2>2. \A m \in Monitors : <<m, t>> \in crossed
    BY <2>1 DEF Inv, Traced, Through, Seen
  <2> QED BY <2>1, <2>2
<1> QED BY <1>1, InvHolds, PTL

-----------------------------------------------------------------------------
(* What contradicts an isolation is a fact when the verdict is given       *)

\* A leak of which the command knows.
Leaked(t) == \/ Answered(t)
             \/ attempts[t] = "silent" /\ Covered(t) /\ \E m \in Monitors : Seen(m, t)
\* It has its fact, and the collector that gave up early made no attempt.
Reported ==
    /\ pc \notin AfterProbe => \A t \in Transports : attempts[t] = None
    /\ pc = "evaluate" /\ isDeny => \A t \in Transports : Leaked(t) =>
          <<"dns.denied", t, FALSE>> \in facts \/ <<"isolation.absence", t, FALSE>> \in facts

LEMMA PlainReports == Inv /\ Reported /\ Plain => Reported'
<1> SUFFICES ASSUME Inv, Reported, Plain PROVE Reported'
  OBVIOUS
<1>1. pc' \notin AfterProbe => \A t \in Transports : attempts'[t] = None
  BY DEF Plain, Reported
<1>2. \A t \in Transports : Leaked(t)' = Leaked(t)
  BY DEF Plain, Leaked, Answered, Covered, Seen
<1>3. CASE pc' = "evaluate" /\ isDeny'
  <2>1. CASE pc = "evaluate"
    BY <1>1, <1>2, <1>3, <2>1 DEF Plain, Reported, isDeny
  <2>2. CASE pc \notin AfterProbe
    <3>1. \A t \in Transports : ~Leaked(t)
      BY <2>2 DEF Reported, Leaked, Answered, None
    <3> QED BY <1>1, <1>2, <3>1 DEF Reported
  <2> QED BY <1>3, <2>1, <2>2 DEF Plain
<1> QED BY <1>1, <1>3 DEF Reported

LEMMA ExitReports == ASSUME Inv, Reported, NEW m \in Monitors, Exit(m) PROVE Reported'
<1>1. /\ mon[m].st = "open" /\ mon[m].obs # "result"
      /\ UNCHANGED <<pc, q, attempts, facts>>
  BY DEF Exit, Inv, Traced, truth
<1>2. mon'[m].obs # "result"
  <2>1. PICK read \in SUBSET mon[m].queue, broken \in BOOLEAN, shut \in BOOLEAN :
        mon' = [mon EXCEPT ![m] =
                IF broken \/ ~shut \/ Spoilt(m, read)
                THEN [NoMonitor EXCEPT !.st = IF shut THEN "closed" ELSE "leaked",
                                       !.told = TRUE, !.spoilt = TRUE]
                ELSE [mon[m] EXCEPT !.st = "closed", !.told = TRUE, !.queue = @ \ read,
                               !.seen = {x[1] : x \in {y \in read : y[2] = "match"}}]]
    BY DEF Exit
  <2>2. mon[m] \in MonitorRecords
    BY DEF Inv, Typed
  <2>3. CASE broken \/ ~shut \/ Spoilt(m, read)
    BY <1>1, <2>1, <2>3 DEF NoMonitor, Inv, Typed
  <2>4. CASE ~(broken \/ ~shut \/ Spoilt(m, read))
    BY <1>1, <2>1, <2>2, <2>4 DEF Inv, Typed, MonitorRecords
  <2> QED BY <2>3, <2>4
<1>3. \A t \in Transports : Leaked(t)' => Leaked(t)
  <2>1. \A t \in Transports : ~Covered(t)'
    BY <1>2 DEF Covered
  <2> QED BY <1>1, <2>1 DEF Leaked, Answered
<1> QED BY <1>1, <1>3 DEF Reported, isDeny

LEMMA DeriveReports == Inv /\ Reported /\ Derive => Reported'
<1> SUFFICES ASSUME Inv, Reported, Derive PROVE Reported'
  OBVIOUS
<1> DEFINE made == {t \in Transports : attempts[t] \notin {None, "error"}}
           new(t) == IF isDeny THEN DenialFacts(t) ELSE AccessFacts(t)
<1>1. /\ pc' = "evaluate" /\ UNCHANGED <<q, mon, attempts>>
      /\ facts' = facts \cup UNION {new(t) : t \in made}
  BY DEF Derive, truth
<1>2. \A t \in Transports : Leaked(t)' = Leaked(t)
  BY <1>1 DEF Leaked, Answered, Covered, Seen
<1>3. ASSUME isDeny, NEW t \in Transports, Leaked(t)
      PROVE  <<"dns.denied", t, FALSE>> \in facts' \/ <<"isolation.absence", t, FALSE>> \in facts'
  <2>1. t \in made
    BY <1>3 DEF Leaked, Answered, None
  <2>2. new(t) \subseteq facts'
    BY <1>1, <2>1
  <2>3. CASE Answered(t)
    <3>1. <<"dns.denied", t, FALSE>> \in Fact("dns.denied", t, ~Answered(t), TRUE)
      BY <2>3 DEF Fact
    <3> QED BY <1>3, <2>2, <3>1 DEF DenialFacts
  <2>4. CASE Covered(t) /\ \E m \in Monitors : Seen(m, t)
    <3>1. (\A m \in Monitors : ~Seen(m, t)) = FALSE
      BY <2>4
    <3>2. <<"isolation.absence", t, FALSE>> \in Fact("isolation.absence", t, \A m \in Monitors : ~Seen(m, t), Covered(t))
      BY <2>4, <3>1 DEF Fact
    <3> QED BY <1>3, <2>2, <3>2 DEF DenialFacts
  <2> QED BY <1>3, <2>3, <2>4 DEF Leaked
<1>4. isDeny' = isDeny /\ "evaluate" \in AfterProbe
  BY <1>1 DEF isDeny, AfterProbe
<1> HIDE DEF made, new
<1> QED BY <1>1, <1>2, <1>3, <1>4 DEF Reported

LEMMA NextReports == Inv /\ Reported /\ [Next]_vars => Reported'
<1> SUFFICES ASSUME Inv, Reported, [Next]_vars PROVE Reported'
  OBVIOUS
<1>0. ASSUME Fresh, pc' \in {"idle", "admit"} PROVE Reported'
  BY <1>0 DEF Fresh, Reported
<1>1. ASSUME NEW op \in Operations, NEW protected \in BOOLEAN, Ask(op, protected) PROVE Reported'
  BY <1>0, <1>1 DEF Ask
<1>2. ASSUME Command PROVE Reported'
  <2>1. CASE NotAdmitted \/ Save
    BY <1>0, <2>1 DEF NotAdmitted, Save, Return
  <2>2. CASE ReadNative \/ Collect \/ Scope \/ Source \/ ReadPolicy \/ Coverage \/ Claim
             \/ ReadTunnel("tunnel", "peer") \/ ReadTunnel("peer", "first")
    BY <2>2, ReadsArePlain, PlainReports DEF Inv
  <2>3. CASE Permit \/ Admitted \/ Attempt \/ NoAttemptLeft \/ Stopped \/ ReadPolicyAgain
    BY <2>3, OthersArePlain, PlainReports DEF Inv
  <2>4. CASE Start("gateway", "first", "second") \/ Start("resolver", "second", "attempt")
    BY <2>4 DEF Start, Reported, AfterProbe
  <2>5. CASE Probe \/ Answer
    BY <2>5 DEF Probe, Answer, EndOfAttempts, Reported, AfterProbe
  <2>6. CASE Derive
    BY <2>6, DeriveReports
  <2>7. CASE Evaluate
    BY <2>7 DEF Evaluate, Reported, AfterProbe
  <2>8. CASE \E m \in Monitors : StopMonitor(m)
    BY <2>8 DEF StopMonitor, Cancel, Observed, TimedOut, Stopping, Reported
  <2> QED BY <1>2, <2>1, <2>2, <2>3, <2>4, <2>5, <2>6, <2>7, <2>8 DEF Command, Collector
<1>3. ASSUME NEW m \in Monitors, Exit(m) PROVE Reported'
  BY <1>3, ExitReports
<1>4. ASSUME World PROVE Reported'
  BY <1>4, OthersArePlain, PlainReports DEF Inv
<1>5. ASSUME UNCHANGED vars PROVE Reported'
  BY <1>5 DEF vars, Reported, isDeny, Leaked, Answered, Covered, Seen
<1> QED BY <1>1, <1>2, <1>3, <1>4, <1>5 DEF Next

\* Under an open window an isolation whose probe was answered, or seen by an
\* observer that covered it, is VIOLATED, whatever else is missing (DenialFacts
\* of collectDNS, and the order of the checks in Evaluate of verify.go).
THEOREM LeakHolds == Spec => LeakIsReported
<1> DEFINE A == pc = "evaluate" /\ pc' = "save" /\ isDeny /\ result'.grounds = "kept"
                /\ (\E t \in Transports : \/ Answered(t)
                                           \/ /\ attempts[t] = "silent" /\ Covered(t)
                                              /\ \E m \in Monitors : Seen(m, t))
                => result'.verdict = "VIOLATED"
<1>1. Init => Reported
  BY DEF Init, Reported
<1>2. Reported /\ [Next]_vars => A
  <2> SUFFICES ASSUME Reported, [Next]_vars, pc = "evaluate", pc' = "save", isDeny,
                      result'.grounds = "kept", NEW t \in Transports, Leaked(t)
               PROVE  result'.verdict = "VIOLATED"
    BY DEF Leaked
  <2>1. Evaluate
    BY DEF Next, vars, Ask, Command, Permit, Admitted, NotAdmitted, Return, Save, Exit, World, Collector,
           Collect, ReadNative, Identity, ReadFact, ReadGatewayChain, ReadSession, ReadGuard, Scope,
           Source, ReadPolicy, Coverage, Claim, ReadTunnel, Start, Attempt, NoAttemptLeft, Probe,
           Answer, StopMonitor, Stopped, Stopping, ReadPolicyAgain, Derive
  <2>2. PICK grounds \in {"kept", "over", "unreadable"} :
          result' = [verdict |-> Verdict({f \in facts : Valid(f, grounds)},
                                         missing \/ grounds = "unreadable"),
                     cleanup |-> Clean, grounds |-> grounds]
    BY <2>1 DEF Evaluate
  <2>3. grounds = "kept"
    BY <2>2
  <2>4. PICK w \in {"dns.denied", "isolation.absence"} : <<w, t, FALSE>> \in facts
    BY DEF Reported
  <2>5. Valid(<<w, t, FALSE>>, grounds)
    BY <2>3 DEF Valid
  <2>6. <<w, t>> \in Required
    BY DEF Required, isDeny
  <2>7. \E f \in {f \in facts : Valid(f, grounds)} : <<f[1], f[2]>> \in Required /\ ~f[3]
    <3>1. \A f : f = <<w, t, FALSE>> => f[1] = w /\ f[2] = t /\ f[3] = FALSE
      OBVIOUS
    <3> QED BY <2>4, <2>5, <2>6, <3>1
  <2>8. Verdict({f \in facts : Valid(f, grounds)}, missing \/ grounds = "unreadable") = "VIOLATED"
    BY <2>7 DEF Verdict
  <2> QED BY <2>2, <2>8
<1>3. Reported /\ [Next]_vars => [A]_vars
  BY <1>2
<1> QED BY <1>1, <1>3, InvHolds, NextReports, PTL DEF Spec, LeakIsReported

-----------------------------------------------------------------------------
(* Counting the operations *)

LEMMA TriedCounts == Counted /\ Tried /\ UNCHANGED admission => Counted'
BY DEF Counted, Tried

LEMMA NextCounted == Counted /\ [Next]_vars => Counted'
<1> SUFFICES ASSUME Counted, [Next]_vars PROVE Counted'
  OBVIOUS
<1>1. ASSUME NEW op \in Operations, NEW protected \in BOOLEAN, Ask(op, protected) PROVE Counted'
  BY <1>1 DEF Ask, Fresh, Counted
<1>2. CASE NotAdmitted \/ Save
  BY <1>2 DEF NotAdmitted, Save, Return, Fresh, Counted
<1>3. CASE Permit \/ Admitted
  BY <1>3 DEF Permit, Admitted, Passed, Quiet, world, truth, Counted
<1>4. CASE ReadNative
  <2>1. Tried /\ UNCHANGED admission
    BY <1>4 DEF ReadNative, Identity, ReadFact, ReadGatewayChain, ReadSession, ReadGuard, Quiet, world
  <2> QED BY <2>1, TriedCounts
<1>5. CASE Source \/ ReadPolicy \/ ReadTunnel("tunnel", "peer") \/ ReadTunnel("peer", "first")
           \/ Start("gateway", "first", "second") \/ Start("resolver", "second", "attempt")
           \/ ReadPolicyAgain
  <2>1. Tried /\ UNCHANGED admission
    BY <1>5 DEF Source, ReadPolicy, ReadTunnel, Start, ReadPolicyAgain, Quiet, world
  <2> QED BY <2>1, TriedCounts
<1>6. CASE Collect \/ Scope \/ Claim \/ Coverage \/ NoAttemptLeft \/ Stopped \/ Derive
  <2>1. CASE Collect
    BY <2>1 DEF Collect, Refused, Quiet, world, Counted
  <2>2. CASE Scope \/ Claim
    <3>1. UNCHANGED admission /\ (Refused \/ Passed)
      BY <2>2 DEF Scope, Claim, Quiet, world
    <3> QED BY <3>1 DEF Refused, Passed, Counted
  <2>3. CASE Coverage \/ NoAttemptLeft \/ Stopped \/ Derive
    <3>1. UNCHANGED <<admission, permitted, late>>
      BY <2>3 DEF Coverage, NoAttemptLeft, Stopped, Derive, Quiet, world, truth
    <3> QED BY <3>1 DEF Counted
  <2> QED BY <1>6, <2>1, <2>2, <2>3
<1>7. CASE Attempt \/ Probe
  <2>1. UNCHANGED admission /\ (Refused \/ Passed \/ Tried)
    BY <1>7 DEF Attempt, Probe, Quiet, world
  <2> QED BY <2>1, TriedCounts DEF Refused, Passed, Counted
<1>8. CASE Answer \/ Evaluate \/ \E m \in Monitors : StopMonitor(m) \/ Exit(m)
  <2>1. UNCHANGED <<admission, permitted, late>>
    BY <1>8 DEF Answer, Evaluate, StopMonitor, Exit, world, truth
  <2> QED BY <2>1 DEF Counted
<1>9. CASE World
  BY <1>9 DEF World, ChainChanges, AdmissionEnds, DeadlinePasses, TimePasses, truth, Counted
<1>10. CASE UNCHANGED vars
  BY <1>10 DEF vars, Counted
<1> QED BY <1>1, <1>2, <1>3, <1>4, <1>5, <1>6, <1>7, <1>8, <1>9, <1>10 DEF Next, Command, Collector

\* Once the question has moved or the grant has ended, a verification begins
\* one more native operation at most (the permit of cli.go).
THEOREM RevocationHolds == Spec => []RevocationStopsOperations
<1>1. Init => Counted
  BY DEF Init, Counted
<1>2. Counted => RevocationStopsOperations
  BY DEF Counted, RevocationStopsOperations
<1> QED BY <1>1, <1>2, NextCounted, PTL DEF Spec

-----------------------------------------------------------------------------
(* The reader of OpenWrt: two samples that agree are a snapshot, for any    *)
(* binding, any routers and any number of edits between the calls. Every    *)
(* part has a current value and a set of former ones. The invariant says    *)
(* that a value that was read is current or former; that a value of the     *)
(* first sample is that of the middle or former; and that the current value *)
(* is not among the former ones unless something was undone. So a value     *)
(* that is read again after the middle is no former one, and was there in   *)
(* the middle.                                                              *)

\* The binding is one that validOpenWrt lets in.
BoundTo == OW!Valid(binding)

NeverAgain == undone \/ \A y \in OW!Parts : OW!View(router)[y] \notin past[y]
FirstRead == owPc = "first" => \A y \in DOMAIN sample :
                 y \in OW!Parts /\ sample[y] \in OW!Answers(router, y) \cup past[y]
FirstKept == owPc \in {"stored", "second"} => \A y \in DOMAIN first :
                 y \in OW!Parts /\ first[y] \in OW!Answers(mid, y) \cup past[y]
SecondRead == owPc \in {"stored", "second"} => \A y \in DOMAIN sample :
                 y \in DOMAIN first /\ sample[y] = first[y] /\ ~undone => first[y] \in OW!Answers(mid, y)

SampleInv == BoundTo /\ at \in Nat \ {0} /\ NeverAgain /\ FirstRead /\ FirstKept /\ SecondRead
       /\ (owPc \in {"idle", "stored"} => sample = OW!Empty) /\ OW!SnapshotWasTrue

LEMMA PartFacts ==
    /\ {OW!Status, OW!SetPart, OW!Member, OW!Rows} \subseteq OW!Parts
    /\ \A c \in OwChains : OW!ChainPart(c) \in OW!Parts
    /\ \A m \in OW!Marks : OW!RoutePart(m) \in OW!Parts /\ OW!RoutePart(m) # OW!Member
    /\ \A r : \A m \in OW!Marks : OW!View(r)[OW!RoutePart(m)] = OW!Asked(r, m)
<1>1. /\ {OW!Status, OW!SetPart, OW!Member, OW!Rows} \subseteq OW!Parts
      /\ \A c \in OwChains : OW!ChainPart(c) \in OW!Parts
      /\ \A m \in OW!Marks : OW!RoutePart(m) \in OW!Parts /\ OW!RoutePart(m) # OW!Member
  BY DEF OW!Parts, OW!RoutePart, OW!Member
<1>2. ASSUME NEW r, NEW m \in OW!Marks PROVE OW!View(r)[OW!RoutePart(m)] = OW!Asked(r, m)
  BY <1>1 DEF OW!View, OW!RoutePart
<1> QED BY <1>1, <1>2

\* What is asked for is a part.
LEMMA FixedParts == ASSUME BoundTo PROVE OW!Fixed(binding) \in Seq(OW!Parts)
<1>1. <<OW!Status>> \in Seq(OW!Parts) /\ <<OW!SetPart, OW!Member>> \in Seq(OW!Parts)
      /\ <<OW!Rows>> \in Seq(OW!Parts) /\ <<>> \in Seq(OW!Parts)
  BY PartFacts
<1>2. [i \in DOMAIN binding.chains |-> OW!ChainPart(binding.chains[i].name)] \in Seq(OW!Parts)
  <2>0. binding.chains \in Seq(OW!BoundChain)
    BY DEF BoundTo, OW!Valid, OW!Bindings
  <2>1. \A i \in DOMAIN binding.chains : OW!ChainPart(binding.chains[i].name) \in OW!Parts
    <3> SUFFICES ASSUME NEW i \in DOMAIN binding.chains
                 PROVE  OW!ChainPart(binding.chains[i].name) \in OW!Parts
      OBVIOUS
    <3>1. PICK x \in OW!BoundChain : x = binding.chains[i]
      BY <2>0, LenProperties, ElementOfSeq
    <3>2. PICK c \in OwChains : c = binding.chains[i].name
      BY <3>1 DEF OW!BoundChain
    <3> QED BY <3>2, PartFacts
  <2>2. DOMAIN binding.chains = 1 .. Len(binding.chains) /\ Len(binding.chains) \in Nat
    BY <2>0
  <2>3. [i \in DOMAIN binding.chains |-> OW!ChainPart(binding.chains[i].name)]
          \in [1 .. Len(binding.chains) -> OW!Parts]
    BY <2>1, <2>2
  <2> QED BY <2>2, <2>3, SeqDef
<1> DEFINE chains == [i \in DOMAIN binding.chains |-> OW!ChainPart(binding.chains[i].name)]
           members == IF binding.set THEN <<OW!SetPart, OW!Member>> ELSE <<>>
           rows == IF binding.source THEN <<OW!Rows>> ELSE <<>>
<1>3. members \in Seq(OW!Parts) /\ rows \in Seq(OW!Parts)
  BY <1>1
<1>4. OW!Fixed(binding) = <<OW!Status>> \o chains \o members \o rows
  BY DEF OW!Fixed
<1> HIDE DEF chains, members, rows
<1>5. chains \in Seq(OW!Parts)
  BY <1>2 DEF chains
<1> QED BY <1>1, <1>3, <1>4, <1>5

LEMMA Initially == OW!Init => SampleInv
<1> SUFFICES ASSUME OW!Init PROVE SampleInv
  OBVIOUS
<1>1. BoundTo
  BY ConfigurationsAssumption DEF OW!Init, BoundTo
<1>2. /\ owPc = "idle" /\ at = 1 /\ sample = OW!Empty /\ first = OW!Empty /\ DOMAIN OW!Empty = {}
      /\ \A y \in OW!Parts : past[y] = {}
  BY DEF OW!Init, OW!Empty
<1>3. NeverAgain /\ FirstRead /\ FirstKept /\ SecondRead /\ OW!SnapshotWasTrue
  BY <1>2 DEF NeverAgain, FirstRead, FirstKept, SecondRead, OW!SnapshotWasTrue
<1> QED BY <1>1, <1>2, <1>3 DEF SampleInv

\* One more part is read.
LEMMA ReadPartKeeps == SampleInv /\ OW!ReadPart => SampleInv'
<1> SUFFICES ASSUME SampleInv, OW!ReadPart PROVE SampleInv'
  OBVIOUS
<1> DEFINE part == OW!Fixed(binding)[at]
<1>1. PICK v \in OW!Answers(router, part) : sample' = OW!With(sample, part, v)
  BY DEF OW!ReadPart
<1>2. /\ owPc \in {"first", "second"} /\ owPc' = owPc
      /\ UNCHANGED <<router, binding, first, mid, past, undone>>
  BY DEF OW!ReadPart, OW!Sampling, OW!history
<1>3. part \in OW!Parts
  BY FixedParts, ElementOfSeq DEF SampleInv, OW!ReadPart
<1>4. /\ DOMAIN sample' = DOMAIN sample \cup {part}
      /\ \A y \in DOMAIN sample' : sample'[y] = IF y = part THEN v ELSE sample[y]
  BY <1>1 DEF OW!With
<1>5. (v = FALSE /\ part = OW!Member) \/ v = OW!View(router)[part]
  BY DEF OW!Answers
<1> HIDE DEF part
<1>6. FirstRead'
  BY <1>1, <1>2, <1>3, <1>4 DEF SampleInv, FirstRead, OW!Answers
<1>7. SecondRead'
  <2> SUFFICES ASSUME owPc = "second", NEW y \in DOMAIN sample', y \in DOMAIN first,
                      sample'[y] = first[y], ~undone
               PROVE  first[y] \in OW!Answers(mid, y)
    BY <1>2 DEF SecondRead, OW!Answers
  <2>1. CASE y # part
    BY <2>1, <1>4 DEF SampleInv, SecondRead
  <2>2. CASE y = part /\ v = FALSE /\ part = OW!Member
    BY <2>2, <1>4 DEF OW!Answers
  <2>3. CASE y = part /\ v = OW!View(router)[part]
    <3>1. first[y] \in OW!Answers(mid, y) \cup past[y]
      BY DEF SampleInv, FirstKept
    <3>2. first[y] \notin past[y]
      BY <2>3, <1>3, <1>4 DEF SampleInv, NeverAgain
    <3> QED BY <3>1, <3>2
  <2> QED BY <1>5, <2>1, <2>2, <2>3
<1>8. BoundTo' /\ NeverAgain' /\ FirstKept'
  BY <1>2 DEF SampleInv, BoundTo, NeverAgain, FirstKept, OW!Answers
<1>9. at' \in Nat \ {0} /\ OW!SnapshotWasTrue' /\ (owPc \in {"idle", "stored"} => sample = OW!Empty)'
  BY <1>2 DEF OW!ReadPart, SampleInv, OW!SnapshotWasTrue
<1> QED BY <1>6, <1>7, <1>8, <1>9 DEF SampleInv

\* A sample is complete.
LEMMA FinishKeeps ==
    ASSUME SampleInv, NEW s, OW!Sampling, OW!Finish(s),
           owPc = "first" => \A y \in DOMAIN s : y \in OW!Parts /\ s[y] \in OW!Answers(router, y) \cup past[y],
           owPc = "second" => \A y \in DOMAIN s :
               y \in DOMAIN first /\ s[y] = first[y] /\ ~undone => first[y] \in OW!Answers(mid, y)
    PROVE  SampleInv'
<1>1. UNCHANGED <<router, binding, past, undone>> /\ sample' = OW!Empty /\ at' = 1
  BY DEF OW!Finish
<1>2. DOMAIN OW!Empty = {}
  BY DEF OW!Empty
<1>3. CASE owPc = "first"
  <2>1. first' = s /\ mid' = router /\ owPc' = "stored"
    BY <1>3 DEF OW!Finish
  <2>2. BoundTo' /\ NeverAgain' /\ FirstRead' /\ OW!SnapshotWasTrue'
    BY <1>1, <2>1 DEF SampleInv, BoundTo, NeverAgain, FirstRead, OW!SnapshotWasTrue
  <2>3. FirstKept' /\ SecondRead'
    BY <1>1, <1>2, <1>3, <2>1 DEF FirstKept, SecondRead, OW!Answers
  <2> QED BY <1>1, <2>1, <2>2, <2>3 DEF SampleInv
<1>4. CASE owPc = "second"
  <2>1. /\ first' = first /\ mid' = mid /\ owPc' \in {"accepted", "refused"}
        /\ owPc' = "accepted" => s = first
    BY <1>4 DEF OW!Finish
  <2>2. BoundTo' /\ NeverAgain' /\ FirstRead' /\ FirstKept' /\ SecondRead'
    BY <1>1, <2>1 DEF SampleInv, BoundTo, NeverAgain, FirstRead, FirstKept, SecondRead
  <2>3. OW!SnapshotWasTrue'
    BY <1>1, <1>4, <2>1 DEF OW!SnapshotWasTrue, OW!Answers
  <2> QED BY <1>1, <2>1, <2>2, <2>3 DEF SampleInv
<1> QED BY <1>3, <1>4 DEF OW!Sampling

LEMMA ReadRouteKeeps == SampleInv /\ OW!ReadRoute => SampleInv'
<1> SUFFICES ASSUME SampleInv, OW!ReadRoute PROVE SampleInv'
  OBVIOUS
<1> DEFINE part == OW!RoutePart(OW!Mark)
           s == OW!With(sample, part, OW!Asked(router, OW!Mark))
<1>1. OW!Finish(s) /\ OW!Sampling /\ OW!Mark \in OW!Marks
  BY DEF OW!ReadRoute, OW!AllRead, OW!Marked
<1>2. part \in OW!Parts /\ OW!View(router)[part] = OW!Asked(router, OW!Mark)
  BY <1>1, PartFacts
<1>3. /\ DOMAIN s = DOMAIN sample \cup {part}
      /\ \A y \in DOMAIN s : s[y] = IF y = part THEN OW!View(router)[part] ELSE sample[y]
  BY <1>2 DEF OW!With
<1> HIDE DEF s, part
<1>4. ASSUME owPc = "first", NEW y \in DOMAIN s
      PROVE  y \in OW!Parts /\ s[y] \in OW!Answers(router, y) \cup past[y]
  BY <1>2, <1>3, <1>4 DEF SampleInv, FirstRead, OW!Answers
<1>5. ASSUME owPc = "second", NEW y \in DOMAIN s, y \in DOMAIN first, s[y] = first[y], ~undone
      PROVE  first[y] \in OW!Answers(mid, y)
  <2>1. CASE y # part
    BY <1>3, <1>5, <2>1 DEF SampleInv, SecondRead
  <2>2. CASE y = part
    <3>1. first[y] \in OW!Answers(mid, y) \cup past[y]
      BY <1>5 DEF SampleInv, FirstKept
    <3>2. first[y] \notin past[y]
      BY <2>2, <1>2, <1>3, <1>5 DEF SampleInv, NeverAgain
    <3> QED BY <3>1, <3>2
  <2> QED BY <2>1, <2>2
<1> QED BY <1>1, <1>4, <1>5, FinishKeeps

LEMMA NoRouteKeeps == SampleInv /\ OW!NoRouteAsked => SampleInv'
<1> SUFFICES ASSUME SampleInv, OW!NoRouteAsked PROVE SampleInv'
  OBVIOUS
<1>1. OW!Finish(sample) /\ OW!Sampling
  BY DEF OW!NoRouteAsked, OW!AllRead
<1> QED BY <1>1, FinishKeeps DEF SampleInv, FirstRead, SecondRead

\* What was current is former now.
LEMMA EditKeeps == SampleInv /\ OW!Edit => SampleInv'
<1> SUFFICES ASSUME SampleInv, OW!Edit PROVE SampleInv'
  OBVIOUS
<1>1. PICK r \in Versions :
        LET changed == {y \in OW!Parts : OW!View(r)[y] # OW!View(router)[y]}
        IN /\ router' = r
           /\ past' = [y \in OW!Parts |-> IF y \in changed THEN past[y] \cup {OW!View(router)[y]} ELSE past[y]]
           /\ undone' = (undone \/ \E y \in changed : OW!View(r)[y] \in past[y])
  BY DEF OW!Edit
<1>2. /\ owPc \in {"first", "stored", "second"} /\ owPc' = owPc
      /\ UNCHANGED <<binding, at, sample, first, mid>>
  BY DEF OW!Edit
<1>3. /\ undone => undone'
      /\ \A y \in OW!Parts : past[y] \subseteq past'[y]
      /\ \A y \in OW!Parts : OW!View(router)[y] = OW!View(router')[y] \/ OW!View(router)[y] \in past'[y]
  BY <1>1
<1>4. NeverAgain'
  <2> SUFFICES ASSUME ~undone', NEW y \in OW!Parts PROVE OW!View(router')[y] \notin past'[y]
    BY DEF NeverAgain
  <2>1. OW!View(router')[y] # OW!View(router)[y] => OW!View(router')[y] \notin past[y]
    BY <1>1
  <2>2. OW!View(router)[y] \notin past[y]
    BY <1>3 DEF SampleInv, NeverAgain
  <2> QED BY <1>1, <2>1, <2>2
<1>5. FirstRead'
  BY <1>2, <1>3 DEF SampleInv, FirstRead, OW!Answers
<1>6. FirstKept' /\ SecondRead'
  BY <1>2, <1>3 DEF SampleInv, FirstKept, SecondRead, OW!Answers
<1> QED BY <1>2, <1>4, <1>5, <1>6 DEF SampleInv, BoundTo, OW!SnapshotWasTrue

LEMMA OthersKeep == SampleInv /\ (OW!Begin \/ OW!ReadStored \/ OW!CallFails \/ OW!Revoke \/ UNCHANGED OW!vars) => SampleInv'
<1> SUFFICES ASSUME SampleInv, OW!Begin \/ OW!ReadStored \/ OW!CallFails \/ OW!Revoke \/ UNCHANGED OW!vars PROVE SampleInv'
  OBVIOUS
<1>1. UNCHANGED <<router, binding, first, mid, past, undone, sample>>
  BY DEF OW!Begin, OW!ReadStored, OW!CallFails, OW!Revoke, OW!vars, OW!history
<1>2. /\ owPc' = owPc \/ (owPc = "idle" /\ owPc' = "first") \/ (owPc = "stored" /\ owPc' = "second") \/ owPc' = "refused"
      /\ at' \in {at, at + 1, 1}
  BY DEF OW!Begin, OW!ReadStored, OW!CallFails, OW!Revoke, OW!vars
<1>3. DOMAIN OW!Empty = {}
  BY DEF OW!Empty
<1>4. BoundTo' /\ NeverAgain'
  BY <1>1 DEF SampleInv, BoundTo, NeverAgain
<1>8. OW!SnapshotWasTrue'
  BY <1>1, <1>2 DEF SampleInv, OW!SnapshotWasTrue, OW!Answers
<1>9. at' \in Nat \ {0}
  BY <1>2 DEF SampleInv
<1>5. FirstRead' /\ (owPc \in {"idle", "stored"} => sample = OW!Empty)'
  BY <1>1, <1>2, <1>3 DEF SampleInv, FirstRead, OW!Answers
<1>6. FirstKept'
  BY <1>1, <1>2 DEF SampleInv, FirstKept, OW!Answers
<1>7. SecondRead'
  BY <1>1, <1>2, <1>3 DEF SampleInv, SecondRead, OW!Answers
<1> QED BY <1>4, <1>5, <1>6, <1>7, <1>8, <1>9 DEF SampleInv

\* Whichever adapter is at work: a snapshot of OpenWrt that is accepted was the router's at one
\* moment between the two samples, part for part, unless something was changed and changed back
\* while it was read.
THEOREM SnapshotHolds == SpecEither => []SnapshotWasTrue
<1> DEFINE J == owPc = "rests" \/ SampleInv
<1>1. InitEither => J
  BY Initially DEF InitEither, OpenWrtRests
<1>2. J /\ [NextEither]_<<vars, openWrt>> => J'
  <2> SUFFICES ASSUME J, [NextEither]_<<vars, openWrt>> PROVE J'
    OBVIOUS
  <2>1. CASE OW!Next /\ owPc # "rests"
    BY <2>1, ReadPartKeeps, ReadRouteKeeps, NoRouteKeeps, EditKeeps, OthersKeep DEF OW!Next
  <2>2. CASE UNCHANGED openWrt
    <3>1. UNCHANGED OW!vars
      BY <2>2 DEF openWrt, OW!vars
    <3>2. CASE owPc = "rests"
      BY <2>2, <3>2 DEF openWrt
    <3>3. CASE SampleInv
      BY <3>1, <3>3, OthersKeep
    <3> QED BY <3>2, <3>3
  <2> QED BY <2>1, <2>2 DEF NextEither, Returned
<1>3. J => SnapshotWasTrue
  BY DEF SampleInv, SnapshotWasTrue, OW!SnapshotWasTrue
<1> QED BY <1>1, <1>2, <1>3, PTL DEF SpecEither

-----------------------------------------------------------------------------
(* What is derived of a snapshot, for any binding and any rules. The reader *)
(* and the kernel go through a list of rules in turn; if what they say and  *)
(* do agrees rule by rule it agrees of the list, of a chain, of a chain     *)
(* that calls such chains, and so of whatever is reached within the depth   *)
(* of the reader, which is less than that of the kernel.                    *)

\* A set of naturals has a least one: an induction over data is a descent to the least depth
\* at which it fails.
LEMMA LeastOf == ASSUME NEW S \in SUBSET Nat, S # {} PROVE \E x \in S : \A y \in S : x <= y
<1> DEFINE less == {z \in Nat \X Nat : z[1] < z[2]}
<1>1. IsWellFoundedOn(less, Nat)
  BY NatLessThanWellFounded DEF OpToRel
<1> HIDE DEF less
<1>2. PICK x \in S : \A y \in S : <<y, x>> \notin less
  BY <1>1, WFMin
<1>3. \A y \in S : y < x => <<y, x>> \in less
  BY DEF less
<1>4. \A y \in S : y \in Nat /\ ~(y < x)
  BY <1>2, <1>3
<1> QED BY <1>4

\* A bounded set of integers.
Bounded(S) == S \subseteq Int /\ \E low, high \in Int : \A x \in S : low <= x /\ x <= high

\* A bounded set has a least one.
LEMMA FirstOf == ASSUME NEW S, Bounded(S), S # {} PROVE \E x \in S : \A y \in S : x <= y
<1>1. PICK low \in Int : \A x \in S : low <= x
  BY DEF Bounded
<1> DEFINE T == {x - low : x \in S}
<1>2. T \subseteq Nat /\ T # {}
  <2>1. \A x \in S : x \in Int
    BY DEF Bounded
  <2> QED BY <1>1, <2>1
<1>3. \A z \in T : \E x \in S : z = x - low
  OBVIOUS
<1>4. \A x \in S : x - low \in T
  OBVIOUS
<1> HIDE DEF T
<1>5. PICK z \in T : \A y \in T : z <= y
  BY <1>2, LeastOf
<1> QED BY <1>1, <1>3, <1>4, <1>5 DEF Bounded

\* And a greatest one.
LEMMA LastOf == ASSUME NEW S, Bounded(S), S # {} PROVE \E x \in S : \A y \in S : y <= x
<1>1. PICK high \in Int : \A x \in S : x <= high
  BY DEF Bounded
<1> DEFINE T == {high - x : x \in S}
<1>2. T \subseteq Nat /\ T # {}
  <2>1. \A x \in S : x \in Int
    BY DEF Bounded
  <2> QED BY <1>1, <2>1
<1>3. \A z \in T : \E x \in S : z = high - x
  OBVIOUS
<1>4. \A x \in S : high - x \in T
  OBVIOUS
<1> HIDE DEF T
<1>5. PICK z \in T : \A y \in T : z <= y
  BY <1>2, LeastOf
<1> QED BY <1>1, <1>3, <1>4, <1>5 DEF Bounded

\* What the reader says of a rule or a chain, and what the kernel does.
Agree(w, k, out, vpn) ==
    /\ w.verdict \in {"on", "accept", "drop", "return", "unknown"}
    /\ w.verdict # "unknown" => /\ k.verdict = w.verdict \/ (k.verdict = "dropOut" /\ out # NoInterface)
                                /\ k.verdict # "dropOut" => k.mark = w.mark
    /\ w.guard /\ out \notin {vpn, NoInterface} => k.verdict \in {"drop", "dropOut"}

\* The effects that happen, and those of them that mark.
Done(e) == {i \in DOMAIN e : \A j \in DOMAIN e : j < i => e[j].verdict = "on"}
Marking(e) == {i \in Done(e) : e[i].mark # NoMark}

\* InTurn is its first effect that decides and its last that marks.
LEMMA TurnFacts ==
    ASSUME NEW e, Bounded(DOMAIN e)
    PROVE  /\ \A i \in Done(e) : e[i].verdict # "on" => OW!InTurn(e).verdict = e[i].verdict
           /\ (\A i \in Done(e) : e[i].verdict = "on") => OW!InTurn(e).verdict = "on"
           /\ OW!InTurn(e).guard = \E i \in Done(e) : e[i].guard
           /\ Marking(e) = {} => OW!InTurn(e).mark = NoMark
           /\ \A i \in Marking(e) : (\A j \in Marking(e) : j <= i) => OW!InTurn(e).mark = e[i].mark
           /\ OW!InTurn(e).verdict = "on" => Done(e) = DOMAIN e
<1> DEFINE deciding == {i \in Done(e) : e[i].verdict # "on"}
           chosen == CHOOSE i \in deciding : TRUE
           last == CHOOSE x \in Marking(e) : \A y \in Marking(e) : x >= y
<1>1. OW!InTurn(e) = [verdict |-> IF deciding = {} THEN "on" ELSE e[chosen].verdict,
                      mark |-> IF Marking(e) = {} THEN NoMark ELSE e[last].mark,
                      guard |-> \E i \in Done(e) : e[i].guard,
                      reached |-> UNION {e[i].reached : i \in Done(e)}]
  BY DEF OW!InTurn, Done, Marking, OW!Max
<1>2. \A i, j \in deciding : i = j
  BY DEF Done, Bounded
<1>3. \A i \in deciding : chosen = i
  BY <1>2
<1>4. \A i \in Marking(e) : (\A j \in Marking(e) : j <= i) => last = i
  <2> SUFFICES ASSUME NEW i \in Marking(e), \A j \in Marking(e) : j <= i PROVE last = i
    OBVIOUS
  <2>1. Marking(e) \subseteq Int
    BY DEF Marking, Done, Bounded
  <2>2. last \in Marking(e) /\ \A y \in Marking(e) : last >= y
    BY <2>1
  <2> QED BY <2>1, <2>2
<1>5. deciding = {} => Done(e) = DOMAIN e
  <2> SUFFICES ASSUME deciding = {}, DOMAIN e \ Done(e) # {} PROVE FALSE
    BY DEF Done
  <2> DEFINE T == {i \in DOMAIN e : e[i].verdict # "on"}
  <2>1. Bounded(T) /\ T # {}
    BY DEF Bounded, Done
  <2>2. \A i : i \in T <=> i \in DOMAIN e /\ e[i].verdict # "on"
    OBVIOUS
  <2> HIDE DEF T
  <2>3. PICK i \in DOMAIN e : e[i].verdict # "on" /\ \A j \in DOMAIN e : e[j].verdict # "on" => i <= j
    BY <2>1, <2>2, FirstOf
  <2>4. i \in deciding
    BY <2>3 DEF Done, Bounded
  <2> QED BY <2>4
<1> HIDE DEF deciding, chosen, last
<1>6. \A i \in Done(e) : e[i].verdict # "on" <=> i \in deciding
  BY DEF deciding
<1> QED BY <1>1, <1>3, <1>4, <1>5, <1>6 DEF deciding

\* The first that decides is the one that counts.
LEMMA FirstDecides ==
    ASSUME NEW e, Bounded(DOMAIN e), NEW i \in DOMAIN e, e[i].verdict # "on"
    PROVE  \E j \in Done(e) : j <= i /\ e[j].verdict # "on"
<1> DEFINE T == {j \in DOMAIN e : e[j].verdict # "on"}
<1>1. Bounded(T) /\ T # {}
  BY DEF Bounded
<1>2. \A j : j \in T <=> j \in DOMAIN e /\ e[j].verdict # "on"
  OBVIOUS
<1> HIDE DEF T
<1>3. PICK j \in DOMAIN e : e[j].verdict # "on" /\ \A x \in DOMAIN e : e[x].verdict # "on" => j <= x
  BY <1>1, <1>2, FirstOf
<1>4. j \in Done(e)
  BY <1>3 DEF Done, Bounded
<1> QED BY <1>3, <1>4

\* Rules that agree one by one agree in turn.
LEMMA TurnsAgree ==
    ASSUME NEW a, NEW e, DOMAIN a = DOMAIN e, Bounded(DOMAIN a), NEW out, NEW vpn,
           \A i \in DOMAIN a : Agree(a[i], e[i], out, vpn)
    PROVE  Agree(OW!InTurn(a), OW!InTurn(e), out, vpn)
<1>1. Done(a) \subseteq DOMAIN a /\ Done(e) \subseteq DOMAIN a /\ DOMAIN a \subseteq Int
  BY DEF Done, Bounded
\* Before the reader's walk ends the kernel's ends only in a drop of some interfaces.
<1>2. ASSUME NEW i \in Done(a), NEW j \in Done(e), j < i, e[j].verdict # "on"
      PROVE  OW!InTurn(e).verdict = "dropOut" /\ out # NoInterface
  <2>1. a[j].verdict = "on"
    BY <1>1, <1>2 DEF Done
  <2>2. e[j].verdict = "dropOut" /\ out # NoInterface
    BY <1>1, <1>2, <2>1 DEF Agree
  <2> QED BY <1>2, <2>2, TurnFacts
<1>3. ASSUME NEW i \in Done(a), i \notin Done(e)
      PROVE  OW!InTurn(e).verdict = "dropOut" /\ out # NoInterface
  <2>1. PICK j \in DOMAIN e : j < i /\ e[j].verdict # "on"
    BY <1>1, <1>3 DEF Done
  <2>2. PICK x \in Done(e) : x <= j /\ e[x].verdict # "on"
    BY <2>1, FirstDecides
  <2>3. x < i
    BY <1>1, <2>1, <2>2
  <2> QED BY <1>2, <2>2, <2>3
<1>4. ASSUME OW!InTurn(a).guard, out \notin {vpn, NoInterface}
      PROVE  OW!InTurn(e).verdict \in {"drop", "dropOut"}
  <2>1. PICK i \in Done(a) : a[i].guard
    BY <1>4, TurnFacts
  <2>2. e[i].verdict \in {"drop", "dropOut"}
    BY <1>1, <1>4, <2>1 DEF Agree
  <2>3. CASE i \in Done(e)
    BY <2>2, <2>3, TurnFacts
  <2> QED BY <1>3, <2>3
<1>5. ASSUME OW!InTurn(a).verdict # "unknown"
      PROVE  /\ \/ OW!InTurn(e).verdict = OW!InTurn(a).verdict
                \/ OW!InTurn(e).verdict = "dropOut" /\ out # NoInterface
             /\ OW!InTurn(e).verdict # "dropOut" => OW!InTurn(e).mark = OW!InTurn(a).mark
  <2>0. SUFFICES ASSUME ~(OW!InTurn(e).verdict = "dropOut" /\ out # NoInterface)
                 PROVE  OW!InTurn(e).verdict = OW!InTurn(a).verdict /\ OW!InTurn(e).mark = OW!InTurn(a).mark
    OBVIOUS
  <2>1. Done(a) \subseteq Done(e)
    BY <1>3, <2>0
  <2>2. \A i \in Done(a) : a[i].verdict # "unknown"
    BY <1>5, TurnFacts
  <2>3. \A i \in Done(a) : e[i].verdict = a[i].verdict
    <3> SUFFICES ASSUME NEW i \in Done(a), e[i].verdict # a[i].verdict PROVE FALSE
      OBVIOUS
    <3>1. e[i].verdict = "dropOut" /\ out # NoInterface
      BY <1>1, <2>2 DEF Agree
    <3> QED BY <2>0, <2>1, <3>1, TurnFacts
  <2>4. Done(e) \subseteq Done(a)
    <3> SUFFICES ASSUME NEW i \in Done(e), i \notin Done(a) PROVE FALSE
      OBVIOUS
    <3>1. PICK j \in DOMAIN a : j < i /\ a[j].verdict # "on"
      BY <1>1 DEF Done
    <3>2. PICK x \in Done(a) : x <= j /\ a[x].verdict # "on"
      BY <3>1, FirstDecides
    <3>3. e[x].verdict # "on" /\ x < i
      BY <1>1, <2>3, <3>1, <3>2
    <3> QED BY <1>1, <2>1, <3>2, <3>3 DEF Done
  <2>5. OW!InTurn(e).verdict = OW!InTurn(a).verdict
    <3>1. CASE \E i \in Done(a) : a[i].verdict # "on"
      BY <2>1, <2>3, <3>1, TurnFacts
    <3>2. CASE \A i \in Done(a) : a[i].verdict = "on"
      BY <2>3, <2>4, <3>2, TurnFacts
    <3> QED BY <3>1, <3>2
  <2>6. \A i \in Done(a) : e[i].mark = a[i].mark
    <3> SUFFICES ASSUME NEW i \in Done(a) PROVE e[i].mark = a[i].mark
      OBVIOUS
    <3>1. e[i].verdict # "dropOut"
      BY <1>1, <2>3 DEF Agree
    <3> QED BY <1>1, <2>2, <3>1 DEF Agree
  <2>7. Marking(e) = Marking(a)
    BY <2>1, <2>4, <2>6 DEF Marking
  <2>8. OW!InTurn(e).mark = OW!InTurn(a).mark
    <3>1. CASE Marking(a) = {}
      BY <2>7, <3>1, TurnFacts
    <3>2. CASE Marking(a) # {}
      <4>1. Bounded(Marking(a))
        BY DEF Marking, Done, Bounded
      <4>2. PICK i \in Marking(a) : \A j \in Marking(a) : j <= i
        BY <3>2, <4>1, LastOf
      <4>3. i \in Done(a)
        BY DEF Marking
      <4> QED BY <2>6, <2>7, <4>2, <4>3, TurnFacts
    <3> QED BY <3>1, <3>2
  <2> QED BY <2>5, <2>8
<1>6. OW!InTurn(a).verdict \in {"on", "accept", "drop", "return", "unknown"}
  <2>1. \A i \in Done(a) : a[i].verdict \in {"on", "accept", "drop", "return", "unknown"}
    BY <1>1 DEF Agree
  <2>2. CASE \E i \in Done(a) : a[i].verdict # "on"
    BY <2>1, <2>2, TurnFacts
  <2>3. CASE \A i \in Done(a) : a[i].verdict = "on"
    BY <2>3, TurnFacts
  <2> QED BY <2>2, <2>3
<1> QED BY <1>4, <1>5, <1>6 DEF Agree

\* A chain that is bound has one name.
LEMMA BoundFacts ==
    ASSUME NEW b, OW!Valid(b)
    PROVE  /\ \A x \in OW!Range(b.chains) : /\ x \in OW!BoundChain /\ x.name \in OW!Names(b)
                                            /\ OW!Bound(b, x.name) = x
           /\ \A c \in OW!Names(b) : /\ c \in OwChains /\ OW!Bound(b, c).name = c
                                     /\ OW!Bound(b, c) \in OW!Range(b.chains)
<1>1. b.chains \in Seq(OW!BoundChain)
  BY DEF OW!Valid, OW!Bindings
<1>2. \A i \in DOMAIN b.chains : b.chains[i] \in OW!BoundChain
  BY <1>1, LenProperties, ElementOfSeq
<1>3. OW!Range(b.chains) = {b.chains[i] : i \in DOMAIN b.chains}
  BY DEF OW!Range
<1>4. \A x, y \in OW!Range(b.chains) : x.name = y.name => x = y
  BY <1>3 DEF OW!Valid
<1>5. ASSUME NEW c \in OW!Names(b)
      PROVE  OW!Bound(b, c) \in OW!Range(b.chains) /\ OW!Bound(b, c).name = c
  BY <1>3, <1>5 DEF OW!Bound, OW!Names
<1>6. \A x \in OW!Range(b.chains) : x.name \in OW!Names(b)
  BY <1>3 DEF OW!Names
<1>7. \A x \in OW!Range(b.chains) : x \in OW!BoundChain
  BY <1>2, <1>3
<1>8. \A x \in OW!Range(b.chains) : x.name \in OwChains
  BY <1>7 DEF OW!BoundChain
<1> QED BY <1>4, <1>5, <1>6, <1>7, <1>8

\* What the reader knows of a rule is what the kernel does by it.
LEMMA RulesAgree ==
    ASSUME NEW b, NEW s, NEW me, NEW r \in OW!Rule, NEW rt, NEW out \in Interfaces \cup {NoInterface},
           NEW call, NEW deeper,
           r.iifname # "wild",
           r.does \in {"jump", "return"} /\ r.notOut # NoInterface => out \notin {NoInterface, r.notOut},
           OW!SetKnown(b, s) => rt.member,
           r.does = "jump" /\ OW!Callable(b, me, r.to) => Agree(call[r.to], deeper[r.to], out, b.vpn)
    PROVE  Agree(OW!RuleDoes(b, s, me, r, call), OW!KernelDoes(rt, r, out, deeper), out, b.vpn)
<1> DEFINE w == OW!RuleDoes(b, s, me, r, call)
           k == OW!KernelDoes(rt, r, out, deeper)
           matches == OW!RuleMatches(b, s, r)
           taken == OW!Applies(rt, r, out)
<1>0. /\ r.saddr \in {"any", "this", "other", "within", "beyond"}
      /\ r.daddr \in {"any", "this", "other", "set", "within", "beyond"}
      /\ r.iifname \in {"any", "this", "other"}
      /\ r.does \in {"mark", "jump", "return", "accept", "drop"}
  BY DEF OW!Rule
<1>1. matches \in {"yes", "no", "unknown"}
  BY DEF OW!RuleMatches
<1>2. matches = "no" => ~taken
  BY <1>0 DEF OW!RuleMatches, OW!Applies, OW!Vague
<1>3. matches = "yes" => (taken <=> (r.notOut # NoInterface => out \notin {NoInterface, r.notOut}))
  BY <1>0 DEF OW!RuleMatches, OW!Applies, OW!Vague
<1>5. \A x, y : Agree(x, y, out, b.vpn) => Agree(OW!FromCall(x), OW!FromCall(y), out, b.vpn)
  BY DEF Agree, OW!FromCall
<1>6. CASE matches = "unknown"
  BY <1>6 DEF OW!RuleDoes, OW!KernelDoes, Agree, OW!Effect
<1>7. CASE matches = "no"
  <2>1. w = OW!Effect("on") /\ k = OW!Effect("on")
    BY <1>2, <1>7 DEF OW!RuleDoes, OW!KernelDoes
  <2> QED BY <2>1 DEF Agree, OW!Effect
<1>8. CASE matches = "yes" /\ r.does = "jump"
  <2>1. CASE ~OW!Callable(b, me, r.to)
    <3>1. w = OW!Effect("unknown")
      BY <1>8, <2>1 DEF OW!RuleDoes
    <3> QED BY <3>1 DEF Agree, OW!Effect
  <2>2. CASE OW!Callable(b, me, r.to)
    <3>1. w = OW!FromCall(call[r.to])
      BY <1>8, <2>2 DEF OW!RuleDoes
    <3>2. k = OW!FromCall(deeper[r.to])
      BY <1>3, <1>8 DEF OW!KernelDoes
    <3> QED BY <1>5, <1>8, <2>2, <3>1, <3>2
  <2> QED BY <2>1, <2>2
<1>9. CASE matches = "yes" /\ r.does # "jump"
  <2>1. w = OW!Act(b, me, r)
    BY <1>9 DEF OW!RuleDoes
  <2>2. CASE r.does = "mark"
    <3>1. w = OW!Effect("unknown") \/ (r.notOut = NoInterface /\ w = [OW!Effect("on") EXCEPT !.mark = r.mark])
      BY <2>1, <2>2 DEF OW!Act
    <3>2. r.notOut = NoInterface => k = [OW!Effect("on") EXCEPT !.mark = r.mark]
      BY <1>3, <1>9, <2>2 DEF OW!KernelDoes
    <3> QED BY <3>1, <3>2 DEF Agree, OW!Effect
  <2>3. CASE r.does = "return"
    <3>1. w = OW!Effect("unknown") \/ w = OW!Effect("return")
      BY <2>1, <2>3 DEF OW!Act
    <3>2. k = OW!Effect("return")
      BY <1>3, <1>9, <2>3 DEF OW!KernelDoes
    <3> QED BY <3>1, <3>2 DEF Agree, OW!Effect
  <2>4. CASE r.does = "accept"
    <3>1. w = OW!Effect("unknown") \/ (r.notOut = NoInterface /\ w = OW!Effect("accept"))
      BY <2>1, <2>4 DEF OW!Act
    <3>2. r.notOut = NoInterface => k = OW!Effect("accept")
      BY <1>3, <1>9, <2>4 DEF OW!KernelDoes
    <3> QED BY <3>1, <3>2 DEF Agree, OW!Effect
  <2>5. CASE r.does = "drop"
    <3>1. w = [OW!Effect(IF r.notOut = NoInterface THEN "drop" ELSE "on") EXCEPT
                 !.guard = me.role = "guard" /\ OW!Scoped(r) /\ r.notOut \in {NoInterface, b.vpn}]
      BY <2>1, <2>5 DEF OW!Act
    <3>2. /\ w.verdict = IF r.notOut = NoInterface THEN "drop" ELSE "on"
          /\ w.mark = NoMark
          /\ w.guard => r.notOut \in {NoInterface, b.vpn}
      BY <3>1 DEF OW!Effect
    <3>3. k = IF taken THEN OW!Effect(IF r.notOut = NoInterface THEN "drop" ELSE "dropOut") ELSE OW!Effect("on")
      BY <2>5 DEF OW!KernelDoes
    <3>4. /\ k.verdict = IF taken THEN IF r.notOut = NoInterface THEN "drop" ELSE "dropOut" ELSE "on"
          /\ k.mark = NoMark
      BY <3>3 DEF OW!Effect
    <3> QED BY <1>3, <1>9, <3>2, <3>4 DEF Agree
  <2> QED BY <1>0, <1>9, <2>2, <2>3, <2>4, <2>5
<1> QED BY <1>1, <1>6, <1>7, <1>8, <1>9

\* What a chain is to what comes after it when it is hooked.
Passing(e) == [e EXCEPT !.verdict = IF @ \in {"accept", "return"} THEN "on" ELSE @]

\* The snapshot has the chains that were bound, and no member of the set that is none.
Sees(b, s, rt) ==
    /\ OW!Valid(b) /\ rt \in OW!Routers
    /\ \A c \in OW!Names(b) : s[OW!ChainPart(c)] = rt.chains[c]
    /\ OW!SetKnown(b, s) => rt.member

\* No rule of the role's chains names interfaces by a pattern, and no jump or return of them
\* excepts the interface.
Clear(b, rt, role, out) ==
    \A c \in OW!Names(b) : OW!Bound(b, c).role = role =>
        \A i \in DOMAIN rt.chains[c].rules :
            LET r == rt.chains[c].rules[i]
            IN /\ r.iifname # "wild"
               /\ r.does \in {"jump", "return"} /\ r.notOut # NoInterface => out \notin {NoInterface, r.notOut}

\* What is said of the chains that a chain may call is what they do.
CallsAgree(b, role, out, levels, within) ==
    \A c \in OW!Names(b), stack \in SUBSET OW!Names(b) :
        OW!Bound(b, c).role = role /\ OW!Bound(b, c).hook = "none" =>
            Agree(levels[c][stack], within[c], out, b.vpn)

\* The chains of a router are lists of rules.
LEMMA RouterFacts ==
    ASSUME NEW rt \in OW!Routers, NEW c \in OwChains
    PROVE  LET rules == rt.chains[c].rules
           IN /\ Bounded(DOMAIN rules)
              /\ \A i \in DOMAIN rules : rules[i] \in OW!Rule
              /\ rt.chains[c].policy \in {"accept", "drop"}
<1> DEFINE rules == rt.chains[c].rules
<1>1. rt.chains[c] \in OW!Chain
  BY DEF OW!Routers
<1>2. rules \in Seq(OW!Rule) /\ rt.chains[c].policy \in {"accept", "drop"}
  BY <1>1 DEF OW!Chain
<1>3. DOMAIN rules = 1 .. Len(rules) /\ Len(rules) \in Nat
  BY <1>2
<1>4. \A i \in DOMAIN rules : rules[i] \in OW!Rule
  BY <1>2, <1>3, ElementOfSeq
<1>5. Bounded(DOMAIN rules)
  <2>1. \A i \in DOMAIN rules : i \in Int /\ 1 <= i /\ i <= Len(rules)
    BY <1>3
  <2>2. 1 \in Int /\ Len(rules) \in Int
    BY <1>3
  <2> HIDE DEF rules
  <2> QED BY <2>1, <2>2 DEF Bounded
<1> QED BY <1>2, <1>4, <1>5

\* A hooked chain does not return.
LEMMA HookedDoNotReturn ==
    ASSUME NEW b, NEW s, NEW me, NEW r, NEW call, me.hook # "none", r \in OW!Rule
    PROVE  OW!RuleDoes(b, s, me, r, call).verdict # "return"
<1>1. r.does \in {"mark", "jump", "return", "accept", "drop"}
  BY DEF OW!Rule
<1>2. \A w : OW!FromCall(w).verdict # "return"
  BY DEF OW!FromCall
<1>3. r.does # "jump" => OW!Act(b, me, r).verdict # "return"
  BY <1>1 DEF OW!Act, OW!Effect
<1> QED BY <1>2, <1>3 DEF OW!RuleDoes, OW!Effect

\* What the rules of one chain do, to the reader and to the kernel.
RulesSeen(b, s, rt, c, stack, levels) ==
    [i \in DOMAIN rt.chains[c].rules |->
       OW!RuleDoes(b, s, OW!Bound(b, c), rt.chains[c].rules[i], [to \in OW!Names(b) |-> levels[to][stack \cup {c}]])]
RulesDone(rt, c, out, within) ==
    [i \in DOMAIN rt.chains[c].rules |-> OW!KernelDoes(rt, rt.chains[c].rules[i], out, within)]

LEMMA RulesAgreeInTurn ==
    ASSUME NEW b, NEW s, NEW rt, Sees(b, s, rt), NEW role, NEW out \in Interfaces \cup {NoInterface},
           Clear(b, rt, role, out), NEW levels, NEW within, CallsAgree(b, role, out, levels, within),
           NEW c \in OW!Names(b), OW!Bound(b, c).role = role, NEW stack \in SUBSET OW!Names(b)
    PROVE  LET a == OW!InTurn(RulesSeen(b, s, rt, c, stack, levels))
           IN /\ Agree(a, OW!InTurn(RulesDone(rt, c, out, within)), out, b.vpn)
              /\ OW!Bound(b, c).hook # "none" => a.verdict # "return"
<1> DEFINE rules == rt.chains[c].rules
           call == [to \in OW!Names(b) |-> levels[to][stack \cup {c}]]
           me == OW!Bound(b, c)
           a == RulesSeen(b, s, rt, c, stack, levels)
           e == RulesDone(rt, c, out, within)
<1>1. c \in OwChains
  BY BoundFacts DEF Sees
<1>2. Bounded(DOMAIN rules) /\ \A i \in DOMAIN rules : rules[i] \in OW!Rule
  BY <1>1, RouterFacts DEF Sees
<1>3. ASSUME NEW i \in DOMAIN rules
      PROVE  /\ Agree(OW!RuleDoes(b, s, me, rules[i], call), OW!KernelDoes(rt, rules[i], out, within), out, b.vpn)
             /\ me.hook # "none" => OW!RuleDoes(b, s, me, rules[i], call).verdict # "return"
  <2>1. PICK r \in OW!Rule : r = rules[i]
    BY <1>2
  <2>2. /\ r.iifname # "wild"
        /\ r.does \in {"jump", "return"} /\ r.notOut # NoInterface => out \notin {NoInterface, r.notOut}
    BY <2>1 DEF Clear
  <2>3. ASSUME OW!Callable(b, me, r.to)
        PROVE  Agree(call[r.to], within[r.to], out, b.vpn)
    <3>1. r.to \in OW!Names(b) /\ OW!Bound(b, r.to).hook = "none" /\ OW!Bound(b, r.to).role = role
      BY <2>3 DEF OW!Callable
    <3>2. PICK below \in SUBSET OW!Names(b) : below = stack \cup {c}
      OBVIOUS
    <3>3. Agree(levels[r.to][below], within[r.to], out, b.vpn)
      BY <3>1 DEF CallsAgree
    <3>4. call[r.to] = levels[r.to][below]
      BY <3>1, <3>2
    <3> QED BY <3>3, <3>4
  <2>4. OW!SetKnown(b, s) => rt.member
    BY DEF Sees
  <2> HIDE DEF call, rules, me
  <2>5. Agree(OW!RuleDoes(b, s, me, r, call), OW!KernelDoes(rt, r, out, within), out, b.vpn)
    BY <2>2, <2>3, <2>4, RulesAgree
  <2>6. me.hook # "none" => OW!RuleDoes(b, s, me, r, call).verdict # "return"
    BY HookedDoNotReturn
  <2> QED BY <2>1, <2>5, <2>6
<1>4. /\ DOMAIN a = DOMAIN rules /\ DOMAIN e = DOMAIN rules
      /\ \A i \in DOMAIN rules : a[i] = OW!RuleDoes(b, s, me, rules[i], call)
      /\ \A i \in DOMAIN rules : e[i] = OW!KernelDoes(rt, rules[i], out, within)
  BY DEF RulesSeen, RulesDone
<1> HIDE DEF rules, call, me, a, e
<1>5. Agree(OW!InTurn(a), OW!InTurn(e), out, b.vpn)
  BY <1>2, <1>3, <1>4, TurnsAgree
<1>6. ASSUME me.hook # "none" PROVE OW!InTurn(a).verdict # "return"
  <2>1. \A i \in Done(a) : a[i].verdict # "return"
    BY <1>3, <1>4, <1>6 DEF Done
  <2>2. CASE \E i \in Done(a) : a[i].verdict # "on"
    BY <1>2, <1>4, <2>1, <2>2, TurnFacts
  <2>3. CASE \A i \in Done(a) : a[i].verdict = "on"
    BY <1>2, <1>4, <2>3, TurnFacts
  <2> QED BY <2>2, <2>3
<1> QED BY <1>5, <1>6 DEF me, a, e

\* A chain that is called does to its rules what they do in turn; one that is hooked has a
\* policy as well.
LEMMA ChainsAgree ==
    ASSUME NEW b, NEW s, NEW rt, Sees(b, s, rt), NEW role, NEW out \in Interfaces \cup {NoInterface},
           Clear(b, rt, role, out), NEW levels, NEW within, CallsAgree(b, role, out, levels, within),
           NEW c \in OW!Names(b), OW!Bound(b, c).role = role, NEW stack \in SUBSET OW!Names(b)
    PROVE  LET w == OW!Level(b, s, levels)[c][stack]
               k == OW!KernelLevel(rt, out, within)[c]
               root == [k EXCEPT !.verdict = IF @ = "return" THEN rt.chains[c].policy ELSE @]
           IN IF OW!Bound(b, c).hook = "none" THEN Agree(w, k, out, b.vpn)
              ELSE Agree(Passing(w), Passing(root), out, b.vpn)
<1> DEFINE me == OW!Bound(b, c)
           a == OW!InTurn(RulesSeen(b, s, rt, c, stack, levels))
           e == OW!InTurn(RulesDone(rt, c, out, within))
           end == IF me.hook # "none" /\ rt.chains[c].policy = "drop" THEN "drop" ELSE "return"
           w == OW!Level(b, s, levels)[c][stack]
           k == OW!KernelLevel(rt, out, within)[c]
           root == [k EXCEPT !.verdict = IF @ = "return" THEN rt.chains[c].policy ELSE @]
<1>1. c \in OwChains /\ s[OW!ChainPart(c)] = rt.chains[c]
  BY BoundFacts DEF Sees
<1>2. rt.chains[c].policy \in {"accept", "drop"}
  BY <1>1, RouterFacts DEF Sees
<1>3. Agree(a, e, out, b.vpn) /\ (me.hook # "none" => a.verdict # "return")
  BY RulesAgreeInTurn
<1>4. \/ w = OW!Effect("unknown")
      \/ w = [a EXCEPT !.verdict = IF @ = "on" THEN end ELSE @, !.reached = @ \cup {c}]
  <2> DEFINE W(cc, st) == LET loaded == s[OW!ChainPart(cc)]
             IN IF cc \in st \/ ~loaded.asBound THEN OW!Effect("unknown")
                ELSE [OW!InTurn([i \in DOMAIN loaded.rules |->
                          OW!RuleDoes(b, s, OW!Bound(b, cc), loaded.rules[i],
                                      [to \in OW!Names(b) |-> levels[to][st \cup {cc}]])])
                        EXCEPT !.verdict = IF @ = "on" THEN
                              IF OW!Bound(b, cc).hook # "none" /\ loaded.policy = "drop" THEN "drop" ELSE "return"
                              ELSE @, !.reached = @ \cup {cc}]
  <2>1. OW!Level(b, s, levels) = [cc \in OW!Names(b) |-> [st \in SUBSET OW!Names(b) |-> W(cc, st)]]
    BY DEF OW!Level
  <2>2. w = W(c, stack)
    <3> HIDE DEF W
    <3> QED BY <2>1
  <2> QED BY <1>1, <2>2 DEF RulesSeen
<1>5. k = [e EXCEPT !.verdict = IF @ = "on" THEN "return" ELSE @]
  BY <1>1 DEF OW!KernelLevel, RulesDone
<1>6. CASE w = OW!Effect("unknown")
  <2>1. w.verdict = "unknown" /\ w.guard = FALSE /\ Passing(w).verdict = "unknown" /\ Passing(w).guard = FALSE
    BY <1>6 DEF OW!Effect, Passing
  <2> QED BY <2>1 DEF Agree
<1>7. CASE w = [a EXCEPT !.verdict = IF @ = "on" THEN end ELSE @, !.reached = @ \cup {c}]
  <2> HIDE DEF a, e, w
  <2>1. /\ w.verdict = (IF a.verdict = "on" THEN end ELSE a.verdict)
        /\ w.mark = a.mark /\ w.guard = a.guard
    BY <1>7
  <2>2. k.verdict = (IF e.verdict = "on" THEN "return" ELSE e.verdict) /\ k.mark = e.mark
    BY <1>5
  <2>3. root.verdict = (IF k.verdict = "return" THEN rt.chains[c].policy ELSE k.verdict) /\ root.mark = k.mark
    OBVIOUS
  <2> HIDE DEF k, root, me
  <2>4. CASE me.hook = "none"
    <3>1. Agree(w, k, out, b.vpn)
      BY <1>3, <2>1, <2>2, <2>4 DEF Agree
    <3> QED BY <2>4, <3>1 DEF w, k, me
  <2>5. CASE me.hook # "none"
    <3>1. Agree(Passing(w), Passing(root), out, b.vpn)
      BY <1>2, <1>3, <2>1, <2>2, <2>3, <2>5 DEF Agree, Passing
    <3> QED BY <2>5, <3>1 DEF w, k, root, me
  <2> QED BY <2>4, <2>5
<1> QED BY <1>4, <1>6, <1>7

\* What chains do one call deeper and one more, to the reader and to the kernel.
Unwalked(b) == [c \in OW!Names(b) |-> [stack \in SUBSET OW!Names(b) |-> OW!Effect("unknown")]]
Walking(b, s, n, f) == f = [d \in 0 .. n |-> IF d = 0 THEN Unwalked(b) ELSE OW!Level(b, s, f[d - 1])]
Unentered == [c \in OwChains |-> OW!Effect("return")]
Within(rt, out, n, f) == f = [d \in 0 .. n |-> IF d = 0 THEN Unentered ELSE OW!KernelLevel(rt, out, f[d - 1])]

\* To any depth there is such a function: the least depth without one would have one.
LEMMA WalkExists == ASSUME NEW b, NEW s PROVE \A n \in Nat : \E f : Walking(b, s, n, f)
<1> DEFINE T == {n \in Nat : ~ \E f : Walking(b, s, n, f)}
<1> SUFFICES ASSUME T # {} PROVE FALSE
  OBVIOUS
<1>1. PICK n \in T : \A m \in T : n <= m
  <2> HIDE DEF T
  <2>1. T \subseteq Nat
    BY DEF T
  <2> QED BY <2>1, LeastOf
<1>2. n # 0
  <2> DEFINE f == [d \in 0 .. 0 |-> Unwalked(b)]
  <2>1. Walking(b, s, 0, f)
    BY DEF Walking
  <2> QED BY <2>1
<1>3. n - 1 \in Nat /\ n - 1 \notin T
  BY <1>1, <1>2
<1>4. PICK f : Walking(b, s, n - 1, f)
  BY <1>3
<1> DEFINE g == [d \in 0 .. n |-> IF d = n THEN OW!Level(b, s, f[n - 1]) ELSE f[d]]
<1>5. \A d \in 0 .. n - 1 : g[d] = f[d] /\ f[d] = IF d = 0 THEN Unwalked(b) ELSE OW!Level(b, s, f[d - 1])
  BY <1>3, <1>4 DEF Walking
<1>6. \A d \in 0 .. n : g[d] = IF d = 0 THEN Unwalked(b) ELSE OW!Level(b, s, g[d - 1])
  <2> SUFFICES ASSUME NEW d \in 0 .. n PROVE g[d] = IF d = 0 THEN Unwalked(b) ELSE OW!Level(b, s, g[d - 1])
    OBVIOUS
  <2>1. CASE d = n
    <3>1. g[d - 1] = f[d - 1]
      BY <1>3, <1>5, <2>1
    <3> QED BY <1>2, <2>1, <3>1
  <2>2. CASE d # n
    <3>1. d \in 0 .. n - 1 /\ (d # 0 => d - 1 \in 0 .. n - 1)
      BY <1>3, <2>2
    <3> HIDE DEF g
    <3> QED BY <1>5, <3>1
  <2> QED BY <2>1, <2>2
<1>7. Walking(b, s, n, g)
  BY <1>6 DEF Walking
<1> QED BY <1>7

\* And one for the kernel.
LEMMA KernelExists ==
    ASSUME NEW rt, NEW out PROVE \A n \in Nat : \E f : Within(rt, out, n, f)
<1> DEFINE T == {n \in Nat : ~ \E f : Within(rt, out, n, f)}
<1> SUFFICES ASSUME T # {} PROVE FALSE
  OBVIOUS
<1>1. PICK n \in T : \A m \in T : n <= m
  <2> HIDE DEF T
  <2>1. T \subseteq Nat
    BY DEF T
  <2> QED BY <2>1, LeastOf
<1>2. n # 0
  <2> DEFINE f == [d \in 0 .. 0 |-> Unentered]
  <2>1. Within(rt, out, 0, f)
    BY DEF Within
  <2> QED BY <2>1
<1>3. n - 1 \in Nat /\ n - 1 \notin T
  BY <1>1, <1>2
<1>4. PICK f : Within(rt, out, n - 1, f)
  BY <1>3
<1> DEFINE g == [d \in 0 .. n |-> IF d = n THEN OW!KernelLevel(rt, out, f[n - 1]) ELSE f[d]]
<1>5. \A d \in 0 .. n - 1 : g[d] = f[d] /\ f[d] = IF d = 0 THEN Unentered ELSE OW!KernelLevel(rt, out, f[d - 1])
  BY <1>3, <1>4 DEF Within
<1>6. \A d \in 0 .. n : g[d] = IF d = 0 THEN Unentered ELSE OW!KernelLevel(rt, out, g[d - 1])
  <2> SUFFICES ASSUME NEW d \in 0 .. n PROVE g[d] = IF d = 0 THEN Unentered ELSE OW!KernelLevel(rt, out, g[d - 1])
    OBVIOUS
  <2>1. CASE d = n
    <3>1. g[d - 1] = f[d - 1]
      BY <1>3, <1>5, <2>1
    <3> QED BY <1>2, <2>1, <3>1
  <2>2. CASE d # n
    <3>1. d \in 0 .. n - 1 /\ (d # 0 => d - 1 \in 0 .. n - 1)
      BY <1>3, <2>2
    <3> HIDE DEF g
    <3> QED BY <1>5, <3>1
  <2> QED BY <2>1, <2>2
<1>7. Within(rt, out, n, g)
  BY <1>6 DEF Within
<1> QED BY <1>7

\* A walk and what it walks through, level by level.
LEMMA WalkLevels ==
    ASSUME NEW b, NEW s
    PROVE  \E f : /\ f[0] = Unwalked(b)
                  /\ \A d \in 1 .. OW!Depth : f[d] = OW!Level(b, s, f[d - 1])
                  /\ \A root : OW!Walk(b, s, root) = f[OW!Depth][root][{}]
<1> DEFINE walk == CHOOSE f : Walking(b, s, OW!Depth, f)
<1>1. \A root : OW!Walk(b, s, root) = walk[OW!Depth][root][{}]
  BY DEF OW!Walk, Walking, Unwalked
<1>2. OW!Depth \in Nat
  BY DEF OW!Depth
<1>3. Walking(b, s, OW!Depth, walk)
  BY <1>2, WalkExists
<1> HIDE DEF walk
<1>4. /\ walk[0] = Unwalked(b)
      /\ \A d \in 1 .. OW!Depth : walk[d] = OW!Level(b, s, walk[d - 1])
  BY <1>2, <1>3 DEF Walking
<1> QED BY <1>1, <1>4

\* And the kernel.
LEMMA KernelLevels ==
    ASSUME NEW rt, NEW out
    PROVE  \E f : /\ \A d \in 1 .. OW!JumpStack : f[d] = OW!KernelLevel(rt, out, f[d - 1])
                  /\ \A root : OW!Kernel(rt, root, out) =
                         [f[OW!JumpStack][root] EXCEPT
                            !.verdict = IF @ = "return" THEN rt.chains[root].policy ELSE @]
<1> DEFINE within == CHOOSE f : Within(rt, out, OW!JumpStack, f)
<1>1. \A root : OW!Kernel(rt, root, out) =
        [within[OW!JumpStack][root] EXCEPT !.verdict = IF @ = "return" THEN rt.chains[root].policy ELSE @]
  BY DEF OW!Kernel, Within, Unentered
<1>2. OW!JumpStack \in Nat
  BY DEF OW!JumpStack
<1>3. Within(rt, out, OW!JumpStack, within)
  BY <1>2, KernelExists
<1> HIDE DEF within
<1>4. \A d \in 1 .. OW!JumpStack : within[d] = OW!KernelLevel(rt, out, within[d - 1])
  BY <1>2, <1>3 DEF Within
<1> QED BY <1>1, <1>4

\* What the reader says of a hooked chain is what the kernel does there.
LEMMA RootsAgree ==
    ASSUME NEW b, NEW s, NEW rt, Sees(b, s, rt), NEW role, NEW out \in Interfaces \cup {NoInterface},
           Clear(b, rt, role, out),
           NEW c \in OW!Names(b), OW!Bound(b, c).role = role, OW!Bound(b, c).hook # "none"
    PROVE  Agree(Passing(OW!Walk(b, s, c)), Passing(OW!Kernel(rt, c, out)), out, b.vpn)
<1>1. PICK f : /\ f[0] = Unwalked(b)
               /\ \A d \in 1 .. OW!Depth : f[d] = OW!Level(b, s, f[d - 1])
               /\ \A root : OW!Walk(b, s, root) = f[OW!Depth][root][{}]
  BY WalkLevels
<1>2. PICK g : /\ \A d \in 1 .. OW!JumpStack : g[d] = OW!KernelLevel(rt, out, g[d - 1])
               /\ \A root : OW!Kernel(rt, root, out) =
                      [g[OW!JumpStack][root] EXCEPT
                         !.verdict = IF @ = "return" THEN rt.chains[root].policy ELSE @]
  BY KernelLevels
<1>3. CallsAgree(b, role, out, f[0], g[12])
  BY <1>1 DEF CallsAgree, Unwalked, Agree, OW!Effect
<1>4. ASSUME NEW n \in 1 .. 4, CallsAgree(b, role, out, f[n - 1], g[n + 11])
      PROVE  CallsAgree(b, role, out, f[n], g[n + 12])
  <2>1. f[n] = OW!Level(b, s, f[n - 1]) /\ g[n + 12] = OW!KernelLevel(rt, out, g[n + 11])
    <3>1. n + 12 \in 1 .. OW!JumpStack /\ (n + 12) - 1 = n + 11 /\ n \in 1 .. OW!Depth
      BY DEF OW!JumpStack, OW!Depth
    <3> QED BY <1>1, <1>2, <3>1
  <2>2. ASSUME NEW x \in OW!Names(b), NEW stack \in SUBSET OW!Names(b),
               OW!Bound(b, x).role = role, OW!Bound(b, x).hook = "none"
        PROVE  Agree(f[n][x][stack], g[n + 12][x], out, b.vpn)
    BY <1>4, <2>1, <2>2, ChainsAgree
  <2> QED BY <2>2 DEF CallsAgree
<1>5. CallsAgree(b, role, out, f[3], g[15])
  BY <1>3, <1>4
<1>6. f[4] = OW!Level(b, s, f[3]) /\ g[16] = OW!KernelLevel(rt, out, g[15])
  BY <1>1, <1>2 DEF OW!Depth, OW!JumpStack
<1>7. {} \in SUBSET OW!Names(b)
  OBVIOUS
<1>8. Agree(Passing(f[4][c][{}]),
            Passing([g[16][c] EXCEPT !.verdict = IF @ = "return" THEN rt.chains[c].policy ELSE @]), out, b.vpn)
  BY <1>5, <1>6, <1>7, ChainsAgree
<1> QED BY <1>1, <1>2, <1>8 DEF OW!Depth, OW!JumpStack

\* Only the rules of a guard make one.
LEMMA GuardsGuard ==
    ASSUME NEW b, NEW s, NEW rt, Sees(b, s, rt), NEW c \in OW!Names(b), OW!Walk(b, s, c).guard
    PROVE  OW!Bound(b, c).role = "guard"
<1> DEFINE Only(levels) ==
        \A x \in OW!Names(b), stack \in SUBSET OW!Names(b) :
            levels[x][stack].guard => OW!Bound(b, x).role = "guard"
<1>1. PICK f : /\ f[0] = Unwalked(b)
               /\ \A d \in 1 .. OW!Depth : f[d] = OW!Level(b, s, f[d - 1])
               /\ \A root : OW!Walk(b, s, root) = f[OW!Depth][root][{}]
  BY WalkLevels
<1>2. Only(f[0])
  BY <1>1 DEF Unwalked, OW!Effect
<1>3. ASSUME NEW levels, Only(levels), NEW x \in OW!Names(b), NEW stack \in SUBSET OW!Names(b),
             OW!Level(b, s, levels)[x][stack].guard
      PROVE  OW!Bound(b, x).role = "guard"
  <2> DEFINE me == OW!Bound(b, x)
             rules == s[OW!ChainPart(x)].rules
             call == [to \in OW!Names(b) |-> levels[to][stack \cup {x}]]
             a == [i \in DOMAIN rules |-> OW!RuleDoes(b, s, me, rules[i], call)]
             w == OW!Level(b, s, levels)[x][stack]
  <2>1. w = OW!Effect("unknown") \/ w.guard = OW!InTurn(a).guard
    BY DEF OW!Level
  <2>2. OW!InTurn(a).guard
    <3>1. w.guard
      BY <1>3
    <3> HIDE DEF w, a
    <3>2. OW!Effect("unknown").guard = FALSE
      BY DEF OW!Effect
    <3>3. w.guard = OW!InTurn(a).guard
      BY <2>1, <3>1, <3>2, Zenon
    <3> QED BY <3>1, <3>3, Zenon
  <2>3. DOMAIN a = DOMAIN rules /\ Bounded(DOMAIN rules) /\ \A i \in DOMAIN rules : rules[i] \in OW!Rule
    BY BoundFacts, RouterFacts DEF Sees
  <2>4. PICK i \in DOMAIN rules : OW!RuleDoes(b, s, me, rules[i], call).guard
    <3>1. \A i \in DOMAIN rules : a[i] = OW!RuleDoes(b, s, me, rules[i], call)
      OBVIOUS
    <3> HIDE DEF a, rules
    <3>2. PICK i \in Done(a) : a[i].guard
      BY <2>2, <2>3, TurnFacts
    <3>3. i \in DOMAIN rules
      BY <2>3 DEF Done
    <3> QED BY <3>1, <3>2, <3>3
  <2> DEFINE r == rules[i]
  <2> HIDE DEF rules
  <2>5. CASE r.does = "jump" /\ OW!Callable(b, me, r.to)
    <3>1. call[r.to].guard
      BY <2>4, <2>5 DEF OW!RuleDoes, OW!FromCall, OW!Effect
    <3>2. r.to \in OW!Names(b) /\ OW!Bound(b, r.to).role = me.role
      BY <2>5 DEF OW!Callable
    <3>3. stack \cup {x} \in SUBSET OW!Names(b)
      OBVIOUS
    <3> QED BY <1>3, <3>1, <3>2, <3>3
  <2>6. CASE ~(r.does = "jump" /\ OW!Callable(b, me, r.to))
    <3>1. OW!Act(b, me, r).guard
      BY <2>4, <2>6 DEF OW!RuleDoes, OW!Effect
    <3>2. r.does \in {"mark", "return", "accept", "drop"}
      BY <2>3, <2>4, <2>6 DEF OW!RuleDoes, OW!Effect, OW!Rule
    <3> QED BY <3>1, <3>2 DEF OW!Act, OW!Effect
  <2> QED BY <2>5, <2>6
<1>4. ASSUME NEW n \in 1 .. 4, Only(f[n - 1]) PROVE Only(f[n])
  <2>1. f[n] = OW!Level(b, s, f[n - 1])
    BY <1>1 DEF OW!Depth
  <2> QED BY <1>3, <1>4, <2>1
<1> HIDE DEF Only
<1>5. Only(f[4])
  BY <1>2, <1>4
<1>6. f[4][c][{}].guard /\ {} \in SUBSET OW!Names(b)
  BY <1>1 DEF OW!Depth
<1> QED BY <1>5, <1>6 DEF Only

\* What the reader says of a forward chain is so of packets that leave somewhere.
LEMMA ForwardAgree ==
    ASSUME NEW b, NEW s, NEW rt, Sees(b, s, rt), NEW role, NEW out \in Interfaces,
           Clear(b, rt, role, out), NEW c \in OW!ForwardRoots(b, role)
    PROVE  LET w == OW!Walk(b, s, c)
           IN /\ w.verdict = "drop" => OW!Drops(rt, c, out)
              /\ w.verdict \notin {"drop", "unknown"} => OW!Kernel(rt, c, out).verdict # "drop"
              /\ w.guard /\ out # b.vpn => OW!Drops(rt, c, out)
<1> DEFINE w == OW!Walk(b, s, c)
           k == OW!Kernel(rt, c, out)
<1>1. c \in OW!Names(b) /\ OW!Bound(b, c).role = role /\ OW!Bound(b, c).hook # "none"
  BY DEF OW!ForwardRoots
<1>2. Agree(Passing(w), Passing(k), out, b.vpn)
  BY <1>1, RootsAgree
<1>3. out # NoInterface
  BY NothingAssumption
<1> HIDE DEF w, k
<1>4. /\ Passing(w).verdict = IF w.verdict \in {"accept", "return"} THEN "on" ELSE w.verdict
      /\ Passing(k).verdict = IF k.verdict \in {"accept", "return"} THEN "on" ELSE k.verdict
      /\ Passing(w).guard = w.guard
  BY DEF Passing
<1>5. /\ w.verdict = "drop" => k.verdict \in {"drop", "dropOut"}
      /\ w.verdict \notin {"drop", "unknown"} => k.verdict # "drop"
      /\ w.guard /\ out # b.vpn => k.verdict \in {"drop", "dropOut"}
  BY <1>2, <1>3, <1>4 DEF Agree
<1> QED BY <1>5 DEF w, k, OW!Drops

\* What is derived of a snapshot.
LEMMA Derived ==
    ASSUME NEW b, NEW s
    PROVE  \/ OW!Normalize(b, s) = OW!NoFacts
           \/ \E cls, mark, route, selected :
                 /\ cls = OW!Classified(b, s) /\ mark = OW!MarkOf(b, s, cls)
                 /\ route = OW!RouteRead(s, mark)
                 /\ selected = (mark # NoMark /\ OW!RoutePolicy(s, route, mark))
                 /\ OW!Normalize(b, s) = OW!Facts(mark, route, selected,
                      OW!Supported(b, s, cls, mark, selected, OW!Walks(b, s)), OW!Walks(b, s))
  BY Zenon DEF OW!Normalize, OW!Normalized, OW!FactsAfter, OW!FactsUnder, OW!FactsOf

\* The walks are those of the chains that are hooked in forward.
LEMMA WalksOf ==
    ASSUME NEW b, NEW s, OW!Valid(b)
    PROVE  /\ \A v \in OW!Walks(b, s) : \E c \in OW!ForwardRoots(b, v.of.role) : v.w = OW!Walk(b, s, c)
           /\ \A c \in OW!ForwardRoots(b, "forwarding") :
                 \E v \in OW!Walks(b, s) : v.of.role = "forwarding" /\ v.w = OW!Walk(b, s, c)
<1>1. ASSUME NEW v \in OW!Walks(b, s)
      PROVE  \E c \in OW!ForwardRoots(b, v.of.role) : v.w = OW!Walk(b, s, c)
  <2>1. PICK x \in OW!Range(b.chains) : x.hook = "forward" /\ v = [of |-> x, w |-> OW!Walk(b, s, x.name)]
    BY DEF OW!Walks, OW!Hooked
  <2>2. x.name \in OW!Names(b) /\ OW!Bound(b, x.name) = x
    BY BoundFacts
  <2>3. v.of = x /\ v.w = OW!Walk(b, s, x.name)
    BY <2>1
  <2> QED BY <2>1, <2>2, <2>3 DEF OW!ForwardRoots
<1>2. ASSUME NEW c \in OW!ForwardRoots(b, "forwarding")
      PROVE  \E v \in OW!Walks(b, s) : v.of.role = "forwarding" /\ v.w = OW!Walk(b, s, c)
  <2>1. c \in OW!Names(b) /\ OW!Bound(b, c).hook = "forward" /\ OW!Bound(b, c).role = "forwarding"
    BY DEF OW!ForwardRoots
  <2>2. PICK x \in OW!Range(b.chains) : x = OW!Bound(b, c) /\ x.name = c
    BY <2>1, BoundFacts
  <2> DEFINE v == [of |-> x, w |-> OW!Walk(b, s, x.name)]
  <2>3. v \in OW!Walks(b, s)
    BY <2>1, <2>2 DEF OW!Walks, OW!Hooked
  <2> QED BY <2>1, <2>2, <2>3
<1> QED BY <1>1, <1>2

\* What is derived of forwarding and of the guard is so.
LEMMA FiltersFollow ==
    ASSUME NEW b, NEW s, NEW rt, Sees(b, s, rt), NEW out \in Interfaces, NEW f, f = OW!Normalize(b, s)
    PROVE  /\ Clear(b, rt, "forwarding", out) =>
                /\ f.forwarding = "dropped" => \E c \in OW!ForwardRoots(b, "forwarding") : OW!Drops(rt, c, out)
                /\ f.forwarding = "allowed" =>
                      \A c \in OW!ForwardRoots(b, "forwarding") : OW!Kernel(rt, c, out).verdict # "drop"
           /\ Clear(b, rt, "guard", out) /\ f.guard /\ out # b.vpn =>
                \E c \in OW!ForwardRoots(b, "guard") : OW!Drops(rt, c, out)
<1>1. CASE f = OW!NoFacts
  BY <1>1 DEF OW!NoFacts
<1>2. ASSUME NEW cls, NEW mark, NEW route, NEW selected, NEW supported, NEW walks,
             walks = OW!Walks(b, s),
             supported = OW!Supported(b, s, cls, mark, selected, walks),
             f = OW!Facts(mark, route, selected, supported, walks)
      PROVE  /\ Clear(b, rt, "forwarding", out) =>
                /\ f.forwarding = "dropped" => \E c \in OW!ForwardRoots(b, "forwarding") : OW!Drops(rt, c, out)
                /\ f.forwarding = "allowed" =>
                      \A c \in OW!ForwardRoots(b, "forwarding") : OW!Kernel(rt, c, out).verdict # "drop"
             /\ Clear(b, rt, "guard", out) /\ f.guard /\ out # b.vpn =>
                \E c \in OW!ForwardRoots(b, "guard") : OW!Drops(rt, c, out)
  <2>1. /\ f.forwarding = "dropped" => \E v \in walks : v.of.role = "forwarding" /\ v.w.verdict = "drop"
        /\ f.forwarding = "allowed" =>
              supported /\ \A v \in walks : v.of.role = "forwarding" => v.w.verdict # "drop"
        /\ f.guard => \E v \in walks : v.w.guard
    BY <1>2 DEF OW!Facts
  <2>2. supported => \A v \in walks : v.w.verdict # "unknown"
    BY <1>2 DEF OW!Supported
  <2>3. OW!Valid(b)
    BY DEF Sees
  <2>4. ASSUME Clear(b, rt, "forwarding", out), f.forwarding = "dropped"
        PROVE  \E c \in OW!ForwardRoots(b, "forwarding") : OW!Drops(rt, c, out)
    <3>1. PICK v \in walks : v.of.role = "forwarding" /\ v.w.verdict = "drop"
      BY <2>1, <2>4
    <3>2. PICK c \in OW!ForwardRoots(b, "forwarding") : v.w = OW!Walk(b, s, c)
      BY <1>2, <2>3, <3>1, WalksOf
    <3> QED BY <2>4, <3>1, <3>2, ForwardAgree
  <2>5. ASSUME Clear(b, rt, "forwarding", out), f.forwarding = "allowed", NEW c \in OW!ForwardRoots(b, "forwarding")
        PROVE  OW!Kernel(rt, c, out).verdict # "drop"
    <3>1. PICK v \in walks : v.of.role = "forwarding" /\ v.w = OW!Walk(b, s, c)
      BY <1>2, <2>3, WalksOf
    <3>2. v.w.verdict \notin {"drop", "unknown"}
      BY <2>1, <2>2, <2>5, <3>1
    <3> QED BY <2>5, <3>1, <3>2, ForwardAgree
  <2>6. ASSUME Clear(b, rt, "guard", out), f.guard, out # b.vpn
        PROVE  \E c \in OW!ForwardRoots(b, "guard") : OW!Drops(rt, c, out)
    <3>1. PICK v \in walks : v.w.guard
      BY <2>1, <2>6
    <3>2. PICK c \in OW!ForwardRoots(b, v.of.role) : v.w = OW!Walk(b, s, c)
      BY <1>2, <2>3, WalksOf
    <3>3. c \in OW!Names(b) /\ OW!Bound(b, c).role = v.of.role
      BY DEF OW!ForwardRoots
    <3>4. v.of.role = "guard"
      BY <3>1, <3>2, <3>3, GuardsGuard
    <3> QED BY <2>6, <3>1, <3>2, <3>4, ForwardAgree
  <2> QED BY <2>4, <2>5, <2>6
<1> QED BY <1>1, <1>2, Derived

\* What hooked chains do in the order of their priorities.
RootsInTurn(roots, does) ==
    [rank \in {x.priority : x \in roots} |-> Passing(does[CHOOSE x \in roots : x.priority = rank])]

\* The classifier's walk is understood only if the kernel leaves the same mark.
LEMMA ClassifierAgrees ==
    ASSUME NEW b, NEW s, NEW rt, Sees(b, s, rt), Clear(b, rt, "classifier", NoInterface),
           \A x \in OW!Prerouting(b) : x.role = "classifier",
           OW!Classified(b, s).verdict \notin {"unknown", "drop"}
    PROVE  OW!LeavesMark(b, rt, OW!Classified(b, s).mark)
<1> DEFINE roots == OW!Prerouting(b)
           walks == [x \in roots |-> OW!Walk(b, s, x.name)]
           does == [x \in roots |-> OW!Kernel(rt, x.name, NoInterface)]
           a == RootsInTurn(roots, walks)
           e == RootsInTurn(roots, does)
<1>1. OW!Classified(b, s) = OW!InTurn(a)
  <2>1. {x \in roots : x.role = "classifier"} = roots
    OBVIOUS
  <2>2. OW!Classified(b, s) = OW!InOrder(walks)
    BY <2>1 DEF OW!Classified
  <2>3. DOMAIN walks = roots
    OBVIOUS
  <2> HIDE DEF walks, roots
  <2>4. OW!InOrder(walks) = OW!InTurn(RootsInTurn(roots, walks))
    BY <2>3 DEF OW!InOrder, RootsInTurn, Passing
  <2> QED BY <2>2, <2>4
<1>2. OW!LeavesMark(b, rt, OW!Classified(b, s).mark) <=>
        OW!InTurn(e).verdict = "on" /\ OW!InTurn(e).mark = OW!Classified(b, s).mark
  <2>1. DOMAIN does = roots
    OBVIOUS
  <2>2. OW!InOrder(does) = OW!InTurn(RootsInTurn(roots, does))
    <3> HIDE DEF does, roots
    <3> QED BY <2>1 DEF OW!InOrder, RootsInTurn, Passing
  <2> QED BY <2>2 DEF OW!LeavesMark
<1>3. \A x \in roots : /\ x \in OW!Range(b.chains) /\ x.hook = "prerouting" /\ x.role = "classifier"
                        /\ x.name \in OW!Names(b) /\ OW!Bound(b, x.name) = x
                        /\ x.priority \in OW!Priorities
  BY BoundFacts DEF OW!Prerouting, Sees, OW!BoundChain
<1> HIDE DEF roots
<1> DEFINE P == {x.priority : x \in roots}
<1>4. Bounded(P)
  <2>1. \A n \in P : n \in Int /\ -2147483647 - 1 <= n /\ n <= 2147483647
    BY <1>3 DEF OW!Priorities
  <2> HIDE DEF P
  <2> QED BY <2>1 DEF Bounded
<1>5. ASSUME NEW n \in P
      PROVE  Agree(a[n], e[n], NoInterface, b.vpn) /\ a[n].verdict \notin {"accept", "return"}
  <2> DEFINE y == CHOOSE x \in roots : x.priority = n
  <2>1. y \in roots
    OBVIOUS
  <2>2. a[n] = Passing(walks[y]) /\ e[n] = Passing(does[y])
    BY DEF RootsInTurn
  <2> HIDE DEF y
  <2>3. walks[y] = OW!Walk(b, s, y.name) /\ does[y] = OW!Kernel(rt, y.name, NoInterface)
    BY <2>1
  <2>4. Agree(Passing(OW!Walk(b, s, y.name)), Passing(OW!Kernel(rt, y.name, NoInterface)), NoInterface, b.vpn)
    <3>1. y.name \in OW!Names(b) /\ OW!Bound(b, y.name).role = "classifier" /\ OW!Bound(b, y.name).hook # "none"
      BY <1>3, <2>1
    <3>2. NoInterface \in Interfaces \cup {NoInterface}
      OBVIOUS
    <3> QED BY <3>1, <3>2, RootsAgree
  <2>5. a[n].verdict \notin {"accept", "return"}
    <3>1. \A z : Passing(z).verdict \notin {"accept", "return"}
      BY DEF Passing
    <3> QED BY <2>2, <3>1
  <2> QED BY <2>2, <2>3, <2>4, <2>5
<1>6. DOMAIN a = P /\ DOMAIN e = P
  BY DEF RootsInTurn
<1> HIDE DEF P, a, e
<1>7. Agree(OW!InTurn(a), OW!InTurn(e), NoInterface, b.vpn)
  BY <1>4, <1>5, <1>6, TurnsAgree
<1>8. OW!InTurn(a).verdict \notin {"accept", "return"}
  <2>1. \A i \in Done(a) : a[i].verdict \notin {"accept", "return"}
    BY <1>5, <1>6 DEF Done
  <2>2. CASE \E i \in Done(a) : a[i].verdict # "on"
    BY <1>4, <1>6, <2>1, <2>2, TurnFacts
  <2>3. CASE \A i \in Done(a) : a[i].verdict = "on"
    BY <1>4, <1>6, <2>3, TurnFacts
  <2> QED BY <2>2, <2>3
<1>9. OW!InTurn(a).verdict = "on"
  BY <1>1, <1>7, <1>8 DEF Agree
<1> QED BY <1>1, <1>2, <1>7, <1>9 DEF Agree

\* No row applies to some packets of the question only if the reader understands those that do.
LEMMA RowsApply ==
    ASSUME NEW s, NEW rt, NEW route, NEW mark, OW!RoutePolicy(s, route, mark),
           OW!Rows \in DOMAIN s => s[OW!Rows] = rt.rows, NEW special
    PROVE  OW!Lookup(rt, mark, special) = OW!Asked(rt, mark)
<1> DEFINE hits(sp) == {r \in rt.rows : /\ "out" \notin {r.src, r.dst} /\ r.iif # "other"
                                        /\ r \in OW!Special(rt) => r \in sp
                                        /\ mark \cap r.mask = r.mark \cap r.mask
                                        /\ rt.routes[r.table] # NoInterface}
<1>1. \A r \in rt.rows : "out" \notin {r.src, r.dst} /\ r.iif # "other" => r \notin OW!Special(rt)
  BY DEF OW!RoutePolicy, OW!Special
<1>2. hits(special) = hits({})
  BY <1>1
<1>3. \A sp : OW!Lookup(rt, mark, sp) =
              LET r == CHOOSE x \in hits(sp) : \A y \in hits(sp) : x.priority <= y.priority
              IN IF hits(sp) = {} THEN NoRoute ELSE [table |-> r.table, dev |-> rt.routes[r.table]]
  BY DEF OW!Lookup
<1> HIDE DEF hits
<1> QED BY <1>2, <1>3 DEF OW!Asked

\* The route that is derived is the one of every packet of the question.
LEMMA RouteFollows ==
    ASSUME NEW b, NEW s, NEW rt, Sees(b, s, rt), NEW f, f = OW!Normalize(b, s), f.route,
           OW!Rows \in DOMAIN s => s[OW!Rows] = rt.rows,
           \A m : OW!RoutePart(m) \in DOMAIN s => s[OW!RoutePart(m)] = OW!Asked(rt, m),
           Clear(b, rt, "classifier", NoInterface), \A x \in OW!Prerouting(b) : x.role = "classifier"
    PROVE  /\ OW!LeavesMark(b, rt, f.mark)
           /\ \A special \in SUBSET OW!Special(rt) : OW!Lookup(rt, f.mark, special).dev = f.dev
<1>1. f # OW!NoFacts
  BY DEF OW!NoFacts
<1>2. PICK cls, mark, route, selected :
        /\ cls = OW!Classified(b, s) /\ mark = OW!MarkOf(b, s, cls)
        /\ route = OW!RouteRead(s, mark)
        /\ selected = (mark # NoMark /\ OW!RoutePolicy(s, route, mark))
        /\ f = OW!Facts(mark, route, selected,
                 OW!Supported(b, s, cls, mark, selected, OW!Walks(b, s)), OW!Walks(b, s))
  BY <1>1, Derived
<1>3. f.mark = mark /\ f.route = selected /\ f.dev = (IF selected THEN route.dev ELSE NoInterface)
  <2> DEFINE supported == OW!Supported(b, s, cls, mark, selected, OW!Walks(b, s))
             walks == OW!Walks(b, s)
  <2> HIDE DEF supported, walks
  <2>1. f = OW!Facts(mark, route, selected, supported, walks)
    BY <1>2 DEF supported, walks
  <2> QED BY <2>1 DEF OW!Facts
<1>4. mark # NoMark /\ OW!RoutePolicy(s, route, mark)
  BY <1>2, <1>3, Zenon
<1>5. cls.verdict \notin {"unknown", "drop"} /\ mark = cls.mark
  BY <1>2, <1>4 DEF OW!MarkOf, OW!Understood
<1>6. OW!LeavesMark(b, rt, f.mark)
  BY <1>2, <1>3, <1>5, ClassifierAgrees
<1>7. route = OW!Asked(rt, mark)
  BY <1>2, <1>4 DEF OW!RouteRead, OW!RoutePolicy
<1>8. \A special : OW!Lookup(rt, f.mark, special) = route
  BY <1>3, <1>4, <1>7, RowsApply
<1>9. f.dev = route.dev
  BY <1>2, <1>3, <1>4
<1> QED BY <1>6, <1>8, <1>9

-----------------------------------------------------------------------------
(* What is published: a sample has the parts that are asked for, and the    *)
(* facts are those of the first one.                                        *)

\* The parts that were asked for are there.
Covers(s) == \A i \in 1 .. Len(OW!Fixed(binding)) : OW!Fixed(binding)[i] \in DOMAIN s

ReadSoFar == owPc \in {"idle", "first"} => \A i \in 1 .. Len(OW!Fixed(binding)) :
                 i < at => OW!Fixed(binding)[i] \in DOMAIN sample
FirstCovers == owPc \in {"stored", "second", "accepted"} =>
                 Covers(first) /\ \A y \in DOMAIN first : y \in OW!Parts
Published == owFacts = OW!NoFacts \/ (owPc = "accepted" /\ owFacts = OW!Normalize(binding, first))

FactsInv == /\ router \in OW!Routers /\ mid \in OW!Routers
            /\ ReadSoFar /\ FirstCovers /\ Published
            /\ owPc \in {"idle", "first", "stored", "second", "accepted", "refused"}
            /\ owPc = "idle" => at = 1

LEMMA FactsInitially == OW!Init => FactsInv
<1> SUFFICES ASSUME OW!Init PROVE FactsInv
  OBVIOUS
<1>1. router \in OW!Routers /\ mid \in OW!Routers
  BY ConfigurationsAssumption DEF OW!Init
<1>2. owPc = "idle" /\ at = 1 /\ owFacts = OW!NoFacts
  BY DEF OW!Init
<1> QED BY <1>1, <1>2 DEF FactsInv, ReadSoFar, FirstCovers, Published

LEMMA FactsReadPart == SampleInv /\ FactsInv /\ OW!ReadPart => FactsInv'
<1> SUFFICES ASSUME SampleInv, FactsInv, OW!ReadPart PROVE FactsInv'
  OBVIOUS
<1> DEFINE part == OW!Fixed(binding)[at]
<1>1. PICK v \in OW!Answers(router, part) : sample' = OW!With(sample, part, v)
  BY DEF OW!ReadPart
<1>2. /\ owPc \in {"first", "second"} /\ owPc' = owPc /\ at' = at + 1
      /\ UNCHANGED <<router, binding, first, mid, owFacts>>
  BY DEF OW!ReadPart, OW!Sampling, OW!history
<1>3. DOMAIN sample' = DOMAIN sample \cup {part}
  BY <1>1 DEF OW!With
<1>4. ReadSoFar'
  <2> SUFFICES ASSUME owPc = "first", NEW i \in 1 .. Len(OW!Fixed(binding)), i < at + 1
               PROVE  OW!Fixed(binding)[i] \in DOMAIN sample'
    BY <1>2 DEF ReadSoFar
  <2>1. i < at \/ i = at
    BY DEF SampleInv
  <2> QED BY <1>3, <2>1 DEF FactsInv, ReadSoFar
<1> QED BY <1>2, <1>4 DEF FactsInv, FirstCovers, Covers, Published

LEMMA FactsFinish ==
    ASSUME SampleInv, FactsInv, NEW s, OW!AllRead, OW!Finish(s),
           DOMAIN sample \subseteq DOMAIN s, \A y \in DOMAIN s \ DOMAIN sample : y \in OW!Parts
    PROVE  FactsInv'
<1>1. UNCHANGED <<router, binding>> /\ at' = 1
  BY DEF OW!Finish
<1>2. CASE owPc = "first"
  <2>1. first' = s /\ mid' = router /\ owPc' = "stored" /\ owFacts' = owFacts
    BY <1>2 DEF OW!Finish
  <2>2. Covers(first)'
    <3> SUFFICES ASSUME NEW i \in 1 .. Len(OW!Fixed(binding)) PROVE OW!Fixed(binding)[i] \in DOMAIN s
      BY <1>1, <2>1 DEF Covers
    <3>0. OW!Fixed(binding) \in Seq(OW!Parts)
      BY FixedParts DEF SampleInv
    <3>1. i < at
      BY <3>0 DEF OW!AllRead, SampleInv
    <3> QED BY <1>2, <3>1 DEF FactsInv, ReadSoFar
  <2>3. \A y \in DOMAIN s : y \in OW!Parts
    BY <1>2 DEF SampleInv, FirstRead
  <2> QED BY <1>1, <1>2, <2>1, <2>2, <2>3 DEF FactsInv, ReadSoFar, FirstCovers, Published
<1>3. CASE owPc = "second"
  <2>1. /\ first' = first /\ mid' = mid /\ owPc' \in {"accepted", "refused"}
        /\ \/ owFacts' = OW!NoFacts
           \/ owPc' = "accepted" /\ owFacts' = OW!Normalize(binding, first)
    BY <1>3 DEF OW!Finish
  <2>2. Published'
    BY <1>1, <2>1 DEF Published
  <2>3. FirstCovers'
    BY <1>1, <1>3, <2>1 DEF FactsInv, FirstCovers, Covers
  <2> QED BY <1>1, <2>1, <2>2, <2>3 DEF FactsInv, ReadSoFar
<1> QED BY <1>2, <1>3 DEF OW!AllRead, OW!Sampling

LEMMA FactsRoute == SampleInv /\ FactsInv /\ (OW!ReadRoute \/ OW!NoRouteAsked) => FactsInv'
<1>1. ASSUME SampleInv, FactsInv, OW!ReadRoute PROVE FactsInv'
  <2> DEFINE part == OW!RoutePart(OW!Mark)
             s == OW!With(sample, part, OW!Asked(router, OW!Mark))
  <2>1. OW!Finish(s) /\ OW!AllRead /\ OW!Mark \in OW!Marks
    BY <1>1 DEF OW!ReadRoute, OW!Marked
  <2>2. part \in OW!Parts
    BY <2>1, PartFacts
  <2>3. DOMAIN s = DOMAIN sample \cup {part}
    BY DEF OW!With
  <2> HIDE DEF s, part
  <2> QED BY <1>1, <2>1, <2>2, <2>3, FactsFinish
<1>2. ASSUME SampleInv, FactsInv, OW!NoRouteAsked PROVE FactsInv'
  <2>1. OW!Finish(sample) /\ OW!AllRead
    BY <1>2 DEF OW!NoRouteAsked
  <2> QED BY <1>2, <2>1, FactsFinish
<1> QED BY <1>1, <1>2

LEMMA FactsOthers ==
    SampleInv /\ FactsInv /\ (OW!Begin \/ OW!ReadStored \/ OW!CallFails \/ OW!Revoke \/ OW!Edit \/ UNCHANGED OW!vars)
        => FactsInv'
<1> SUFFICES ASSUME SampleInv, FactsInv,
                    OW!Begin \/ OW!ReadStored \/ OW!CallFails \/ OW!Revoke \/ OW!Edit \/ UNCHANGED OW!vars
             PROVE  FactsInv'
  OBVIOUS
<1>1. UNCHANGED <<binding, first, mid, sample, owFacts>>
  BY DEF OW!Begin, OW!ReadStored, OW!CallFails, OW!Revoke, OW!Edit, OW!vars, OW!history
<1>2. router' \in OW!Routers
  BY ConfigurationsAssumption
     DEF FactsInv, OW!Begin, OW!ReadStored, OW!CallFails, OW!Revoke, OW!Edit, OW!vars, OW!history
<1>3. \/ owPc' = owPc /\ (at' = at \/ owPc = "stored")
      \/ owPc = "idle" /\ owPc' \in {"first", "refused"} /\ at' = at
      \/ owPc = "stored" /\ owPc' = "second"
      \/ owPc \in {"first", "stored", "second"} /\ owPc' = "refused"
  BY DEF OW!Begin, OW!ReadStored, OW!CallFails, OW!Revoke, OW!Edit, OW!vars
<1>4. ReadSoFar'
  BY <1>1, <1>3 DEF FactsInv, ReadSoFar
<1>5. FirstCovers'
  BY <1>1, <1>3 DEF FactsInv, FirstCovers, Covers
<1>6. Published'
  BY <1>1, <1>3 DEF FactsInv, Published
<1> QED BY <1>1, <1>2, <1>3, <1>4, <1>5, <1>6 DEF FactsInv

\* What is in a list is in one that is longer.
LEMMA Concatenated ==
    ASSUME NEW S, NEW x \in Seq(S), NEW y \in Seq(S)
    PROVE  /\ x \o y \in Seq(S) /\ Len(x \o y) = Len(x) + Len(y)
           /\ \A i \in 1 .. Len(x) : (x \o y)[i] = x[i]
           /\ \A i \in 1 .. Len(y) : (x \o y)[Len(x) + i] = y[i]
  BY ConcatProperties

\* A sample that has the parts that are asked for has the chains, and the set if there is one.
LEMMA FixedCovers ==
    ASSUME BoundTo, NEW s, Covers(s)
    PROVE  /\ \A c \in OW!Names(binding) : OW!ChainPart(c) \in DOMAIN s
           /\ binding.set => OW!SetPart \in DOMAIN s /\ OW!Member \in DOMAIN s
<1> DEFINE chains == [i \in DOMAIN binding.chains |-> OW!ChainPart(binding.chains[i].name)]
           members == IF binding.set THEN <<OW!SetPart, OW!Member>> ELSE <<>>
           rows == IF binding.source THEN <<OW!Rows>> ELSE <<>>
           one == <<OW!Status>>
<1>1. OW!Fixed(binding) = one \o chains \o members \o rows
  BY DEF OW!Fixed
<1>2. one \in Seq(OW!Parts) /\ Len(one) = 1 /\ members \in Seq(OW!Parts) /\ rows \in Seq(OW!Parts)
  BY PartFacts
<1>3. /\ \A i \in DOMAIN binding.chains : binding.chains[i] \in OW!BoundChain
      /\ DOMAIN binding.chains = 1 .. Len(binding.chains) /\ Len(binding.chains) \in Nat
  <2>1. binding.chains \in Seq(OW!BoundChain)
    BY DEF BoundTo, OW!Valid, OW!Bindings
  <2> QED BY <2>1, LenProperties, ElementOfSeq
<1>4. /\ chains \in Seq(OW!Parts) /\ Len(chains) = Len(binding.chains)
      /\ \A i \in 1 .. Len(chains) : chains[i] = OW!ChainPart(binding.chains[i].name)
  <2>1. ASSUME NEW i \in DOMAIN binding.chains PROVE OW!ChainPart(binding.chains[i].name) \in OW!Parts
    <3>1. PICK c \in OwChains : c = binding.chains[i].name
      BY <1>3 DEF OW!BoundChain
    <3> QED BY <3>1, PartFacts
  <2>2. chains \in [1 .. Len(binding.chains) -> OW!Parts]
    BY <1>3, <2>1
  <2>3. chains \in Seq(OW!Parts)
    BY <1>3, <2>2, SeqDef
  <2>4. DOMAIN chains = 1 .. Len(binding.chains)
    BY <1>3
  <2>5. Len(chains) = Len(binding.chains)
    BY <1>3, <2>3, <2>4, LenProperties
  <2> QED BY <1>3, <2>3, <2>5
<1>5. binding.set => Len(members) = 2 /\ members[1] = OW!SetPart /\ members[2] = OW!Member
  OBVIOUS
<1> DEFINE a == one \o chains
           c == a \o members
<1> HIDE DEF one, chains, members, rows
<1>6. /\ a \in Seq(OW!Parts) /\ Len(a) = 1 + Len(chains)
      /\ \A i \in 1 .. Len(chains) : a[1 + i] = chains[i]
  <2>1. /\ a \in Seq(OW!Parts) /\ Len(a) = Len(one) + Len(chains)
        /\ \A i \in 1 .. Len(chains) : a[Len(one) + i] = chains[i]
    <3>1. one \in Seq(OW!Parts)
      BY <1>2
    <3>2. chains \in Seq(OW!Parts)
      BY <1>4
    <3>3. a \in Seq(OW!Parts)
      BY <3>1, <3>2, Concatenated
    <3>4. Len(a) = Len(one) + Len(chains)
      BY <3>1, <3>2, Concatenated
    <3>5. \A i \in 1 .. Len(chains) : a[Len(one) + i] = chains[i]
      BY <3>1, <3>2, Concatenated
    <3> QED BY <3>3, <3>4, <3>5
  <2> QED BY <1>2, <2>1
<1> HIDE DEF a
<1>7. /\ c \in Seq(OW!Parts) /\ Len(c) = Len(a) + Len(members)
      /\ \A i \in 1 .. Len(a) : c[i] = a[i]
      /\ \A i \in 1 .. Len(members) : c[Len(a) + i] = members[i]
  <2>1. a \in Seq(OW!Parts)
    BY <1>6
  <2>2. members \in Seq(OW!Parts)
    BY <1>2
  <2>3. c \in Seq(OW!Parts)
    BY <2>1, <2>2, Concatenated
  <2>4. Len(c) = Len(a) + Len(members)
    BY <2>1, <2>2, Concatenated
  <2>5. \A i \in 1 .. Len(a) : c[i] = a[i]
    BY <2>1, <2>2, Concatenated
  <2>6. \A i \in 1 .. Len(members) : c[Len(a) + i] = members[i]
    BY <2>1, <2>2, Concatenated
  <2> QED BY <2>3, <2>4, <2>5, <2>6
<1> HIDE DEF c
<1>8. /\ Len(c \o rows) = Len(c) + Len(rows)
      /\ \A i \in 1 .. Len(c) : (c \o rows)[i] = c[i]
  <2>1. c \in Seq(OW!Parts)
    BY <1>7
  <2>2. rows \in Seq(OW!Parts)
    BY <1>2
  <2>3. Len(c \o rows) = Len(c) + Len(rows)
    BY <2>1, <2>2, Concatenated
  <2>4. \A i \in 1 .. Len(c) : (c \o rows)[i] = c[i]
    BY <2>1, <2>2, Concatenated
  <2> QED BY <2>3, <2>4
<1>9. \A i \in 1 .. Len(c) : c[i] \in DOMAIN s
  <2>1. OW!Fixed(binding) = c \o rows
    BY <1>1 DEF a, c
  <2>2. Len(c) \in Nat /\ Len(rows) \in Nat
    BY <1>2, <1>7, LenProperties
  <2>3. Len(c \o rows) = Len(c) + Len(rows)
    BY <1>8
  <2> SUFFICES ASSUME NEW i \in 1 .. Len(c) PROVE c[i] \in DOMAIN s
    OBVIOUS
  <2>4. (c \o rows)[i] = c[i]
    BY <1>8
  <2>5. i \in 1 .. Len(c \o rows)
    BY <2>2, <2>3
  <2>6. \A j \in 1 .. Len(c \o rows) : (c \o rows)[j] \in DOMAIN s
    BY <2>1 DEF Covers
  <2> QED BY <2>4, <2>5, <2>6
<1>10. ASSUME NEW i \in 1 .. Len(chains) PROVE chains[i] \in DOMAIN s
  <2>1. 1 + i \in 1 .. Len(a) /\ Len(a) <= Len(c)
    BY <1>2, <1>4, <1>6, <1>7, LenProperties
  <2>2. c[1 + i] = chains[i] /\ 1 + i \in 1 .. Len(c)
    BY <1>6, <1>7, <2>1
  <2> QED BY <1>9, <2>2
<1>11. ASSUME NEW x \in OW!Names(binding) PROVE OW!ChainPart(x) \in DOMAIN s
  <2>1. PICK i \in DOMAIN binding.chains : binding.chains[i].name = x
    BY DEF OW!Names
  <2>2. i \in 1 .. Len(chains) /\ chains[i] = OW!ChainPart(x)
    BY <1>3, <1>4, <2>1
  <2> QED BY <1>10, <2>2
<1>12. ASSUME binding.set PROVE OW!SetPart \in DOMAIN s /\ OW!Member \in DOMAIN s
  <2>1. Len(a) \in Nat /\ Len(c) = Len(a) + 2
    BY <1>5, <1>6, <1>7, <1>12, LenProperties
  <2>2. c[Len(a) + 1] = OW!SetPart /\ c[Len(a) + 2] = OW!Member
    <3>1. 1 \in 1 .. Len(members) /\ 2 \in 1 .. Len(members)
      BY <1>5, <1>12
    <3> QED BY <1>5, <1>7, <1>12, <3>1
  <2>3. Len(a) + 1 \in 1 .. Len(c) /\ Len(a) + 2 \in 1 .. Len(c)
    BY <2>1
  <2> QED BY <1>9, <2>2, <2>3
<1> QED BY <1>11, <1>12

\* What is accepted is the router of the middle, as far as it is looked at.
LEMMA Accepted ==
    ASSUME SampleInv, FactsInv, owPc = "accepted", ~undone
    PROVE  /\ Sees(binding, first, mid)
           /\ OW!Rows \in DOMAIN first => first[OW!Rows] = mid.rows
           /\ \A m : OW!RoutePart(m) \in DOMAIN first => first[OW!RoutePart(m)] = OW!Asked(mid, m)
<1>1. \A y \in DOMAIN first : y \in OW!Parts /\ first[y] \in OW!Answers(mid, y)
  BY DEF SampleInv, FactsInv, FirstCovers, OW!SnapshotWasTrue
<1>2. \A y \in DOMAIN first : y # OW!Member => first[y] = OW!View(mid)[y]
  BY <1>1 DEF OW!Answers
<1>3. \A m : OW!RoutePart(m) \in DOMAIN first => first[OW!RoutePart(m)] = OW!Asked(mid, m)
  <2> SUFFICES ASSUME NEW m, OW!RoutePart(m) \in DOMAIN first PROVE first[OW!RoutePart(m)] = OW!Asked(mid, m)
    OBVIOUS
  <2>1. PICK x \in OW!Marks : OW!RoutePart(m) = OW!RoutePart(x)
    BY <1>1 DEF OW!Parts, OW!RoutePart, OW!Status, OW!SetPart, OW!Member, OW!Rows, OW!ChainPart
  <2>2. m = x
    BY <2>1 DEF OW!RoutePart
  <2> QED BY <1>2, <2>2, PartFacts
<1>4. OW!Rows \in DOMAIN first => first[OW!Rows] = mid.rows
  <2>1. OW!Rows # OW!Member /\ OW!View(mid)[OW!Rows] = mid.rows
    BY PartFacts DEF OW!View, OW!Rows, OW!Member
  <2> QED BY <1>2, <2>1
<1>5. BoundTo /\ Covers(first)
  BY DEF SampleInv, FactsInv, FirstCovers
<1>6. ASSUME NEW c \in OW!Names(binding) PROVE first[OW!ChainPart(c)] = mid.chains[c]
  <2>1. c \in OwChains
    BY <1>5, BoundFacts DEF BoundTo
  <2>2. OW!ChainPart(c) # OW!Member /\ OW!View(mid)[OW!ChainPart(c)] = mid.chains[c]
    BY <2>1, PartFacts DEF OW!View, OW!ChainPart, OW!Member
  <2> QED BY <1>2, <1>5, <2>2, FixedCovers
<1>7. ASSUME OW!SetKnown(binding, first) PROVE mid.member
  <2>1. binding.set /\ first[OW!Member]
    BY <1>7 DEF OW!SetKnown
  <2>2. OW!Member \in DOMAIN first
    BY <1>5, <2>1, FixedCovers
  <2>3. OW!View(mid)[OW!Member] = mid.member
    BY PartFacts DEF OW!View, OW!Member
  <2>4. first[OW!Member] = mid.member \/ first[OW!Member] = FALSE
    BY <1>1, <2>2, <2>3 DEF OW!Answers
  <2> QED BY <2>1, <2>4, Zenon
<1> QED BY <1>3, <1>4, <1>5, <1>6, <1>7 DEF Sees, FactsInv, BoundTo

\* The exceptions that a property names are the only ones.
LEMMA ReadClearly ==
    ASSUME FactsInv, BoundTo, NEW role, NEW out \in Interfaces \cup {NoInterface},
           OW!NamesInterfaces(binding, mid),
           (out # NoInterface /\ out \notin OW!Exits(binding, mid, role)) \/ OW!Exits(binding, mid, role) = {}
    PROVE  Clear(binding, mid, role, out)
<1> SUFFICES ASSUME NEW c \in OW!Names(binding), OW!Bound(binding, c).role = role,
                    NEW i \in DOMAIN mid.chains[c].rules
             PROVE  LET r == mid.chains[c].rules[i]
                    IN /\ r.iifname # "wild"
                       /\ r.does \in {"jump", "return"} /\ r.notOut # NoInterface => out \notin {NoInterface, r.notOut}
  BY DEF Clear
<1> DEFINE r == mid.chains[c].rules[i]
<1>1. r \in OW!Range(mid.chains[c].rules)
  BY DEF OW!Range
<1> HIDE DEF r
<1>2. r.iifname # "wild"
  BY <1>1 DEF OW!NamesInterfaces
<1>3. r.does \in {"jump", "return"} /\ r.notOut # NoInterface => r.notOut \in OW!Exits(binding, mid, role)
  BY <1>1 DEF OW!Exits
<1> QED BY <1>2, <1>3 DEF r

\* While the reader rests it publishes nothing.
Resting == owPc = "rests" /\ owFacts = OW!NoFacts
EitherInv == Resting \/ (SampleInv /\ FactsInv)

LEMMA EitherInitially == InitEither => EitherInv
<1>1. CASE OpenWrtRests
  BY <1>1 DEF OpenWrtRests, EitherInv, Resting
<1>2. CASE OW!Init
  BY <1>2, Initially, FactsInitially DEF EitherInv
<1> QED BY <1>1, <1>2 DEF InitEither

\* One step of either adapter, with both invariants.
LEMMA EitherKeeps == EitherInv /\ [NextEither]_<<vars, openWrt>> => EitherInv'
<1> SUFFICES ASSUME EitherInv, [NextEither]_<<vars, openWrt>> PROVE EitherInv'
  OBVIOUS
<1>1. CASE OW!Next /\ owPc # "rests"
  BY <1>1, ReadPartKeeps, ReadRouteKeeps, NoRouteKeeps, EditKeeps, OthersKeep,
     FactsReadPart, FactsRoute, FactsOthers DEF OW!Next, EitherInv, Resting
<1>2. CASE UNCHANGED openWrt
  <2>1. UNCHANGED OW!vars
    BY <1>2 DEF openWrt, OW!vars
  <2>2. CASE Resting
    <3>1. owPc' = owPc /\ owFacts' = owFacts
      BY <1>2 DEF openWrt
    <3>2. (owFacts = OW!NoFacts)'
      BY <2>2, <3>1 DEF Resting, OW!NoFacts
    <3> QED BY <2>2, <3>1, <3>2 DEF EitherInv, Resting
  <2>3. CASE SampleInv /\ FactsInv
    BY <2>1, <2>3, OthersKeep, FactsOthers DEF EitherInv
  <2> QED BY <2>2, <2>3 DEF EitherInv
<1> QED BY <1>1, <1>2 DEF NextEither, Returned

\* Of whatever a gateway is bound to and whatever its router has loaded: when the published
\* facts say that forwarding is dropped a bound chain drops every packet of the question, when
\* they say that it is allowed no bound chain drops it but for where it leaves, and with a
\* guard every packet that leaves elsewhere than through the VPN is dropped; but for patterns
\* of interface names and for the interfaces that a jump or a return excepts.
THEOREM FiltersHold == SpecEither => []FiltersAreTrue
<1>1. EitherInv => FiltersAreTrue
  <2> SUFFICES ASSUME SampleInv, FactsInv, owPc = "accepted", ~undone, NEW out \in Interfaces
               PROVE  /\ OW!AsRead(out, "forwarding") => OW!ForwardingHolds(out)
                      /\ OW!AsRead(out, "guard") => OW!GuardHolds(out)
    BY DEF FiltersAreTrue, OW!FiltersAreTrue, EitherInv, Resting
  <2>1. Sees(binding, first, mid)
    BY Accepted
  <2>2. out # NoInterface /\ BoundTo
    BY NothingAssumption DEF SampleInv
  <2>3. \A role : OW!AsRead(out, role) => Clear(binding, mid, role, out)
    BY <2>2, ReadClearly DEF OW!AsRead
  <2>4. CASE owFacts = OW!NoFacts
    BY <2>4 DEF OW!NoFacts, OW!ForwardingHolds, OW!GuardHolds
  <2>5. CASE owFacts = OW!Normalize(binding, first)
    BY <2>1, <2>3, <2>5, FiltersFollow DEF OW!ForwardingHolds, OW!GuardHolds
  <2> QED BY <2>4, <2>5 DEF FactsInv, Published
<1> QED BY <1>1, EitherInitially, EitherKeeps, PTL DEF SpecEither

\* Of whatever a gateway is bound to and whatever its router has loaded: with a published
\* policy selection the bound chains of prerouting leave the published mark on every packet of
\* the question, and the kernel routes all of them out of the published device; but for
\* patterns, for exceptions by interface, and for chains of another role in prerouting.
THEOREM RouteHolds == SpecEither => []RouteIsTrue
<1>1. EitherInv => RouteIsTrue
  <2> SUFFICES ASSUME EitherInv, owFacts.route, ~undone,
                      OW!OnlyClassified, OW!NamesInterfaces(binding, mid),
                      OW!Exits(binding, mid, "classifier") = {}
               PROVE  /\ OW!LeavesMark(binding, mid, owFacts.mark)
                      /\ \A special \in SUBSET OW!Special(mid) :
                            OW!Lookup(mid, owFacts.mark, special).dev = owFacts.dev
    BY DEF RouteIsTrue, OW!RouteIsTrue
  <2>1. owFacts # OW!NoFacts
    BY DEF OW!NoFacts
  <2>2. SampleInv /\ FactsInv /\ owPc = "accepted" /\ owFacts = OW!Normalize(binding, first)
    BY <2>1 DEF FactsInv, Published, EitherInv, Resting
  <2>3. /\ Sees(binding, first, mid)
        /\ OW!Rows \in DOMAIN first => first[OW!Rows] = mid.rows
        /\ \A m : OW!RoutePart(m) \in DOMAIN first => first[OW!RoutePart(m)] = OW!Asked(mid, m)
    BY <2>2, Accepted
  <2>4. Clear(binding, mid, "classifier", NoInterface)
    BY <2>2, ReadClearly DEF SampleInv
  <2>5. \A x \in OW!Prerouting(binding) : x.role = "classifier"
    BY DEF OW!OnlyClassified
  <2> QED BY <2>2, <2>3, <2>4, <2>5, RouteFollows
<1> QED BY <1>1, EitherInitially, EitherKeeps, PTL DEF SpecEither

\* Whichever adapter is at work, the steps of NetVerify are its own or none: what is proved of
\* a verification above holds of the composition.
THEOREM EitherIsVerification == SpecEither => Spec
<1>1. InitEither => Init
  BY DEF InitEither, NativeRests
<1>2. [NextEither]_<<vars, openWrt>> => [Next]_vars
  BY DEF NextEither, Returned
<1> QED BY <1>1, <1>2, PTL DEF SpecEither, Spec
=============================================================================
