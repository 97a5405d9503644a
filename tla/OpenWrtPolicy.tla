--------------------------- MODULE OpenWrtPolicy ---------------------------
(***************************************************************************)
(* What the adapter for OpenWrt makes of a router's rules                  *)
(* (internal/netpolicy/openwrt.go), and what the rules do: a base chain    *)
(* ends at an accept or a drop, a drop is final, and the kernel looks the  *)
(* route up under the mark that the classifier left.                       *)
(*                                                                         *)
(* One question is asked: one source, one destination, one ingress.        *)
(* Selectors are what they are to that question: "this" is exactly its     *)
(* address or interface, "other" another one, "set" the bound set,         *)
(* "within" and "beyond" something wider that holds the address or not,    *)
(* "wild" a pattern that the interface's name matches.                     *)
(***************************************************************************)
EXTENDS Integers, Sequences, SequencesExt

CONSTANTS Chains,      \* names of chains, with family and table
          Interfaces, NoInterface,
          Bits, NoMark, \* a mark is a set of bits
          Tables, NoRoute

Marks == SUBSET Bits

\* A rule as it was loaded.  What owParseRule does not understand is not plain; to reject
\* is to drop; notOut is the interface of `oifname !='.
Rule == [saddr : {"any", "this", "other", "within", "beyond"},
         daddr : {"any", "this", "other", "set", "within", "beyond"},
         iifname : {"any", "this", "other", "wild"},
         notOut : Interfaces \cup {NoInterface},
         plain : BOOLEAN,
         does : {"mark", "jump", "return", "accept", "drop"},
         mark : Marks, to : Chains]

\* A chain as it is loaded, and whether it is the one that was bound (hook and priority).
Chain == [asBound : BOOLEAN, policy : {"accept", "drop"}, rules : Seq(Rule)]

\* A row of the routing policy; what is not plain has flags, an action or an unknown field.
Row == [priority : Nat, src : {"in", "out", "odd"}, dst : {"in", "out", "odd"},
        iif : {"any", "this", "other"}, mark : Marks, mask : Marks, table : Tables,
        plain : BOOLEAN]

\* A priority is a number of 32 bits.
Priorities == {p \in Int : -2147483647 - 1 <= p /\ p <= 2147483647}

\* A chain as it is bound, and what a gateway's binding may be (validOpenWrt): where the chains
\* are hooked, whether a set is bound, how many sections are, whether the source is a network
\* and a logical one, and the interface of the VPN.
BoundChain == [name : Chains, role : {"classifier", "forwarding", "guard"},
               hook : {"none", "prerouting", "forward", "output"},
               priority : Priorities]
Bindings == [chains : Seq(BoundChain), set : BOOLEAN, stored : 0 .. 8, source : BOOLEAN,
             sourceLogical : BOOLEAN, vpn : Interfaces \cup {NoInterface}]
Valid(b) ==
    /\ b \in Bindings /\ Len(b.chains) <= 8
    /\ \A i, j \in DOMAIN b.chains : b.chains[i].name = b.chains[j].name => i = j
    /\ \A x \in Range(b.chains) : /\ x.role = "classifier" => x.hook # "forward"
                                  /\ x.role = "forwarding" => x.hook \in {"none", "forward"}

\* What a router has of them, and its routing.
Routers == [status : {"bound", "other"}, chains : [Chains -> Chain], set : {"scalar", "odd"},
            member : BOOLEAN, rows : SUBSET Row, routes : [Tables -> Interfaces \cup {NoInterface}]]

\* What is read of a router, part by part.
Status == <<"status">>
ChainPart(c) == <<"chain", c>>
SetPart == <<"set">>
Member == <<"member">>
Rows == <<"rows">>
RoutePart(m) == <<"route", m>>

-----------------------------------------------------------------------------
(* The evaluation of the snapshot s under the binding b                    *)

Names(b) == {b.chains[i].name : i \in DOMAIN b.chains}
Bound(b, c) == CHOOSE x \in {b.chains[i] : i \in DOMAIN b.chains} : x.name = c

\* Membership is known only when the set is a scalar one and the element was found.
SetKnown(b, s) == b.set /\ s[SetPart] = "scalar" /\ s[Member]

Vague == {"within", "beyond"}

\* Fault: what does not match exactly does not match.
RuleMatches_Narrow(b, s, r) ==
    IF ~r.plain THEN "unknown"
    ELSE IF r.saddr \in Vague \cup {"other"} \/ r.iifname \in {"other", "wild"} \/ r.daddr = "other" THEN "no"
    ELSE IF r.daddr \in Vague \/ (r.daddr = "set" /\ ~SetKnown(b, s)) THEN "unknown"
    ELSE "yes"

RuleMatches(b, s, r) ==
    IF ~r.plain \/ r.saddr \in Vague THEN "unknown"
    ELSE IF "other" \in {r.saddr, r.daddr} \/ r.iifname \in {"other", "wild"} THEN "no"
    ELSE IF r.daddr \in Vague \/ (r.daddr = "set" /\ ~SetKnown(b, s)) THEN "unknown"
    ELSE "yes"

Scoped(r) == "any" \notin {r.saddr, r.daddr, r.iifname}

\* What a rule does, or a chain: "on" decides nothing.
Effect(verdict) == [verdict |-> verdict, mark |-> NoMark, guard |-> FALSE, reached |-> {}]

\* What they do in turn, in the order of their numbers, until one of them decides; a later
\* mark takes the place of an earlier one.
InTurn(effects) ==
    LET done == {i \in DOMAIN effects : \A j \in DOMAIN effects : j < i => effects[j].verdict = "on"}
        deciding == {i \in done : effects[i].verdict # "on"}
        marking == {i \in done : effects[i].mark # NoMark}
    IN [verdict |-> IF deciding = {} THEN "on" ELSE effects[CHOOSE i \in deciding : TRUE].verdict,
        mark |-> IF marking = {} THEN NoMark ELSE effects[Max(marking)].mark,
        guard |-> \E i \in done : effects[i].guard,
        reached |-> UNION {effects[i].reached : i \in done}]

\* A rule of the chain `me' that matches and is no jump.
Act(b, me, r) ==
    CASE r.does = "mark" ->
           IF me.role = "classifier" /\ Scoped(r) /\ r.notOut = NoInterface /\ b.sourceLogical
           THEN [Effect("on") EXCEPT !.mark = r.mark] ELSE Effect("unknown")
      [] r.does = "return" -> Effect(IF me.hook = "none" THEN "return" ELSE "unknown")
      [] r.does = "accept" -> Effect(IF r.notOut = NoInterface THEN "accept" ELSE "unknown")
      [] r.does = "drop" ->
           [Effect(IF r.notOut = NoInterface THEN "drop" ELSE "on") EXCEPT
              !.guard = me.role = "guard" /\ Scoped(r) /\ r.notOut \in {NoInterface, b.vpn}]

\* What a chain that was called is to the rule that called it.
FromCall(w) == IF w.verdict = "return" THEN [w EXCEPT !.verdict = "on"] ELSE w

\* Whether `me' may call the chain.
Callable(b, me, to) == to \in Names(b) /\ Bound(b, to).hook = "none" /\ Bound(b, to).role = me.role

RuleDoes(b, s, me, r, call) ==
    IF RuleMatches(b, s, r) = "no" THEN Effect("on")
    ELSE IF RuleMatches(b, s, r) = "unknown" \/ (r.does = "jump" /\ ~Callable(b, me, r.to)) THEN Effect("unknown")
    ELSE IF r.does = "jump" THEN FromCall(call[r.to]) ELSE Act(b, me, r)

\* What each chain does when those of the stack have called it, if `deeper' is what chains do
\* one call further down.
Level(b, s, deeper) ==
    [c \in Names(b) |-> [stack \in SUBSET Names(b) |->
       LET me == Bound(b, c)
           chain == s[ChainPart(c)]
           call == [to \in Names(b) |-> deeper[to][stack \cup {c}]]
           w == InTurn([i \in DOMAIN chain.rules |-> RuleDoes(b, s, me, chain.rules[i], call)])
           end == IF me.hook # "none" /\ chain.policy = "drop" THEN "drop" ELSE "return"
       IN IF c \in stack \/ ~chain.asBound THEN Effect("unknown")
          ELSE [w EXCEPT !.verdict = IF @ = "on" THEN end ELSE @, !.reached = @ \cup {c}]]]

Depth == 4

\* The walk through a chain that is hooked.
Walk(b, s, root) ==
    LET walk[d \in 0 .. Depth] ==
          IF d = 0 THEN [c \in Names(b) |-> [stack \in SUBSET Names(b) |-> Effect("unknown")]]
                   ELSE Level(b, s, walk[d - 1])
    IN walk[Depth][root][{}]

\* What hooked chains do in the order of their priorities: to accept ends one chain only.
InOrder(does) ==
    LET at(p) == does[CHOOSE x \in DOMAIN does : x.priority = p]
    IN InTurn([p \in {x.priority : x \in DOMAIN does} |->
                 [at(p) EXCEPT !.verdict = IF @ \in {"accept", "return"} THEN "on" ELSE @]])

Prerouting(b) == {x \in Range(b.chains) : x.hook = "prerouting"}

\* The classifier: chains of prerouting in their order, until one drops or is not understood.
Classified(b, s) ==
    InOrder([x \in {y \in Prerouting(b) : y.role = "classifier"} |-> Walk(b, s, x.name)])

\* Fault: a row that is not understood is passed over.
RoutePolicy_PassesOver(s, route, mark) ==
    LET Known(r) == r.src # "odd" /\ r.dst # "odd"
        Open == {r \in s[Rows] : Known(r) /\ r.plain /\ r.src = "in" /\ r.dst = "in" /\ r.iif # "other"}
    IN /\ route # NoRoute /\ Rows \in DOMAIN s
       /\ \A r, q \in Open : q.priority = r.priority => q = r
       /\ \E r \in Open : mark \cap r.mask = r.mark \cap r.mask /\ r.table = route.table

\* owRoutePolicy: every row that could apply is understood and one that does selected the table.
RoutePolicy(s, route, mark) ==
    LET Known(r) == r.src # "odd" /\ r.dst # "odd"
        Apart(r) == Known(r) /\ (r.src = "out" \/ r.dst = "out" \/ r.iif = "other")
        Open == {r \in s[Rows] : ~Apart(r)}
    IN /\ route # NoRoute /\ Rows \in DOMAIN s
       /\ \A r \in Open : Known(r) /\ r.plain /\ \A q \in Open : q.priority = r.priority => q = r
       /\ \E r \in Open : mark \cap r.mask = r.mark \cap r.mask /\ r.table = route.table

NoFacts == [logical |-> FALSE, scope |-> FALSE, mark |-> NoMark, route |-> FALSE,
            dev |-> NoInterface, forwarding |-> "none", guard |-> FALSE]

Hooked(b) == {x \in Range(b.chains) : x.hook # "none"}

\* The chains are there as they were bound, no two with one hook and priority, and the
\* classifier's walk was understood.
Understood(b, s, cls) ==
    /\ b.chains # <<>>
    /\ \A x \in Range(b.chains) : s[ChainPart(x.name)].asBound
    /\ \A x, y \in Hooked(b) : x.hook = y.hook /\ x.priority = y.priority => x = y
    /\ \A x \in Hooked(b) : x.role = "classifier" => x.hook = "prerouting"
    /\ cls.verdict # "unknown"

MarkOf(b, s, cls) == IF Understood(b, s, cls) /\ cls.verdict # "drop" THEN cls.mark ELSE NoMark

RouteRead(s, mark) ==
    IF mark # NoMark /\ RoutePart(mark) \in DOMAIN s THEN s[RoutePart(mark)] ELSE NoRoute

\* The walks through the other hooked chains.
Walks(b, s) == {[of |-> x, w |-> Walk(b, s, x.name)] :
                   x \in {y \in Hooked(b) : y.role # "classifier" /\ y.hook = "forward"}}

Supported(b, s, cls, mark, selected, walks) ==
    /\ Understood(b, s, cls)
    /\ mark # NoMark => selected
    /\ \A x \in Hooked(b) : x.role # "classifier" => x.hook = "forward"
    /\ \A v \in walks : v.w.verdict # "unknown"
    /\ Names(b) = cls.reached \cup UNION {v.w.reached : v \in walks}

Facts(mark, route, selected, supported, walks) ==
    LET forwards == {v.w.verdict : v \in {u \in walks : u.of.role = "forwarding"}}
    IN [logical |-> TRUE, scope |-> supported, mark |-> mark, route |-> selected,
        dev |-> IF selected THEN route.dev ELSE NoInterface,
        forwarding |-> IF ~supported \/ forwards = {} THEN "none"
                       ELSE IF "drop" \in forwards THEN "dropped" ELSE "allowed",
        guard |-> \E v \in walks : v.w.guard]

\* normalizeOpenWrt, of a snapshot of the right scope and time: the classifier, its mark, the
\* route under the mark, whether the policy selects it, and the other chains.
FactsOf(b, s, cls, mark, route, selected, walks) ==
    Facts(mark, route, selected, Supported(b, s, cls, mark, selected, walks), walks)
FactsUnder(b, s, cls, mark, route) ==
    FactsOf(b, s, cls, mark, route, mark # NoMark /\ RoutePolicy(s, route, mark), Walks(b, s))
FactsAfter(b, s, cls, mark) == FactsUnder(b, s, cls, mark, RouteRead(s, mark))
Normalized(b, s, cls) == FactsAfter(b, s, cls, MarkOf(b, s, cls))
Normalize(b, s) == IF s[Status] # "bound" THEN NoFacts ELSE Normalized(b, s, Classified(b, s))

-----------------------------------------------------------------------------
(* The router                                                              *)

\* Rows that select by what the question does not say; they apply to some packets of it.
Special(router) == {r \in router.rows : ~r.plain \/ "odd" \in {r.src, r.dst}}

\* The kernel's choice under a mark, for packets to which those of `special' apply: the first
\* row that matches and whose table has a route.
Lookup(router, mark, special) ==
    LET hits == {r \in router.rows : /\ "out" \notin {r.src, r.dst} /\ r.iif # "other"
                                     /\ r \in Special(router) => r \in special
                                     /\ mark \cap r.mask = r.mark \cap r.mask
                                     /\ router.routes[r.table] # NoInterface}
        r == CHOOSE x \in hits : \A y \in hits : x.priority <= y.priority
    IN IF hits = {} THEN NoRoute ELSE [table |-> r.table, dev |-> router.routes[r.table]]

\* The reader asks for a packet without anything special.
Asked(router, mark) == Lookup(router, mark, {})

Parts == {Status, SetPart, Member, Rows} \cup {ChainPart(c) : c \in Chains} \cup {RoutePart(m) : m \in Marks}

\* The parts as a reader finds them.
View(router) ==
    [p \in Parts |-> CASE p[1] = "status" -> router.status
                       [] p[1] = "chain" -> router.chains[p[2]]
                       [] p[1] = "set" -> router.set
                       [] p[1] = "member" -> router.member
                       [] p[1] = "rows" -> router.rows
                       [] p[1] = "route" -> Asked(router, p[2])]

\* Whether the kernel applies a rule to the packets of the question that leave through `out',
\* NoInterface while that is not decided.
Applies(router, r, out) ==
    /\ r.saddr \in {"any", "this", "within"} /\ r.iifname # "other"
    /\ r.daddr \in {"any", "this", "within"} \/ (r.daddr = "set" /\ router.member)
    /\ r.notOut # NoInterface => out \notin {NoInterface, r.notOut}

\* nf_tables refuses rules whose jumps nest deeper, or in a circle.
JumpStack == 16

\* What each chain does with them, one call over `deeper'; "dropOut" is a drop that depends on
\* where they leave.
KernelDoes(router, r, out, deeper) ==
    IF ~Applies(router, r, out) THEN Effect("on")
    ELSE CASE r.does = "mark" -> [Effect("on") EXCEPT !.mark = r.mark]
           [] r.does = "jump" -> FromCall(deeper[r.to])
           [] r.does = "drop" -> Effect(IF r.notOut = NoInterface THEN "drop" ELSE "dropOut")
           [] OTHER -> Effect(r.does)

KernelLevel(router, out, deeper) ==
    [c \in Chains |->
       LET rules == router.chains[c].rules
           w == InTurn([i \in DOMAIN rules |-> KernelDoes(router, rules[i], out, deeper)])
       IN [w EXCEPT !.verdict = IF @ = "on" THEN "return" ELSE @]]

\* What a base chain does with them.
Kernel(router, root, out) ==
    LET within[d \in 0 .. JumpStack] ==
          IF d = 0 THEN [c \in Chains |-> Effect("return")] ELSE KernelLevel(router, out, within[d - 1])
    IN [within[JumpStack][root] EXCEPT !.verdict = IF @ = "return" THEN router.chains[root].policy ELSE @]

Drops(router, root, out) == Kernel(router, root, out).verdict \in {"drop", "dropOut"}

\* The chains bound in prerouting drop nothing and leave the mark.
LeavesMark(b, router, mark) ==
    LET w == InOrder([x \in Prerouting(b) |-> Kernel(router, x.name, NoInterface)])
    IN w.verdict = "on" /\ w.mark = mark

ForwardRoots(b, role) == {c \in Names(b) : Bound(b, c).hook = "forward" /\ Bound(b, c).role = role}

\* Interfaces that a jump or a return in the bound chains of a role names: whether it is
\* taken depends on where a packet leaves.
Exits(b, router, role) ==
    {r.notOut : r \in {x \in UNION {Range(router.chains[c].rules) :
                                    c \in {n \in Names(b) : Bound(b, n).role = role}} :
                       x.does \in {"jump", "return"}}} \ {NoInterface}

\* No rule of the bound chains names interfaces by a pattern.
NamesInterfaces(b, router) ==
    \A c \in Names(b) : \A r \in Range(router.chains[c].rules) : r.iifname # "wild"
=============================================================================
