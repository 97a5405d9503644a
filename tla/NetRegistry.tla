---------------------------- MODULE NetRegistry ----------------------------
(***************************************************************************)
(* The registry of network objects and policies (internal/netpolicy), and  *)
(* the question a verification asks of it. The registry is one file that   *)
(* is replaced whole under a lock that does not wait, so a command that    *)
(* changes it is one step. A question is not: every lookup loads the file  *)
(* again, and the file may change between two lookups. Before each native  *)
(* operation the question is asked again and the two answers compared      *)
(* (the permit of cli.go).                                                 *)
(*                                                                         *)
(* An object's identity is drawn once with its kind (KindOf); the part of  *)
(* a binding that is not a reference is a body; a policy is identified by  *)
(* its alias, because putRule keeps the ID of an alias for ever.           *)
(***************************************************************************)
EXTENDS Naturals, FiniteSets

CONSTANTS Ids, KindOf, Aliases, Bodies, Drafts,
          PolicyNames, Scopes, Decisions, RuleDrafts,
          Operations, Handles, MaxRevision,
          NoObject, NoRule, NoRef, NoAnswer

Kinds == {"gateway", "network", "vpn", "service"}
Roles == {"gateway", "vpn", "source", "control"}
RoleKind == [gateway |-> "gateway", vpn |-> "vpn", source |-> "network",
             control |-> "service"]

\* A stored reference has the revision it was bound to; revision 0 in a
\* declaration asks for whichever is present.
Refs == [id : Ids, rev : Nat \ {0}]
AnyRevision(i) == [id |-> i, rev |-> 0]
Bindings(References) == [body : Bodies, refs : [Roles -> References \cup {NoRef}]]
Objects == [rev : Nat \ {0}, alias : Aliases, binding : Bindings(Refs)]
Tuples == [source : Refs, endpoint : Refs, scope : Scopes]
Rules == [rev : Nat \ {0}, decision : Decisions, tuples : SUBSET Tuples,
          path : Refs \cup {NoRef}]

Declarations == [alias : Aliases, binding : Bindings({AnyRevision(i) : i \in Ids})]
RuleDeclarations == [decision : Decisions, path : Ids \cup {NoRef},
                     tuples : SUBSET [source : Ids, endpoint : Ids, scope : Scopes]]

\* Drafts: what manifests and commands may declare for an object or a rule.
\* They name what they refer to. Handles: the names a question may use, an
\* alias or an ID. MaxRevision bounds every revision counter.
ASSUME RegistryAssumption ==
    /\ KindOf \in [Ids -> Kinds]
    /\ Drafts \in [Ids -> SUBSET Declarations]
    /\ \A i \in Ids : \A d \in Drafts[i] : \A r \in Roles :
          d.binding.refs[r] # NoRef => KindOf[d.binding.refs[r].id] = RoleKind[r]
    /\ RuleDrafts \in [PolicyNames -> SUBSET RuleDeclarations]
    /\ \A p \in PolicyNames : \A d \in RuleDrafts[p] :
          /\ \A t \in d.tuples : KindOf[t.source] = "network" /\ KindOf[t.endpoint] = "service"
          /\ d.path # NoRef => KindOf[d.path] = "vpn"
    /\ Handles \subseteq Ids \cup Aliases
    /\ NoRef \notin Ids /\ NoRef \notin Refs /\ \A i \in Ids : NoRef # AnyRevision(i)
    /\ NoObject \notin Objects /\ NoRule \notin Rules
    /\ MaxRevision \in [Ids \cup PolicyNames -> Nat]
    /\ Decisions \subseteq {"allow", "deny"}
    /\ Operations \subseteq {"access", "isolation"}

VARIABLES objects,   \* Ids -> object, or NoObject
          policies,  \* PolicyNames -> rule, or NoRule
          pc,        \* where the verification is
          reading,   \* what the question in progress has read so far
          asked,     \* the answer the verification works with, or NoAnswer
          receipt,   \* an assessment that was saved: what it was about
          before     \* history: the registry when the present permit began

file == <<objects, policies>>
question == <<pc, reading, asked, receipt, before>>
vars == <<file, question>>

-----------------------------------------------------------------------------
(* References and bindings *)

Present(objs) == {i \in Ids : objs[i] # NoObject}
RefTo(objs, i) == [id |-> i, rev |-> objs[i].rev]

\* A reference is bound to the present revision of its object; one that names
\* another revision is stale.
Resolves(objs, ref) == /\ ref.id \in Present(objs)
                       /\ ref.rev \in {0, objs[ref.id].rev}
CanBindAny(objs, b) == \A r \in Roles : b.refs[r] # NoRef => b.refs[r].id \in Present(objs)
CanBind(objs, b) == \A r \in Roles : b.refs[r] # NoRef => Resolves(objs, b.refs[r])
Bound(objs, b) ==
    [b EXCEPT !.refs = [r \in Roles |-> IF b.refs[r] = NoRef THEN NoRef
                                        ELSE RefTo(objs, b.refs[r].id)]]

\* validateObjects: aliases are unique for a kind, and endpoints for services.
ValidObjects(objs) ==
    \A i, j \in Present(objs) : i # j /\ KindOf[i] = KindOf[j] =>
        /\ objs[i].alias # objs[j].alias
        /\ KindOf[i] = "service" => objs[i].binding.body # objs[j].binding.body

-----------------------------------------------------------------------------
(* Policies *)

\* canonicalTuple of a declaration by names.
Canonical(objs, t) == [source |-> RefTo(objs, t.source), endpoint |-> RefTo(objs, t.endpoint),
                       scope |-> t.scope]
TupleCurrent(objs, t) == Resolves(objs, t.source) /\ Resolves(objs, t.endpoint)
RuleCurrent(objs, rule) == /\ \A t \in rule.tuples : TupleCurrent(objs, t)
                           /\ rule.path # NoRef => Resolves(objs, rule.path)

\* overlap: no tuple is declared twice.
Disjoint(rules) ==
    \A m, n \in {p \in PolicyNames : rules[p] # NoRule} :
        m # n => rules[m].tuples \cap rules[n].tuples = {}

\* normalizeRule accepts a declaration whose names all exist; putRule replaces
\* a rule whose alias exists with a new revision.
CanPut(objs, rules, name, d) == /\ \A t \in d.tuples : {t.source, t.endpoint} \subseteq Present(objs)
                                /\ d.path # NoRef => d.path \in Present(objs)
                                /\ rules[name] # NoRule => rules[name].rev < MaxRevision[name]
PutRule(objs, rules, name, d) ==
    [rules EXCEPT ![name] =
        [rev |-> IF rules[name] = NoRule THEN 1 ELSE rules[name].rev + 1,
         decision |-> d.decision,
         tuples |-> {Canonical(objs, t) : t \in d.tuples},
         path |-> IF d.path = NoRef THEN NoRef ELSE RefTo(objs, d.path)]]

-----------------------------------------------------------------------------
(* Commands that change the registry *)

Create(i, d) ==
    /\ i \notin Present(objects)
    /\ CanBind(objects, d.binding)
    /\ objects' = [objects EXCEPT ![i] = [rev |-> 1, alias |-> d.alias,
                                          binding |-> Bound(objects, d.binding)]]
    /\ ValidObjects(objects')
    /\ UNCHANGED <<policies, question>>

\* change: the object's references are bound again, whatever the change was.
Rename(i, alias) ==
    /\ i \in Present(objects)
    /\ CanBind(objects, objects[i].binding)
    /\ objects' = [objects EXCEPT ![i].alias = alias,
                                  ![i].binding = Bound(objects, objects[i].binding)]
    /\ ValidObjects(objects')
    /\ UNCHANGED <<policies, question>>

Rebind(i, b) ==
    /\ i \in Present(objects)
    /\ objects[i].rev < MaxRevision[i]
    /\ LET moved == [objects EXCEPT ![i].binding = b, ![i].rev = @ + 1]
       IN /\ CanBind(moved, b)
          /\ objects' = [moved EXCEPT ![i].binding = Bound(moved, b)]
    /\ ValidObjects(objects')
    /\ UNCHANGED <<policies, question>>

PutPolicy(name, d) ==
    /\ CanPut(objects, policies, name, d)
    /\ policies' = PutRule(objects, policies, name, d)
    /\ Disjoint(policies')
    /\ UNCHANGED <<objects, question>>

\* Import: new objects, which may refer to each other, and perhaps a rule.
Grown(new) ==
    LET named == [i \in Ids |-> IF i \in DOMAIN new
                                THEN [rev |-> 1, alias |-> new[i].alias, binding |-> new[i].binding]
                                ELSE objects[i]]
    IN [i \in Ids |-> IF i \in DOMAIN new THEN [named[i] EXCEPT !.binding = Bound(named, @)]
                      ELSE objects[i]]
Import(new) ==
    /\ \A i \in DOMAIN new, r \in Roles : new[i].binding.refs[r] # NoRef =>
          new[i].binding.refs[r].id \in DOMAIN new \cup Present(objects)
    /\ objects' = Grown(new)
    /\ ValidObjects(objects')
    /\ \/ UNCHANGED policies
       \/ \E p \in PolicyNames : \E d \in RuleDrafts[p] :
             /\ CanPut(objects', policies, p, d)
             /\ policies' = PutRule(objects', policies, p, d)
             /\ Disjoint(policies')
    /\ UNCHANGED question

-----------------------------------------------------------------------------
(* The question of a verification: one load of the file in every step *)

Node(i) == [ref |-> RefTo(objects, i), binding |-> objects[i].binding]
Refers(n, r) == n.binding.refs[r] # NoRef

\* ResolveRef: the object, if it still has the revision that was asked for.
Holds(ref) == ref.id \in Present(objects) /\ RefTo(objects, ref.id) = ref
With(nodes, ref) == IF \E n \in nodes : n.ref.id = ref.id THEN nodes ELSE nodes \cup {Node(ref.id)}
Select(ref) == reading' = [reading EXCEPT !.nodes = With(@, ref)]
Goto(next) == pc' = next /\ UNCHANGED <<file, asked, before, receipt>>

\* Any lookup may find a stale or missing object, and any permit may be
\* refused. Until the first permit that is the end; once the collection has
\* begun, an assessment without a verdict is still saved.
GiveUp == /\ pc \notin {"idle", "refused"}
          /\ IF reading # NoAnswer /\ reading.collecting
             THEN /\ pc' = "refused"
                  /\ UNCHANGED asked
             ELSE /\ pc' = "idle"
                  /\ asked' = NoAnswer
          /\ reading' = NoAnswer /\ before' = NoAnswer
          /\ UNCHANGED <<file, receipt>>

\* What is asked: an operation on a target from a source, perhaps with an
\* earlier assessment as its baseline.
StartReading(goal) ==
    reading' = [goal |-> goal, collecting |-> pc = "permitted", nodes |-> {},
                target |-> NoRef, source |-> NoRef, rules |-> {},
                table |-> NoAnswer, walked |-> {}]

Ask(goal) ==
    /\ pc = "idle"
    /\ StartReading(goal)
    /\ pc' = "target"
    /\ UNCHANGED <<file, asked, before, receipt>>

\* find: by alias or ID, each time anew.
Named(kind, handle) == {i \in Present(objects) : KindOf[i] = kind
                                                /\ handle \in {i, objects[i].alias}}

ReadTarget ==
    /\ pc = "target"
    /\ \E i \in Named("service", reading.goal.target) :
          reading' = [reading EXCEPT !.target = RefTo(objects, i), !.nodes = {Node(i)}]
    /\ Goto("source")

ReadSource ==
    /\ pc = "source"
    /\ \E i \in Named("network", reading.goal.source) :
          reading' = [reading EXCEPT !.source = RefTo(objects, i), !.nodes = @ \cup {Node(i)}]
    /\ Goto("members")

TargetNode == CHOOSE n \in reading.nodes : n.ref = reading.target
SourceNode == CHOOSE n \in reading.nodes : n.ref = reading.source

\* Two networks with one context and address make the source ambiguous.
ReadMembers ==
    /\ pc = "members"
    /\ \A i \in Present(objects) \ {reading.source.id} :
          KindOf[i] = "network" => objects[i].binding.body # SourceNode.binding.body
    /\ UNCHANGED reading
    /\ Goto("gateway")

\* The gateway is the target's, or else the source's.
GatewayRef == IF Refers(TargetNode, "gateway") THEN TargetNode.binding.refs["gateway"]
              ELSE SourceNode.binding.refs["gateway"]

Resolve(ref, here, next) ==
    /\ pc = here
    /\ IF ref = NoRef THEN UNCHANGED reading ELSE Holds(ref) /\ Select(ref)
    /\ Goto(next)

ReadGateway == Resolve(GatewayRef, "gateway", "vpn")
ReadVPN == Resolve(TargetNode.binding.refs["vpn"], "vpn", "control")
ReadControl == Resolve(TargetNode.binding.refs["control"], "control", "tuples")

\* ResolveTuples: every tuple must be current and in exactly one rule, that
\* rule must be current as a whole, and no rule may hold a stale form of it.
Asked(scope) == [source |-> SourceNode.ref, endpoint |-> TargetNode.ref, scope |-> scope]
Matching(rules, t) == {p \in PolicyNames : rules[p] # NoRule /\ t \in rules[p].tuples}
StaleForm(d, t) == /\ d # t /\ d.scope = t.scope
                   /\ d.source.id = t.source.id /\ d.endpoint.id = t.endpoint.id
ResolveTuples ==
    /\ pc = "tuples"
    /\ \A sc \in Scopes :
          /\ TupleCurrent(objects, Asked(sc))
          /\ \A p \in PolicyNames : policies[p] # NoRule =>
                \A d \in policies[p].tuples : ~StaleForm(d, Asked(sc))
          /\ Cardinality(Matching(policies, Asked(sc))) = 1
          /\ reading.goal.op = "isolation" =>
                \A p \in Matching(policies, Asked(sc)) : policies[p].decision = "deny"
          /\ \A p \in Matching(policies, Asked(sc)) : RuleCurrent(objects, policies[p])
    /\ reading' = [reading EXCEPT !.rules =
          {[name |-> p, rule |-> policies[p]] :
              p \in UNION {Matching(policies, Asked(sc)) : sc \in Scopes}}]
    /\ Goto("path")

\* The path of a rule is the VPN of the question, and there is one at most.
Paths == {x.rule.path : x \in reading.rules} \ {NoRef}
ReadPath ==
    /\ pc = "path"
    /\ \A ref \in Paths : /\ Holds(ref)
                           /\ \A n \in reading.nodes : KindOf[n.ref.id] = "vpn" => n.ref = ref
    /\ Cardinality(Paths) <= 1
    /\ reading' = [reading EXCEPT !.nodes = @ \cup {Node(ref.id) : ref \in Paths}]
    /\ Goto("table")

\* The load whose policies the digest is computed from.
ReadTable ==
    /\ pc = "table"
    /\ reading' = [reading EXCEPT !.table = policies]
    /\ Goto("walk")

\* walk: every reference of a selected object is resolved and its object
\* selected, and then every object that the baseline was about.
Own == {n.binding.refs[r] : n \in reading.nodes, r \in Roles} \ (reading.walked \cup {NoRef})
Unwalked == IF Own # {} \/ reading.goal.baseline = NoAnswer THEN Own
            ELSE reading.goal.baseline.refs \ reading.walked
Walk ==
    /\ pc = "walk" /\ Unwalked # {}
    /\ LET ref == CHOOSE ref \in Unwalked : TRUE
       IN /\ Holds(ref)
          /\ reading' = [reading EXCEPT !.nodes = With(@, ref), !.walked = @ \cup {ref}]
    /\ Goto("walk")

\* The matched rules and the baseline's must be in the table as they were.
RuleRefs == {[name |-> x.name, rev |-> x.rule.rev] : x \in reading.rules}
            \cup (IF reading.goal.baseline = NoAnswer THEN {} ELSE reading.goal.baseline.rules)
Answer == [goal |-> reading.goal, target |-> reading.target, source |-> reading.source,
           nodes |-> reading.nodes, matched |-> reading.rules,
           rules |-> {[name |-> x.name, rule |-> reading.table[x.name]] : x \in RuleRefs}]
Answered ==
    /\ pc = "walk" /\ Unwalked = {}
    /\ \A x \in RuleRefs : reading.table[x.name].rev = x.rev
    /\ reading' = NoAnswer

FirstAnswer == /\ asked = NoAnswer /\ Answered
               /\ asked' = Answer /\ pc' = "ready"
               /\ UNCHANGED <<file, before, receipt>>

\* permit: the question is asked again, and its answer compared.
BeginPermit == /\ pc \in {"ready", "permitted"}
               /\ StartReading(asked.goal)
               /\ before' = [objects |-> objects, policies |-> policies]
               /\ pc' = "target"
               /\ UNCHANGED <<file, asked, receipt>>
PermitSameObjects == /\ asked # NoAnswer /\ Answered
                     /\ Answer.nodes = asked.nodes
                     /\ pc' = "permitted"
                     /\ UNCHANGED <<file, asked, before, receipt>>
Permit == /\ asked # NoAnswer /\ Answered
          /\ Answer = asked
          /\ pc' = "permitted"
          /\ UNCHANGED <<file, asked, before, receipt>>

\* The verification ends with an assessment of the question it asked.
Save == /\ pc \in {"permitted", "refused"}
        /\ receipt' = [refs |-> {n.ref : n \in asked.nodes},
                       rules |-> {[name |-> x.name, rev |-> x.rule.rev] : x \in asked.rules}]
        /\ pc' = "idle" /\ asked' = NoAnswer /\ before' = NoAnswer
        /\ UNCHANGED <<file, reading>>

-----------------------------------------------------------------------------
Init == /\ objects = [i \in Ids |-> NoObject]
        /\ policies = [p \in PolicyNames |-> NoRule]
        /\ pc = "idle" /\ reading = NoAnswer /\ asked = NoAnswer
        /\ receipt = NoAnswer /\ before = NoAnswer

\* Some objects that are not there yet, each with a declaration.
Manifests == UNION {{new \in [N -> UNION {Drafts[i] : i \in N}] : \A i \in N : new[i] \in Drafts[i]}
                      : N \in SUBSET (Ids \ Present(objects))}
Goals == [op : Operations, target : Handles, source : Handles, baseline : {NoAnswer, receipt}]

Mutate ==
    \/ \E i \in Ids : \E d \in Drafts[i] :
          Create(i, d) \/ Rename(i, d.alias) \/ Rebind(i, d.binding)
    \/ \E p \in PolicyNames : \E d \in RuleDrafts[p] : PutPolicy(p, d)
    \/ \E new \in Manifests : Import(new)

Verify ==
    \/ \E goal \in Goals : Ask(goal)
    \/ ReadTarget \/ ReadSource \/ ReadMembers
    \/ ReadGateway \/ ReadVPN \/ ReadControl
    \/ ResolveTuples \/ ReadPath \/ ReadTable \/ Walk
    \/ FirstAnswer \/ BeginPermit \/ Permit \/ Save \/ GiveUp

Next == Mutate \/ Verify
Spec == Init /\ [][Next]_vars

-----------------------------------------------------------------------------
(* Properties *)

\* The registry promises immutable IDs and binding revisions. What a
\* reference (an ID and a revision) stands for never changes, and revisions
\* never go back: a fact about a reference cannot come to mean another object.
ReferencesAreImmutable ==
    [][/\ \A i \in Present(objects) :
            /\ objects'[i] # NoObject
            /\ objects'[i].rev >= objects[i].rev
            /\ objects'[i].rev = objects[i].rev => objects'[i].binding = objects[i].binding
       /\ \A p \in PolicyNames : policies[p] # NoRule =>
            /\ policies'[p] # NoRule
            /\ policies'[p].rev >= policies[p].rev
            /\ policies'[p].rev = policies[p].rev => policies'[p] = policies[p]]_file

\* A permitted answer was put together from many loads of the file, yet it is
\* what the registry said as a whole at the moment the permit began: every
\* object and rule in it was current then, what they refer to is in it, and no
\* other rule decided any tuple. The names of the question may have moved to
\* other objects meanwhile.
PermittedAnswerWasCurrent ==
    pc = "permitted" =>
        /\ \A n \in asked.nodes :
              /\ before.objects[n.ref.id] # NoObject
              /\ RefTo(before.objects, n.ref.id) = n.ref
              /\ before.objects[n.ref.id].binding = n.binding
              /\ \A r \in Roles : n.binding.refs[r] # NoRef =>
                    \E m \in asked.nodes : m.ref = n.binding.refs[r]
        /\ \A x \in asked.rules : before.policies[x.name] = x.rule
        /\ \A x \in asked.matched : RuleCurrent(before.objects, x.rule)
        /\ \A sc \in Scopes : \E x \in asked.matched :
              Matching(before.policies, [source |-> asked.source, endpoint |-> asked.target,
                                         scope |-> sc]) = {x.name}

\* The types, and what every save validates: one alias for one object of a
\* kind, one service for an endpoint, one rule for a tuple.
TypeOK ==
    /\ objects \in [Ids -> Objects \cup {NoObject}]
    /\ policies \in [PolicyNames -> Rules \cup {NoRule}]
    /\ ValidObjects(objects) /\ Disjoint(policies)
=============================================================================
