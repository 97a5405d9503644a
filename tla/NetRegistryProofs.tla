--------------------------- MODULE NetRegistryProofs ---------------------------
(***************************************************************************)
(* Theorems about NetRegistry for any objects, policies and declarations:  *)
(* the registry stays well formed, what a reference stands for never       *)
(* changes, and a permitted answer is what the registry said as a whole    *)
(* when the permit began. The last rests on an interval: what the first    *)
(* reading saw is behind the registry of that moment, what the second saw  *)
(* is ahead of it, and revisions only grow, so what both saw was current.  *)
(***************************************************************************)
EXTENDS NetRegistry, FiniteSetTheorems, TLAPS

ObjectsOK == objects \in [Ids -> Objects \cup {NoObject}]
PoliciesOK == policies \in [PolicyNames -> Rules \cup {NoRule}]

\* What ReferencesAreImmutable says of one step, for objects and for policies.
ObjectsKept ==
    \A i \in Present(objects) :
        /\ objects'[i] # NoObject
        /\ objects'[i].rev >= objects[i].rev
        /\ objects'[i].rev = objects[i].rev => objects'[i].binding = objects[i].binding
PoliciesKept ==
    \A p \in PolicyNames : policies[p] # NoRule =>
        /\ policies'[p] # NoRule
        /\ policies'[p].rev >= policies[p].rev
        /\ policies'[p].rev = policies[p].rev => policies'[p] = policies[p]

LEMMA PresentIsObject ==
    ASSUME NEW objs \in [Ids -> Objects \cup {NoObject}], NEW i \in Present(objs)
    PROVE  i \in Ids /\ objs[i] \in Objects /\ RefTo(objs, i) \in Refs
BY DEF Present, RefTo, Objects, Refs

\* Binding the references of a binding gives one that may be stored.
LEMMA BoundType ==
    ASSUME NEW objs \in [Ids -> Objects \cup {NoObject}],
           NEW References, NEW b \in Bindings(References), CanBindAny(objs, b)
    PROVE  Bound(objs, b) \in Bindings(Refs)
<1>1. \A r \in Roles : b.refs[r] # NoRef => RefTo(objs, b.refs[r].id) \in Refs
  BY PresentIsObject DEF CanBindAny
<1>2. [r \in Roles |-> IF b.refs[r] = NoRef THEN NoRef ELSE RefTo(objs, b.refs[r].id)]
        \in [Roles -> Refs \cup {NoRef}]
  BY <1>1
<1> QED BY <1>2 DEF Bound, Bindings

LEMMA CanBindIsPresent ==
    ASSUME NEW objs, NEW b, CanBind(objs, b) PROVE CanBindAny(objs, b)
BY DEF CanBind, CanBindAny, Resolves

\* Binding again what is bound changes nothing, unless it fails.
LEMMA BoundAgain ==
    ASSUME NEW objs \in [Ids -> Objects \cup {NoObject}],
           NEW b \in Bindings(Refs), CanBind(objs, b)
    PROVE  Bound(objs, b) = b
<1>1. ASSUME NEW r \in Roles, b.refs[r] # NoRef PROVE RefTo(objs, b.refs[r].id) = b.refs[r]
  <2>1. b.refs[r] \in Refs
    BY <1>1 DEF Bindings
  <2>2. Resolves(objs, b.refs[r])
    BY <1>1 DEF CanBind
  <2> QED BY <2>1, <2>2 DEF Resolves, RefTo, Refs
<1>2. [r \in Roles |-> IF b.refs[r] = NoRef THEN NoRef ELSE RefTo(objs, b.refs[r].id)] = b.refs
  BY <1>1 DEF Bindings
<1> QED BY <1>2 DEF Bound, Bindings

LEMMA DraftType ==
    ASSUME NEW i \in Ids, NEW d \in Drafts[i]
    PROVE  d \in Declarations /\ d.alias \in Aliases
           /\ d.binding \in Bindings({AnyRevision(k) : k \in Ids})
<1>1. d \in Declarations
  BY RegistryAssumption
<1> QED BY <1>1 DEF Declarations

\* A rule that putRule accepts is well formed, and replaces an older revision.
LEMMA PutType ==
    ASSUME NEW objs \in [Ids -> Objects \cup {NoObject}], PoliciesOK,
           NEW p \in PolicyNames, NEW d \in RuleDrafts[p], CanPut(objs, policies, p, d)
    PROVE  LET new == PutRule(objs, policies, p, d) IN
           /\ new \in [PolicyNames -> Rules \cup {NoRule}]
           /\ \A n \in PolicyNames \ {p} : new[n] = policies[n]
           /\ new[p] # NoRule
           /\ policies[p] # NoRule => new[p].rev = policies[p].rev + 1
<1> DEFINE rev == IF policies[p] = NoRule THEN 1 ELSE policies[p].rev + 1
           tuples == {Canonical(objs, t) : t \in d.tuples}
           path == IF d.path = NoRef THEN NoRef ELSE RefTo(objs, d.path)
           rule == [rev |-> rev, decision |-> d.decision, tuples |-> tuples, path |-> path]
<1>1. d \in RuleDeclarations
  BY RegistryAssumption
<1>2. rev \in Nat \ {0}
  BY DEF PoliciesOK, Rules
<1>3. tuples \in SUBSET Tuples
  <2>1. SUFFICES ASSUME NEW t \in d.tuples PROVE Canonical(objs, t) \in Tuples
    OBVIOUS
  <2>2. t.source \in Present(objs) /\ t.endpoint \in Present(objs) /\ t.scope \in Scopes
    BY <1>1 DEF CanPut, RuleDeclarations
  <2> QED BY <2>2, PresentIsObject DEF Canonical, Tuples
<1>4. path \in Refs \cup {NoRef}
  <2>1. CASE d.path = NoRef BY <2>1
  <2>2. CASE d.path # NoRef
    <3>1. d.path \in Present(objs)
      BY <2>2 DEF CanPut
    <3> QED BY <2>2, <3>1, PresentIsObject
  <2> QED BY <2>1, <2>2
<1>5. rule \in Rules
  BY <1>1, <1>2, <1>3, <1>4 DEF Rules, RuleDeclarations
<1>6. PutRule(objs, policies, p, d) = [policies EXCEPT ![p] = rule]
  BY DEF PutRule
<1> HIDE DEF rule
<1>7. rule # NoRule
  BY <1>5, RegistryAssumption
<1>8. rule.rev = rev
  BY DEF rule
<1> QED BY <1>5, <1>6, <1>7, <1>8 DEF PoliciesOK

-----------------------------------------------------------------------------
(* One command at a time: the objects *)

LEMMA CreateObjects ==
    ASSUME ObjectsOK, NEW i \in Ids, NEW d \in Drafts[i], Create(i, d)
    PROVE  ObjectsOK' /\ ObjectsKept
<1>1. [rev |-> 1, alias |-> d.alias, binding |-> Bound(objects, d.binding)] \in Objects
  <2>1. d.alias \in Aliases /\ d.binding \in Bindings({AnyRevision(k) : k \in Ids})
    BY DraftType
  <2>2. CanBindAny(objects, d.binding)
    BY CanBindIsPresent DEF Create
  <2>3. Bound(objects, d.binding) \in Bindings(Refs)
    BY <2>1, <2>2, BoundType DEF ObjectsOK
  <2> QED BY <2>1, <2>3 DEF Objects
<1>2. objects' \in [Ids -> Objects \cup {NoObject}]
  BY <1>1 DEF ObjectsOK, Create
<1>3. \A k \in Present(objects) : objects'[k] = objects[k] /\ objects[k].rev \in Nat
  BY PresentIsObject DEF ObjectsOK, Create, Present, Objects
<1> QED BY <1>2, <1>3 DEF ObjectsOK, ObjectsKept, Present

LEMMA RenameObjects ==
    ASSUME ObjectsOK, NEW i \in Ids, NEW alias \in Aliases, Rename(i, alias)
    PROVE  ObjectsOK' /\ ObjectsKept
<1>1. i \in Present(objects) /\ CanBind(objects, objects[i].binding)
  BY DEF Rename
<1>2. objects[i] \in Objects /\ objects[i].binding \in Bindings(Refs)
  BY <1>1, PresentIsObject DEF ObjectsOK, Objects
<1>3. Bound(objects, objects[i].binding) = objects[i].binding
  BY <1>1, <1>2, BoundAgain DEF ObjectsOK
<1>4. objects' = [objects EXCEPT ![i] = [objects[i] EXCEPT !.alias = alias]]
  BY <1>2, <1>3 DEF Rename, ObjectsOK, Objects
<1>5. [objects[i] EXCEPT !.alias = alias] \in Objects
  BY <1>2 DEF Objects
<1>6. [objects[i] EXCEPT !.alias = alias] # NoObject
  BY <1>5, RegistryAssumption
<1>7. \A k \in Present(objects) : objects[k].rev \in Nat
  BY PresentIsObject DEF ObjectsOK, Objects
<1> QED BY <1>2, <1>4, <1>5, <1>6, <1>7 DEF ObjectsOK, ObjectsKept, Present, Objects

LEMMA RebindObjects ==
    ASSUME ObjectsOK, NEW i \in Ids, NEW d \in Drafts[i], Rebind(i, d.binding)
    PROVE  ObjectsOK' /\ ObjectsKept
<1> DEFINE b == d.binding
           moved == [objects EXCEPT ![i].binding = b, ![i].rev = @ + 1]
           bound == Bound(moved, b)
           new == [rev |-> objects[i].rev + 1, alias |-> objects[i].alias, binding |-> bound]
<1>1. i \in Present(objects) /\ objects[i] \in Objects
  BY PresentIsObject DEF Rebind, ObjectsOK
<1>2. /\ \A k \in Ids \ {i} : moved[k] = objects[k]
      /\ moved[i] = [rev |-> objects[i].rev + 1, alias |-> objects[i].alias, binding |-> b]
  BY <1>1 DEF ObjectsOK, Objects
<1>3. bound \in Bindings(Refs)
  <2>1. \A k \in Ids : moved[k] # NoObject => RefTo(moved, k) \in Refs
    BY <1>1, <1>2 DEF RefTo, Refs, Objects, ObjectsOK
  <2>2. \A r \in Roles : b.refs[r] # NoRef => RefTo(moved, b.refs[r].id) \in Refs
    BY <2>1, CanBindIsPresent DEF Rebind, CanBindAny, Present
  <2>3. b \in Bindings({AnyRevision(k) : k \in Ids})
    BY DraftType
  <2>4. [r \in Roles |-> IF b.refs[r] = NoRef THEN NoRef ELSE RefTo(moved, b.refs[r].id)]
           \in [Roles -> Refs \cup {NoRef}]
    BY <2>2
  <2> QED BY <2>3, <2>4 DEF Bound, Bindings
<1>4. objects' = [moved EXCEPT ![i].binding = bound]
  BY DEF Rebind
<1> HIDE DEF bound
<1>5. objects' = [objects EXCEPT ![i] = new]
  <2>1. moved \in [Ids -> UNION {{moved[k]} : k \in Ids}]
    BY DEF ObjectsOK
  <2> HIDE DEF moved
  <2>2. [moved[i] EXCEPT !.binding = bound] = new
    BY <1>2
  <2>3. objects' = [moved EXCEPT ![i] = new]
    BY <1>4, <2>2
  <2> HIDE DEF new
  <2>4. DOMAIN moved = Ids /\ DOMAIN objects = Ids
    BY <2>1 DEF ObjectsOK
  <2> QED BY <1>2, <2>3, <2>4
<1>6. new \in Objects
  BY <1>1, <1>3 DEF Objects
<1>7. new # NoObject /\ new.rev = objects[i].rev + 1 /\ objects[i].rev \in Nat
  BY <1>1, <1>6, RegistryAssumption DEF Objects
<1> HIDE DEF new
<1>8. \A k \in Present(objects) : objects[k].rev \in Nat
  BY PresentIsObject DEF ObjectsOK, Objects
<1> QED BY <1>5, <1>6, <1>7, <1>8 DEF ObjectsOK, ObjectsKept, Present

LEMMA ImportObjects ==
    ASSUME ObjectsOK, NEW new \in Manifests, Import(new)
    PROVE  ObjectsOK' /\ ObjectsKept
<1> DEFINE named == [i \in Ids |-> IF i \in DOMAIN new
                            THEN [rev |-> 1, alias |-> new[i].alias, binding |-> new[i].binding]
                            ELSE objects[i]]
<1>1. /\ DOMAIN new \subseteq Ids \ Present(objects)
      /\ \A i \in DOMAIN new : new[i] \in Drafts[i]
  BY DEF Manifests
<1>2. objects' = [i \in Ids |-> IF i \in DOMAIN new
                                THEN [named[i] EXCEPT !.binding = Bound(named, @)]
                                ELSE objects[i]]
  BY DEF Import, Grown
<1>3. ASSUME NEW i \in DOMAIN new PROVE objects'[i] \in Objects
  <2>1. i \in Ids /\ new[i] \in Drafts[i]
    BY <1>1
  <2>2. \A k \in Ids : k \in DOMAIN new \cup Present(objects) => RefTo(named, k) \in Refs
    <3>1. SUFFICES ASSUME NEW k \in Ids, k \in DOMAIN new \cup Present(objects)
                   PROVE  RefTo(named, k) \in Refs
      OBVIOUS
    <3>2. named[k].rev \in Nat \ {0}
      <4>1. CASE k \in DOMAIN new BY <4>1
      <4>2. CASE k \notin DOMAIN new
        <5>1. named[k] = objects[k] BY <4>2
        <5>2. objects[k] \in Objects BY <3>1, <4>2, PresentIsObject DEF ObjectsOK
        <5> QED BY <5>1, <5>2 DEF Objects
      <4> QED BY <4>1, <4>2
    <3> HIDE DEF named
    <3> QED BY <3>2 DEF RefTo, Refs
  <2>3. \A r \in Roles : new[i].binding.refs[r] # NoRef =>
            RefTo(named, new[i].binding.refs[r].id) \in Refs
    BY <1>1, <2>2 DEF Import, Present
  <2>4. /\ new[i].alias \in Aliases
        /\ new[i].binding \in Bindings({AnyRevision(k) : k \in Ids})
    BY <2>1, DraftType
  <2>5. [r \in Roles |-> IF new[i].binding.refs[r] = NoRef THEN NoRef
                         ELSE RefTo(named, new[i].binding.refs[r].id)]
           \in [Roles -> Refs \cup {NoRef}]
    BY <2>3
  <2>6. Bound(named, new[i].binding) \in Bindings(Refs)
    BY <2>4, <2>5 DEF Bound, Bindings
  <2>7. objects'[i] = [rev |-> 1, alias |-> new[i].alias,
                       binding |-> Bound(named, new[i].binding)]
    BY <1>2, <2>1
  <2> QED BY <2>4, <2>6, <2>7 DEF Objects
<1>4. \A k \in Present(objects) : objects'[k] = objects[k] /\ objects[k].rev \in Nat
  BY <1>1, <1>2, PresentIsObject DEF ObjectsOK, Objects, Present
<1>5. \A i \in Ids \ DOMAIN new : objects'[i] = objects[i]
  BY <1>2
<1>6. objects' \in [Ids -> Objects \cup {NoObject}]
  <2>1. \A i \in Ids : objects'[i] \in Objects \cup {NoObject}
    BY <1>3, <1>5 DEF ObjectsOK
  <2>2. objects' = [i \in Ids |-> objects'[i]]
    BY <1>2
  <2> QED BY <2>1, <2>2
<1> QED BY <1>4, <1>6 DEF ObjectsOK, ObjectsKept, Present

-----------------------------------------------------------------------------
(* One command at a time: the policies *)

LEMMA PutPolicies ==
    ASSUME PoliciesOK, NEW objs \in [Ids -> Objects \cup {NoObject}],
           NEW p \in PolicyNames, NEW d \in RuleDrafts[p],
           CanPut(objs, policies, p, d), policies' = PutRule(objs, policies, p, d)
    PROVE  PoliciesOK' /\ PoliciesKept
<1>1. \A n \in PolicyNames : policies[n] # NoRule => policies[n].rev \in Nat
  BY DEF PoliciesOK, Rules
<1> QED BY <1>1, PutType DEF PoliciesOK, PoliciesKept

LEMMA SamePolicies ==
    ASSUME PoliciesOK, UNCHANGED policies PROVE PoliciesOK' /\ PoliciesKept
<1>1. \A n \in PolicyNames : policies[n] # NoRule => policies[n].rev \in Nat
  BY DEF PoliciesOK, Rules
<1> QED BY <1>1 DEF PoliciesOK, PoliciesKept

LEMMA SameObjects ==
    ASSUME ObjectsOK, UNCHANGED objects PROVE ObjectsOK' /\ ObjectsKept
<1>1. \A k \in Present(objects) : objects[k].rev \in Nat
  BY PresentIsObject DEF ObjectsOK, Objects
<1> QED BY <1>1 DEF ObjectsOK, ObjectsKept, Present

-----------------------------------------------------------------------------
(* The theorems *)

\* A verification only reads the registry.
LEMMA VerifyReads == ASSUME Verify PROVE UNCHANGED file
BY DEF Verify, Ask, ReadTarget, ReadSource, ReadMembers, ReadGateway, ReadVPN, ReadControl,
       Resolve, ResolveTuples, ReadPath, ReadTable, Walk, FirstAnswer, BeginPermit, Permit,
       Save, GiveUp, Goto

\* Every step keeps the registry well formed and its references immutable.
LEMMA StepKeeps ==
    ASSUME TypeOK, [Next]_vars
    PROVE  TypeOK' /\ ObjectsKept /\ PoliciesKept
<1>0. ObjectsOK /\ PoliciesOK
  BY DEF TypeOK, ObjectsOK, PoliciesOK
<1> USE <1>0
<1>1. ASSUME UNCHANGED file PROVE TypeOK' /\ ObjectsKept /\ PoliciesKept
  BY <1>1, SameObjects, SamePolicies
     DEF file, TypeOK, ObjectsOK, PoliciesOK, ValidObjects, Disjoint, Present
<1>2. ASSUME ObjectsOK', PoliciesOK', ValidObjects(objects'), Disjoint(policies') PROVE TypeOK'
  BY <1>2 DEF TypeOK, ObjectsOK, PoliciesOK
<1>3. ASSUME UNCHANGED policies PROVE Disjoint(policies')
  BY <1>3 DEF TypeOK
<1>4. CASE Mutate
  <2>1. ASSUME NEW i \in Ids, NEW d \in Drafts[i], Create(i, d)
        PROVE  TypeOK' /\ ObjectsKept /\ PoliciesKept
    <3>1. UNCHANGED policies /\ ValidObjects(objects') BY <2>1 DEF Create
    <3> QED BY <2>1, <3>1, <1>2, <1>3, CreateObjects, SamePolicies
  <2>2. ASSUME NEW i \in Ids, NEW d \in Drafts[i], Rename(i, d.alias)
        PROVE  TypeOK' /\ ObjectsKept /\ PoliciesKept
    <3>1. UNCHANGED policies /\ ValidObjects(objects') BY <2>2 DEF Rename
    <3>2. d.alias \in Aliases BY DraftType
    <3> QED BY <2>2, <3>1, <3>2, <1>2, <1>3, RenameObjects, SamePolicies
  <2>3. ASSUME NEW i \in Ids, NEW d \in Drafts[i], Rebind(i, d.binding)
        PROVE  TypeOK' /\ ObjectsKept /\ PoliciesKept
    <3>1. UNCHANGED policies /\ ValidObjects(objects') BY <2>3 DEF Rebind
    <3> QED BY <2>3, <3>1, <1>2, <1>3, RebindObjects, SamePolicies
  <2>4. ASSUME NEW p \in PolicyNames, NEW d \in RuleDrafts[p], PutPolicy(p, d)
        PROVE  TypeOK' /\ ObjectsKept /\ PoliciesKept
    <3>1. /\ UNCHANGED objects /\ Disjoint(policies') /\ CanPut(objects, policies, p, d)
          /\ policies' = PutRule(objects, policies, p, d)
      BY <2>4 DEF PutPolicy
    <3>2. ValidObjects(objects') BY <3>1 DEF TypeOK
    <3> QED BY <2>4, <3>1, <3>2, <1>2, SameObjects, PutPolicies DEF ObjectsOK
  <2>5. ASSUME NEW new \in Manifests, Import(new)
        PROVE  TypeOK' /\ ObjectsKept /\ PoliciesKept
    <3>1. ObjectsOK' /\ ObjectsKept /\ ValidObjects(objects')
      BY <2>5, ImportObjects DEF Import
    <3>2. CASE UNCHANGED policies
      BY <3>1, <3>2, <1>2, <1>3, SamePolicies
    <3>3. ASSUME NEW p \in PolicyNames, NEW d \in RuleDrafts[p],
                 CanPut(objects', policies, p, d),
                 policies' = PutRule(objects', policies, p, d), Disjoint(policies')
          PROVE  TypeOK' /\ ObjectsKept /\ PoliciesKept
      BY <3>1, <3>3, <1>2, PutPolicies DEF ObjectsOK
    <3> QED BY <2>5, <3>2, <3>3 DEF Import
  <2> QED BY <1>4, <2>1, <2>2, <2>3, <2>4, <2>5 DEF Mutate
<1>5. CASE Verify BY <1>1, <1>5, VerifyReads
<1>6. CASE UNCHANGED vars BY <1>1, <1>6 DEF vars
<1> QED BY <1>4, <1>5, <1>6 DEF Next

\* Every object and rule the registry saves is well formed, with one alias for
\* one object of a kind, one service for an endpoint and one rule for a tuple.
THEOREM RegistryIsWellFormed == Spec => []TypeOK
<1>1. Init => TypeOK
  BY DEF Init, TypeOK, ValidObjects, Disjoint, Present
<1>2. TypeOK /\ [Next]_vars => TypeOK'
  BY StepKeeps
<1> QED BY <1>1, <1>2, PTL DEF Spec

\* Whatever commands change the registry, and in whatever order, a reference
\* that was given out stands for the same binding for ever.
THEOREM ReferencesStayImmutable == Spec => ReferencesAreImmutable
<1> DEFINE Kept == /\ \A i \in Present(objects) :
                         /\ objects'[i] # NoObject
                         /\ objects'[i].rev >= objects[i].rev
                         /\ objects'[i].rev = objects[i].rev
                               => objects'[i].binding = objects[i].binding
                   /\ \A p \in PolicyNames : policies[p] # NoRule =>
                         /\ policies'[p] # NoRule
                         /\ policies'[p].rev >= policies[p].rev
                         /\ policies'[p].rev = policies[p].rev => policies'[p] = policies[p]
<1>1. TypeOK /\ [Next]_vars => [Kept]_file
  BY StepKeeps DEF ObjectsKept, PoliciesKept
<1> HIDE DEF Kept
<1>2. Spec => [][Kept]_file
  BY <1>1, RegistryIsWellFormed, PTL DEF Spec
<1> QED BY <1>2 DEF ReferencesAreImmutable, Kept

-----------------------------------------------------------------------------
(* Behind and ahead of a registry: a reading saw these things before it, or *)
(* after it                                                                 *)

Nodes == [ref : Refs, binding : Bindings(Refs)]
NamedRules == [name : PolicyNames, rule : Rules]
RefsIn(rule) == {t.source : t \in rule.tuples} \cup {t.endpoint : t \in rule.tuples}
                \cup ({rule.path} \ {NoRef})

RefBehind(objs, ref) == objs[ref.id] # NoObject /\ ref.rev <= objs[ref.id].rev
RefAhead(objs, ref) == objs[ref.id] # NoObject => objs[ref.id].rev <= ref.rev
NodeBehind(objs, n) == /\ RefBehind(objs, n.ref)
                       /\ n.ref.rev = objs[n.ref.id].rev => n.binding = objs[n.ref.id].binding
NodeAhead(objs, n) ==
    objs[n.ref.id] # NoObject =>
        /\ objs[n.ref.id].rev <= n.ref.rev
        /\ n.ref.rev = objs[n.ref.id].rev => n.binding = objs[n.ref.id].binding
RuleBehind(rules, p, rule) == /\ rules[p] # NoRule /\ rule.rev <= rules[p].rev
                              /\ rule.rev = rules[p].rev => rules[p] = rule
RuleAhead(rules, p, rule) == rules[p] # NoRule =>
                                 /\ rules[p].rev <= rule.rev
                                 /\ rule.rev = rules[p].rev => rules[p] = rule

Grew(o, o2) == \A i \in Ids : o[i] # NoObject =>
                   /\ o2[i] # NoObject /\ o2[i].rev >= o[i].rev
                   /\ o2[i].rev = o[i].rev => o2[i].binding = o[i].binding
RulesGrew(q, q2) == \A p \in PolicyNames : q[p] # NoRule =>
                   /\ q2[p] # NoRule /\ q2[p].rev >= q[p].rev
                   /\ q2[p].rev = q[p].rev => q2[p] = q[p]

ObjectTables == [Ids -> Objects \cup {NoObject}]
RuleTables == [PolicyNames -> Rules \cup {NoRule}]

LEMMA RevType == ASSUME NEW o \in ObjectTables, NEW i \in Ids, o[i] # NoObject
                 PROVE  o[i].rev \in Nat
BY DEF ObjectTables, Objects

LEMMA RuleRevType == ASSUME NEW q \in RuleTables, NEW p \in PolicyNames, q[p] # NoRule
                     PROVE  q[p] \in Rules /\ q[p].rev \in Nat
BY DEF RuleTables, Rules

LEMMA RefBehindGrows ==
    ASSUME NEW o \in ObjectTables, NEW o2 \in ObjectTables, Grew(o, o2),
           NEW ref \in Refs, RefBehind(o, ref)
    PROVE  RefBehind(o2, ref)
<1>1. ref.id \in Ids /\ ref.rev \in Nat
  BY DEF Refs
<1>2. o[ref.id].rev \in Nat /\ o2[ref.id].rev \in Nat
  BY <1>1, RevType DEF RefBehind, Grew
<1> QED BY <1>1, <1>2 DEF RefBehind, Grew

LEMMA NodeBehindGrows ==
    ASSUME NEW o \in ObjectTables, NEW o2 \in ObjectTables, Grew(o, o2),
           NEW n \in Nodes, NodeBehind(o, n)
    PROVE  NodeBehind(o2, n)
<1>1. n.ref \in Refs /\ n.ref.id \in Ids /\ n.ref.rev \in Nat
  BY DEF Nodes, Refs
<1>2. RefBehind(o2, n.ref)
  BY <1>1, RefBehindGrows DEF NodeBehind
<1>3. o[n.ref.id].rev \in Nat /\ o2[n.ref.id].rev \in Nat
  BY <1>1, <1>2, RevType DEF NodeBehind, RefBehind
<1> QED BY <1>1, <1>2, <1>3 DEF NodeBehind, RefBehind, Grew

LEMMA RuleBehindGrows ==
    ASSUME NEW q \in RuleTables, NEW q2 \in RuleTables, RulesGrew(q, q2),
           NEW p \in PolicyNames, NEW rule \in Rules, RuleBehind(q, p, rule)
    PROVE  RuleBehind(q2, p, rule)
<1>1. rule.rev \in Nat
  BY DEF Rules
<1>2. q[p].rev \in Nat /\ q2[p].rev \in Nat
  BY RuleRevType DEF RuleBehind, RulesGrew
<1> QED BY <1>1, <1>2 DEF RuleBehind, RulesGrew

LEMMA GrewTransitive ==
    ASSUME NEW o \in ObjectTables, NEW o1 \in ObjectTables, NEW o2 \in ObjectTables,
           Grew(o, o1), Grew(o1, o2)
    PROVE  Grew(o, o2)
<1>1. ASSUME NEW i \in Ids, o[i] # NoObject
      PROVE  o1[i] # NoObject /\ o2[i] # NoObject
             /\ o[i].rev \in Nat /\ o1[i].rev \in Nat /\ o2[i].rev \in Nat
  BY <1>1, RevType DEF Grew
<1> QED BY <1>1 DEF Grew

LEMMA RulesGrewTransitive ==
    ASSUME NEW q \in RuleTables, NEW q1 \in RuleTables, NEW q2 \in RuleTables,
           RulesGrew(q, q1), RulesGrew(q1, q2)
    PROVE  RulesGrew(q, q2)
<1>1. ASSUME NEW p \in PolicyNames, q[p] # NoRule
      PROVE  q1[p] # NoRule /\ q2[p] # NoRule
             /\ q[p].rev \in Nat /\ q1[p].rev \in Nat /\ q2[p].rev \in Nat
  BY <1>1, RuleRevType DEF RulesGrew
<1> QED BY <1>1 DEF RulesGrew

\* What is current is behind this registry, and ahead of every earlier one.
LEMMA NodeIsCurrent ==
    ASSUME ObjectsOK, NEW i \in Present(objects)
    PROVE  /\ Node(i) \in Nodes /\ Node(i).ref.id = i /\ Node(i).ref = RefTo(objects, i)
           /\ NodeBehind(objects, Node(i))
           /\ \A o \in ObjectTables : Grew(o, objects) => NodeAhead(o, Node(i))
<1>1. i \in Ids /\ objects[i] \in Objects /\ RefTo(objects, i) \in Refs /\ objects[i] # NoObject
  BY PresentIsObject DEF ObjectsOK, Present
<1>2. objects[i].binding \in Bindings(Refs) /\ objects[i].rev \in Nat
  BY <1>1 DEF Objects
<1>3. /\ Node(i).ref = RefTo(objects, i) /\ Node(i).binding = objects[i].binding
      /\ Node(i).ref.id = i /\ Node(i).ref.rev = objects[i].rev
  BY DEF Node, RefTo
<1>4. Node(i) \in Nodes
  BY <1>1, <1>2 DEF Node, Nodes
<1>5. NodeBehind(objects, Node(i))
  BY <1>1, <1>2, <1>3 DEF NodeBehind, RefBehind
<1>6. ASSUME NEW o \in ObjectTables, Grew(o, objects) PROVE NodeAhead(o, Node(i))
  <2>1. o[i] # NoObject => o[i].rev \in Nat
    BY <1>1, RevType
  <2> QED BY <1>1, <1>2, <1>3, <1>6, <2>1 DEF NodeAhead, Grew
<1> QED BY <1>3, <1>4, <1>5, <1>6

LEMMA RefIsCurrent ==
    ASSUME ObjectsOK, NEW ref \in Refs, Resolves(objects, ref)
    PROVE  /\ RefBehind(objects, ref)
           /\ \A o \in ObjectTables : Grew(o, objects) => RefAhead(o, ref)
<1>1. /\ ref.id \in Ids /\ objects[ref.id] # NoObject /\ ref.rev = objects[ref.id].rev
      /\ ref.rev \in Nat
  BY DEF Resolves, Present, Refs
<1>2. ASSUME NEW o \in ObjectTables, Grew(o, objects) PROVE RefAhead(o, ref)
  BY <1>1, <1>2, RevType DEF RefAhead, Grew
<1> QED BY <1>1, <1>2 DEF RefBehind

LEMMA RuleIsCurrent ==
    ASSUME PoliciesOK, NEW p \in PolicyNames, policies[p] # NoRule
    PROVE  /\ policies[p] \in Rules
           /\ RuleBehind(policies, p, policies[p])
           /\ \A q \in RuleTables : RulesGrew(q, policies) => RuleAhead(q, p, policies[p])
<1>1. policies[p] \in Rules /\ policies[p].rev \in Nat
  BY DEF PoliciesOK, Rules
<1>2. ASSUME NEW q \in RuleTables, RulesGrew(q, policies) PROVE RuleAhead(q, p, policies[p])
  BY <1>1, <1>2, RuleRevType DEF RuleAhead, RulesGrew
<1> QED BY <1>1, <1>2 DEF RuleBehind

\* A rule whose references all resolve: each of them is current.
LEMMA RuleRefsAreCurrent ==
    ASSUME NEW rule \in Rules, NEW ref \in RefsIn(rule)
    PROVE  /\ ref \in Refs
           /\ \A o : RuleCurrent(o, rule) => Resolves(o, ref)
<1>1. rule.tuples \subseteq Tuples /\ rule.path \in Refs \cup {NoRef}
  BY DEF Rules
<1>2. CASE ref \in {t.source : t \in rule.tuples}
  BY <1>1, <1>2 DEF Tuples, RuleCurrent, TupleCurrent
<1>3. CASE ref \in {t.endpoint : t \in rule.tuples}
  BY <1>1, <1>3 DEF Tuples, RuleCurrent, TupleCurrent
<1>4. CASE ref \in {rule.path} \ {NoRef}
  BY <1>1, <1>4 DEF RuleCurrent
<1> QED BY <1>2, <1>3, <1>4 DEF RefsIn

\* What is both behind and ahead of a registry is what it says.
LEMMA NodeBetween ==
    ASSUME NEW o \in ObjectTables, NEW n \in Nodes, NodeBehind(o, n), NodeAhead(o, n)
    PROVE  /\ o[n.ref.id] # NoObject /\ RefTo(o, n.ref.id) = n.ref
           /\ o[n.ref.id].binding = n.binding
<1>1. n.ref \in Refs /\ n.ref.id \in Ids /\ n.ref.rev \in Nat
  BY DEF Nodes, Refs
<1>2. o[n.ref.id] # NoObject /\ o[n.ref.id].rev \in Nat
  BY <1>1, RevType DEF NodeBehind, RefBehind
<1>3. n.ref.rev = o[n.ref.id].rev
  BY <1>1, <1>2 DEF NodeBehind, NodeAhead, RefBehind
<1>4. RefTo(o, n.ref.id) = n.ref
  BY <1>1, <1>3 DEF RefTo, Refs
<1> QED BY <1>2, <1>3, <1>4 DEF NodeBehind

LEMMA RefBetween ==
    ASSUME NEW o \in ObjectTables, NEW ref \in Refs, RefBehind(o, ref), RefAhead(o, ref)
    PROVE  Resolves(o, ref) /\ RefTo(o, ref.id) = ref
<1>1. ref.id \in Ids /\ ref.rev \in Nat
  BY DEF Refs
<1>2. o[ref.id] # NoObject /\ o[ref.id].rev \in Nat
  BY <1>1, RevType DEF RefBehind
<1>3. ref.rev = o[ref.id].rev
  BY <1>1, <1>2 DEF RefBehind, RefAhead
<1> QED BY <1>1, <1>2, <1>3 DEF Resolves, Present, RefTo, Refs

LEMMA RuleBetween ==
    ASSUME NEW q \in RuleTables, NEW p \in PolicyNames, NEW rule \in Rules,
           RuleBehind(q, p, rule), RuleAhead(q, p, rule)
    PROVE  q[p] = rule
<1>1. rule.rev \in Nat
  BY DEF Rules
<1>2. q[p] # NoRule /\ q[p].rev \in Nat
  BY RuleRevType DEF RuleBehind
<1> QED BY <1>1, <1>2 DEF RuleBehind, RuleAhead

-----------------------------------------------------------------------------
(* A question in progress, and its answer *)

ReadSteps == {"target", "source", "members", "gateway", "vpn", "control", "tuples",
              "path", "table", "walk"}

BaselineOK(rules, b) ==
    b # NoAnswer => \A x \in b.rules : x.name \in PolicyNames /\ rules[x.name] # NoRule

\* What a question knows at a step: its nodes are records of objects, its two
\* ends and every walked reference are among them, its rules decide every
\* scope, and its table has the rules it needs.
NodesTyped(rd, step) ==
    /\ rd.nodes \subseteq Nodes /\ rd.walked \subseteq Refs
    /\ \A ref \in rd.walked : \E n \in rd.nodes : n.ref.id = ref.id
    /\ step = "target" => rd.nodes = {}
    /\ step # "target" => \E n \in rd.nodes : n.ref = rd.target
    /\ step \notin {"target", "source"} => \E n \in rd.nodes : n.ref = rd.source
RulesTyped(rd, step) ==
    /\ rd.rules \subseteq NamedRules
    /\ step \in {"path", "table", "walk"} =>
          \A sc \in Scopes : \E x \in rd.rules :
              [source |-> rd.source, endpoint |-> rd.target, scope |-> sc] \in x.rule.tuples
TableTyped(rd, step) ==
    step = "walk" =>
        /\ rd.table \in RuleTables
        /\ \A x \in rd.rules : rd.table[x.name] # NoRule
        /\ BaselineOK(rd.table, rd.goal.baseline)

NodesBehind(o, rd) == /\ \A n \in rd.nodes : NodeBehind(o, n)
                      /\ \A ref \in rd.walked : RefBehind(o, ref)
NodesAhead(o, rd) == /\ \A n \in rd.nodes : NodeAhead(o, n)
                     /\ \A ref \in rd.walked : RefAhead(o, ref)
RulesBehind(o, q, rd) == \A x \in rd.rules : /\ RuleBehind(q, x.name, x.rule)
                                             /\ \A ref \in RefsIn(x.rule) : RefBehind(o, ref)
RulesAhead(o, q, rd) == \A x \in rd.rules : /\ RuleAhead(q, x.name, x.rule)
                                            /\ \A ref \in RefsIn(x.rule) : RefAhead(o, ref)
TableBehind(q, rd, step) == step = "walk" => \A p \in PolicyNames :
                               rd.table[p] # NoRule => RuleBehind(q, p, rd.table[p])
TableAhead(q, rd, step) == step = "walk" => \A p \in PolicyNames :
                               rd.table[p] # NoRule => RuleAhead(q, p, rd.table[p])

IsReading(rd) == rd = [goal |-> rd.goal, collecting |-> rd.collecting, nodes |-> rd.nodes,
                       target |-> rd.target, source |-> rd.source, rules |-> rd.rules,
                       table |-> rd.table, walked |-> rd.walked]
ReadingTyped(rd, step) == /\ IsReading(rd) /\ NodesTyped(rd, step)
                          /\ RulesTyped(rd, step) /\ TableTyped(rd, step)
ReadingBehind(o, q, rd, step) == /\ NodesBehind(o, rd) /\ RulesBehind(o, q, rd)
                                 /\ TableBehind(q, rd, step)
                                 /\ BaselineOK(q, rd.goal.baseline)
ReadingAhead(o, q, rd, step) == /\ NodesAhead(o, rd) /\ RulesAhead(o, q, rd)
                                /\ TableAhead(q, rd, step)

AnswerTyped(a) ==
    /\ a.nodes \subseteq Nodes /\ a.matched \subseteq NamedRules /\ a.rules \subseteq NamedRules
    /\ \A n \in a.nodes, r \in Roles : n.binding.refs[r] # NoRef =>
          \E m \in a.nodes : m.ref.id = n.binding.refs[r].id
    /\ \A sc \in Scopes : \E x \in a.matched :
          [source |-> a.source, endpoint |-> a.target, scope |-> sc] \in x.rule.tuples
AnswerBehind(o, q, a) ==
    /\ \A n \in a.nodes : /\ NodeBehind(o, n)
                            /\ \A r \in Roles : n.binding.refs[r] # NoRef =>
                                  RefBehind(o, n.binding.refs[r])
    /\ \A x \in a.rules : RuleBehind(q, x.name, x.rule)
    /\ \A x \in a.matched : /\ RuleBehind(q, x.name, x.rule)
                              /\ \A ref \in RefsIn(x.rule) : RefBehind(o, ref)
AnswerAhead(o, q, a) ==
    /\ \A n \in a.nodes : /\ NodeAhead(o, n)
                            /\ \A r \in Roles : n.binding.refs[r] # NoRef =>
                                  RefAhead(o, n.binding.refs[r])
    /\ \A x \in a.rules : RuleAhead(q, x.name, x.rule)
    /\ \A x \in a.matched : /\ RuleAhead(q, x.name, x.rule)
                              /\ \A ref \in RefsIn(x.rule) : RefAhead(o, ref)

\* An answer behind and ahead of one registry says what that registry said.
AnswerCurrent(o, q, a) ==
    /\ \A n \in a.nodes :
          /\ o[n.ref.id] # NoObject
          /\ RefTo(o, n.ref.id) = n.ref
          /\ o[n.ref.id].binding = n.binding
          /\ \A r \in Roles : n.binding.refs[r] # NoRef =>
                \E m \in a.nodes : m.ref = n.binding.refs[r]
    /\ \A x \in a.rules : q[x.name] = x.rule
    /\ \A x \in a.matched : RuleCurrent(o, x.rule)
    /\ \A sc \in Scopes : \E x \in a.matched :
          Matching(q, [source |-> a.source, endpoint |-> a.target, scope |-> sc]) = {x.name}

LEMMA AnswerBetween ==
    ASSUME NEW o \in ObjectTables, NEW q \in RuleTables, Disjoint(q), NEW a,
           AnswerTyped(a), AnswerBehind(o, q, a), AnswerAhead(o, q, a)
    PROVE  AnswerCurrent(o, q, a)
<1>1. ASSUME NEW n \in a.nodes
      PROVE  /\ o[n.ref.id] # NoObject /\ RefTo(o, n.ref.id) = n.ref
             /\ o[n.ref.id].binding = n.binding
  <2>1. n \in Nodes /\ NodeBehind(o, n) /\ NodeAhead(o, n)
    BY DEF AnswerTyped, AnswerBehind, AnswerAhead
  <2> QED BY <2>1, NodeBetween
<1>2. ASSUME NEW n \in a.nodes, NEW r \in Roles, n.binding.refs[r] # NoRef
      PROVE  \E m \in a.nodes : m.ref = n.binding.refs[r]
  <2>1. n.binding.refs[r] \in Refs
    BY <1>2 DEF AnswerTyped, Nodes, Bindings
  <2>2. RefBehind(o, n.binding.refs[r]) /\ RefAhead(o, n.binding.refs[r])
    BY <1>2 DEF AnswerBehind, AnswerAhead
  <2>3. RefTo(o, n.binding.refs[r].id) = n.binding.refs[r]
    BY <2>1, <2>2, RefBetween
  <2>4. PICK m \in a.nodes : m.ref.id = n.binding.refs[r].id
    BY <1>2 DEF AnswerTyped
  <2>5. RefTo(o, m.ref.id) = m.ref
    BY <1>1
  <2> QED BY <2>3, <2>4, <2>5
<1>3. \A x \in a.rules : q[x.name] = x.rule
  <2>1. \A x \in a.rules : x.name \in PolicyNames /\ x.rule \in Rules
    BY DEF AnswerTyped, NamedRules
  <2> QED BY <2>1, RuleBetween DEF AnswerBehind, AnswerAhead
<1>4. \A x \in a.matched : x.name \in PolicyNames /\ x.rule \in Rules /\ q[x.name] = x.rule
  <2>1. \A x \in a.matched : x.name \in PolicyNames /\ x.rule \in Rules
    BY DEF AnswerTyped, NamedRules
  <2> QED BY <2>1, RuleBetween DEF AnswerBehind, AnswerAhead
<1>5. ASSUME NEW x \in a.matched PROVE RuleCurrent(o, x.rule)
  <2>1. ASSUME NEW ref \in RefsIn(x.rule) PROVE Resolves(o, ref)
    <3>1. ref \in Refs
      BY <1>4, RuleRefsAreCurrent
    <3>2. RefBehind(o, ref) /\ RefAhead(o, ref)
      BY DEF AnswerBehind, AnswerAhead
    <3> QED BY <3>1, <3>2, RefBetween
  <2> QED BY <2>1 DEF RuleCurrent, TupleCurrent, RefsIn
<1>6. ASSUME NEW sc \in Scopes
      PROVE  \E x \in a.matched :
                Matching(q, [source |-> a.source, endpoint |-> a.target, scope |-> sc]) = {x.name}
  <2> DEFINE t == [source |-> a.source, endpoint |-> a.target, scope |-> sc]
  <2>1. PICK x \in a.matched : t \in x.rule.tuples
    BY DEF AnswerTyped
  <2> HIDE DEF t
  <2>2. x.name \in PolicyNames /\ q[x.name] = x.rule /\ q[x.name] # NoRule
    BY <1>4, RegistryAssumption
  <2>3. x.name \in Matching(q, t)
    BY <2>1, <2>2 DEF Matching
  <2>4. \A p \in Matching(q, t) : p = x.name
    BY <2>3 DEF Matching, Disjoint
  <2>5. Matching(q, t) = {x.name}
    BY <2>3, <2>4
  <2> QED BY <2>5 DEF t
<1> QED BY <1>1, <1>2, <1>3, <1>5, <1>6 DEF AnswerCurrent

\* An answer is behind, and ahead of, what its question was.
LEMMA AnswerType ==
    ASSUME pc = "walk", ReadingTyped(reading, pc), Answered
    PROVE  /\ AnswerTyped(Answer)
           /\ \A n \in reading.nodes, r \in Roles : n.binding.refs[r] # NoRef =>
                 n.binding.refs[r] \in reading.walked
           /\ \A x \in Answer.rules : /\ x.name \in PolicyNames
                                       /\ reading.table[x.name] # NoRule
                                       /\ x.rule = reading.table[x.name]
<1>1. /\ Answer.nodes = reading.nodes /\ Answer.matched = reading.rules
      /\ Answer.source = reading.source /\ Answer.target = reading.target
      /\ Answer.rules = {[name |-> x.name, rule |-> reading.table[x.name]] : x \in RuleRefs}
  BY DEF Answer
<1>2. \A x \in RuleRefs : x.name \in PolicyNames /\ reading.table[x.name] \in Rules
                            /\ reading.table[x.name] # NoRule
  <2>1. \A x \in reading.rules : x.name \in PolicyNames
    BY DEF ReadingTyped, RulesTyped, NamedRules
  <2>2. \A x \in RuleRefs : x.name \in PolicyNames /\ reading.table[x.name] # NoRule
    BY <2>1 DEF RuleRefs, ReadingTyped, TableTyped, BaselineOK
  <2> QED BY <2>2 DEF ReadingTyped, TableTyped, RuleTables
<1>3. \A n \in reading.nodes, r \in Roles : n.binding.refs[r] # NoRef =>
         n.binding.refs[r] \in reading.walked
  <2>1. Own = {}
    BY DEF Answered, Unwalked
  <2> QED BY <2>1 DEF Own
<1>4. \A x \in Answer.rules : /\ x.name \in PolicyNames /\ reading.table[x.name] # NoRule
                              /\ x.rule = reading.table[x.name] /\ x \in NamedRules
  BY <1>1, <1>2 DEF NamedRules
<1>5. reading.nodes \subseteq Nodes /\ reading.rules \subseteq NamedRules
  BY DEF ReadingTyped, NodesTyped, RulesTyped
<1>6. \A n \in reading.nodes, r \in Roles : n.binding.refs[r] # NoRef =>
         \E m \in reading.nodes : m.ref.id = n.binding.refs[r].id
  BY <1>3 DEF ReadingTyped, NodesTyped
<1>7. \A sc \in Scopes : \E x \in reading.rules :
         [source |-> reading.source, endpoint |-> reading.target, scope |-> sc] \in x.rule.tuples
  BY DEF ReadingTyped, RulesTyped
<1>8. AnswerTyped(Answer)
  BY <1>1, <1>4, <1>5, <1>6, <1>7 DEF AnswerTyped
<1> QED BY <1>3, <1>4, <1>8

LEMMA AnswerInherits ==
    ASSUME pc = "walk", ReadingTyped(reading, pc), Answered, NEW o, NEW q
    PROVE  /\ ReadingBehind(o, q, reading, pc) => AnswerBehind(o, q, Answer)
           /\ ReadingAhead(o, q, reading, pc) => AnswerAhead(o, q, Answer)
<1>1. Answer.nodes = reading.nodes /\ Answer.matched = reading.rules
  BY DEF Answer
<1>2. ASSUME ReadingBehind(o, q, reading, pc) PROVE AnswerBehind(o, q, Answer)
  <2>1. \A x \in Answer.rules : RuleBehind(q, x.name, x.rule)
    BY <1>2, AnswerType DEF ReadingBehind, TableBehind
  <2>2. \A n \in reading.nodes, r \in Roles : n.binding.refs[r] # NoRef =>
           RefBehind(o, n.binding.refs[r])
    BY <1>2, AnswerType DEF ReadingBehind, NodesBehind
  <2> QED BY <1>1, <1>2, <2>1, <2>2 DEF AnswerBehind, ReadingBehind, NodesBehind, RulesBehind
<1>3. ASSUME ReadingAhead(o, q, reading, pc) PROVE AnswerAhead(o, q, Answer)
  <2>1. \A x \in Answer.rules : RuleAhead(q, x.name, x.rule)
    BY <1>3, AnswerType DEF ReadingAhead, TableAhead
  <2>2. \A n \in reading.nodes, r \in Roles : n.binding.refs[r] # NoRef =>
           RefAhead(o, n.binding.refs[r])
    BY <1>3, AnswerType DEF ReadingAhead, NodesAhead
  <2> QED BY <1>1, <1>3, <2>1, <2>2 DEF AnswerAhead, ReadingAhead, NodesAhead, RulesAhead
<1> QED BY <1>2, <1>3

-----------------------------------------------------------------------------
(* The inductive invariant *)

Steps == ReadSteps \cup {"idle", "ready", "permitted", "refused"}
Reading == pc \in ReadSteps
Answering == \/ asked # NoAnswer \/ pc \in {"ready", "permitted", "refused"}
             \/ (Reading /\ reading.collecting)
Permitting == pc = "permitted" \/ (Reading /\ asked # NoAnswer)

\* The registry when a permit began is an earlier one, and the answer that the
\* permit compares with was read before it.
EarlierOK(b, o, q, a) == /\ b.objects \in ObjectTables /\ b.policies \in RuleTables
                         /\ Disjoint(b.policies)
                         /\ Grew(b.objects, o) /\ RulesGrew(b.policies, q)
                         /\ AnswerBehind(b.objects, b.policies, a)

ReadingInv == Reading => /\ ReadingTyped(reading, pc)
                         /\ ReadingBehind(objects, policies, reading, pc)
AskedInv == Answering => /\ AnswerTyped(asked) /\ AnswerBehind(objects, policies, asked)
                         /\ BaselineOK(policies, asked.goal.baseline)
EarlierInv == Permitting => EarlierOK(before, objects, policies, asked)
AgainInv == Permitting /\ Reading => ReadingAhead(before.objects, before.policies, reading, pc)
PermittedInv == pc = "permitted" => AnswerAhead(before.objects, before.policies, asked)
ControlInv == /\ pc \in Steps
              /\ ~Reading => reading = NoAnswer
              /\ pc = "idle" => asked = NoAnswer
QuestionInv == /\ TypeOK /\ ControlInv /\ BaselineOK(policies, receipt)
               /\ ReadingInv /\ AskedInv /\ EarlierInv /\ AgainInv /\ PermittedInv

LEMMA InvImpliesCurrent == QuestionInv => PermittedAnswerWasCurrent
<1>1. SUFFICES ASSUME QuestionInv, pc = "permitted"
               PROVE  AnswerCurrent(before.objects, before.policies, asked)
  BY DEF PermittedAnswerWasCurrent, AnswerCurrent
<1>2. /\ AnswerTyped(asked) /\ EarlierOK(before, objects, policies, asked)
      /\ AnswerAhead(before.objects, before.policies, asked)
  BY <1>1 DEF QuestionInv, AskedInv, EarlierInv, PermittedInv, Answering, Permitting
<1>3. /\ before.objects \in ObjectTables /\ before.policies \in RuleTables
      /\ Disjoint(before.policies) /\ AnswerBehind(before.objects, before.policies, asked)
  BY <1>2 DEF EarlierOK
<1> QED BY <1>2, <1>3, AnswerBetween

\* While the registry grows, what was read stays behind it.
LEMMA ReadingBehindGrows ==
    ASSUME NEW o \in ObjectTables, NEW o2 \in ObjectTables, Grew(o, o2),
           NEW q \in RuleTables, NEW q2 \in RuleTables, RulesGrew(q, q2),
           NEW rd, NEW step, ReadingTyped(rd, step), ReadingBehind(o, q, rd, step)
    PROVE  ReadingBehind(o2, q2, rd, step)
<1>1. NodesBehind(o2, rd)
  BY NodeBehindGrows, RefBehindGrows DEF ReadingTyped, NodesTyped, ReadingBehind, NodesBehind
<1>2. ASSUME NEW x \in rd.rules
      PROVE  /\ RuleBehind(q2, x.name, x.rule)
             /\ \A ref \in RefsIn(x.rule) : RefBehind(o2, ref)
  <2>1. x.name \in PolicyNames /\ x.rule \in Rules
    BY DEF ReadingTyped, RulesTyped, NamedRules
  <2>2. RuleBehind(q, x.name, x.rule) /\ \A ref \in RefsIn(x.rule) : RefBehind(o, ref)
    BY DEF ReadingBehind, RulesBehind
  <2>3. RuleBehind(q2, x.name, x.rule)
    BY <2>1, <2>2, RuleBehindGrows
  <2>4. \A ref \in RefsIn(x.rule) : RefBehind(o2, ref)
    BY <2>1, <2>2, RuleRefsAreCurrent, RefBehindGrows
  <2> QED BY <2>3, <2>4
<1>3. TableBehind(q2, rd, step)
  <2>1. SUFFICES ASSUME step = "walk", NEW p \in PolicyNames, rd.table[p] # NoRule
                 PROVE  RuleBehind(q2, p, rd.table[p])
    BY DEF TableBehind
  <2>2. rd.table[p] \in Rules /\ RuleBehind(q, p, rd.table[p])
    BY <2>1 DEF ReadingTyped, TableTyped, RuleTables, ReadingBehind, TableBehind
  <2> QED BY <2>2, RuleBehindGrows
<1>4. BaselineOK(q2, rd.goal.baseline)
  BY DEF ReadingBehind, BaselineOK, RulesGrew
<1> QED BY <1>1, <1>2, <1>3, <1>4 DEF ReadingBehind, RulesBehind

LEMMA AnswerBehindGrows ==
    ASSUME NEW o \in ObjectTables, NEW o2 \in ObjectTables, Grew(o, o2),
           NEW q \in RuleTables, NEW q2 \in RuleTables, RulesGrew(q, q2),
           NEW a, AnswerTyped(a), AnswerBehind(o, q, a)
    PROVE  AnswerBehind(o2, q2, a)
<1>1. ASSUME NEW n \in a.nodes
      PROVE  /\ NodeBehind(o2, n)
             /\ \A r \in Roles : n.binding.refs[r] # NoRef => RefBehind(o2, n.binding.refs[r])
  <2>1. n \in Nodes /\ \A r \in Roles : n.binding.refs[r] # NoRef => n.binding.refs[r] \in Refs
    BY DEF AnswerTyped, Nodes, Bindings
  <2>2. /\ NodeBehind(o, n)
        /\ \A r \in Roles : n.binding.refs[r] # NoRef => RefBehind(o, n.binding.refs[r])
    BY DEF AnswerBehind
  <2>3. NodeBehind(o2, n)
    BY <2>1, <2>2, NodeBehindGrows
  <2> QED BY <2>1, <2>2, <2>3, RefBehindGrows
<1>2. \A x \in a.rules : RuleBehind(q2, x.name, x.rule)
  <2>1. \A x \in a.rules : x.name \in PolicyNames /\ x.rule \in Rules
    BY DEF AnswerTyped, NamedRules
  <2> QED BY <2>1, RuleBehindGrows DEF AnswerBehind
<1>3. ASSUME NEW x \in a.matched
      PROVE  /\ RuleBehind(q2, x.name, x.rule)
             /\ \A ref \in RefsIn(x.rule) : RefBehind(o2, ref)
  <2>1. x.name \in PolicyNames /\ x.rule \in Rules
    BY DEF AnswerTyped, NamedRules
  <2>2. RuleBehind(q, x.name, x.rule) /\ \A ref \in RefsIn(x.rule) : RefBehind(o, ref)
    BY DEF AnswerBehind
  <2>3. RuleBehind(q2, x.name, x.rule)
    BY <2>1, <2>2, RuleBehindGrows
  <2>4. \A ref \in RefsIn(x.rule) : RefBehind(o2, ref)
    BY <2>1, <2>2, RuleRefsAreCurrent, RefBehindGrows
  <2> QED BY <2>3, <2>4
<1> QED BY <1>1, <1>2, <1>3 DEF AnswerBehind

\* A command of the administrator between two loads.
LEMMA FileStep ==
    ASSUME QuestionInv, TypeOK', Grew(objects, objects'), RulesGrew(policies, policies'),
           UNCHANGED question
    PROVE  QuestionInv'
<1>0. /\ objects \in ObjectTables /\ objects' \in ObjectTables
      /\ policies \in RuleTables /\ policies' \in RuleTables
  BY DEF QuestionInv, TypeOK, ObjectTables, RuleTables
<1>1. /\ pc' = pc /\ reading' = reading /\ asked' = asked /\ receipt' = receipt
      /\ before' = before
  BY DEF question
<1>2. ControlInv' /\ PermittedInv' /\ AgainInv'
  BY <1>1 DEF QuestionInv, ControlInv, PermittedInv, AgainInv, Permitting, Reading
<1>3. BaselineOK(policies, receipt)'
  BY <1>1 DEF QuestionInv, BaselineOK, RulesGrew
<1>4. ReadingInv'
  BY <1>0, <1>1, ReadingBehindGrows DEF QuestionInv, ReadingInv, Reading
<1>5. AskedInv'
  <2>1. SUFFICES ASSUME Answering
                 PROVE  /\ AnswerTyped(asked) /\ AnswerBehind(objects', policies', asked)
                        /\ BaselineOK(policies', asked.goal.baseline)
    BY <1>1 DEF AskedInv, Answering, Reading
  <2>2. /\ AnswerTyped(asked) /\ AnswerBehind(objects, policies, asked)
        /\ BaselineOK(policies, asked.goal.baseline)
    BY <2>1 DEF QuestionInv, AskedInv
  <2>3. AnswerBehind(objects', policies', asked)
    BY <1>0, <2>2, AnswerBehindGrows
  <2> QED BY <2>2, <2>3 DEF BaselineOK, RulesGrew
<1>6. EarlierInv'
  <2>1. SUFFICES ASSUME Permitting PROVE EarlierOK(before, objects', policies', asked)
    BY <1>1 DEF EarlierInv, Permitting, Reading
  <2>2. EarlierOK(before, objects, policies, asked)
    BY <2>1 DEF QuestionInv, EarlierInv
  <2>3. Grew(before.objects, objects') /\ RulesGrew(before.policies, policies')
    BY <1>0, <2>2, GrewTransitive, RulesGrewTransitive DEF EarlierOK
  <2> QED BY <2>2, <2>3 DEF EarlierOK
<1> QED BY <1>2, <1>3, <1>4, <1>5, <1>6 DEF QuestionInv

-----------------------------------------------------------------------------
(* One load at a time *)

\* A step of the question keeps the invariant, if what it read is behind the
\* registry, and ahead of an earlier one when all before it was.
LEMMA ReadStep ==
    ASSUME QuestionInv, Reading, pc' \in ReadSteps,
           UNCHANGED <<file, asked, before, receipt>>,
           reading'.goal = reading.goal, reading'.collecting = reading.collecting,
           ReadingTyped(reading', pc'), ReadingBehind(objects, policies, reading', pc'),
           \A o \in ObjectTables, q \in RuleTables :
               Grew(o, objects) /\ RulesGrew(q, policies) /\ ReadingAhead(o, q, reading, pc)
               => ReadingAhead(o, q, reading', pc')
    PROVE  QuestionInv'
<1>1. /\ objects' = objects /\ policies' = policies /\ asked' = asked
      /\ before' = before /\ receipt' = receipt
  BY DEF file
<1>2. TypeOK' /\ BaselineOK(policies, receipt)'
  BY <1>1 DEF QuestionInv, TypeOK, ValidObjects, Disjoint, Present, BaselineOK
<1>3. ControlInv'
  BY <1>1 DEF QuestionInv, ControlInv, Reading, Steps, ReadSteps
<1>4. ReadingInv'
  BY <1>1 DEF ReadingInv
<1>5. AskedInv'
  BY <1>1 DEF QuestionInv, AskedInv, Answering, Reading, ReadSteps
<1>6. EarlierInv'
  BY <1>1 DEF QuestionInv, EarlierInv, Permitting, Reading, ReadSteps
<1>7. AgainInv'
  <2>1. SUFFICES ASSUME asked # NoAnswer
                 PROVE  ReadingAhead(before.objects, before.policies, reading', pc')
    BY <1>1 DEF AgainInv, Permitting, Reading, ReadSteps
  <2>2. /\ EarlierOK(before, objects, policies, asked)
        /\ ReadingAhead(before.objects, before.policies, reading, pc)
    BY <2>1 DEF QuestionInv, EarlierInv, AgainInv, Permitting
  <2> QED BY <2>2 DEF EarlierOK
<1>8. PermittedInv'
  BY DEF PermittedInv, ReadSteps
<1> QED BY <1>2, <1>3, <1>4, <1>5, <1>6, <1>7, <1>8 DEF QuestionInv

\* Steps that add current objects to the nodes, and current references to
\* what was walked.
LEMMA NodesGrow ==
    ASSUME ObjectsOK, NEW rd, NEW rd2,
           rd.nodes \subseteq rd2.nodes, rd.walked \subseteq rd2.walked,
           \A n \in rd2.nodes \ rd.nodes : \E i \in Present(objects) : n = Node(i),
           \A ref \in rd2.walked \ rd.walked :
               /\ Holds(ref)
               /\ \E n \in rd2.nodes : n.ref.id = ref.id,
           rd.nodes \subseteq Nodes, rd.walked \subseteq Refs,
           \A ref \in rd.walked : \E n \in rd.nodes : n.ref.id = ref.id,
           NodesBehind(objects, rd)
    PROVE  /\ rd2.nodes \subseteq Nodes /\ rd2.walked \subseteq Refs
           /\ \A ref \in rd2.walked : \E n \in rd2.nodes : n.ref.id = ref.id
           /\ NodesBehind(objects, rd2)
           /\ \A o \in ObjectTables : Grew(o, objects) /\ NodesAhead(o, rd) => NodesAhead(o, rd2)
<1>1. \A n \in rd2.nodes \ rd.nodes :
          /\ n \in Nodes /\ NodeBehind(objects, n)
          /\ \A o \in ObjectTables : Grew(o, objects) => NodeAhead(o, n)
  BY NodeIsCurrent
<1>2. ASSUME NEW ref \in rd2.walked \ rd.walked
      PROVE  /\ ref \in Refs /\ RefBehind(objects, ref)
             /\ \A o \in ObjectTables : Grew(o, objects) => RefAhead(o, ref)
  <2>1. ref.id \in Present(objects) /\ RefTo(objects, ref.id) = ref
    BY DEF Holds
  <2>2. ref \in Refs /\ Resolves(objects, ref)
    BY <2>1, PresentIsObject DEF Resolves, RefTo, ObjectsOK
  <2> QED BY <2>2, RefIsCurrent
<1>3. NodesBehind(objects, rd2)
  BY <1>1, <1>2 DEF NodesBehind
<1>4. ASSUME NEW o \in ObjectTables, Grew(o, objects), NodesAhead(o, rd)
      PROVE  NodesAhead(o, rd2)
  BY <1>1, <1>2, <1>4 DEF NodesAhead
<1> QED BY <1>1, <1>2, <1>3, <1>4

\* Such a step, when it leaves the rules and the table alone.
LEMMA NodeStep ==
    ASSUME QuestionInv, Reading, pc' \in ReadSteps,
           UNCHANGED <<file, asked, before, receipt>>,
           IsReading(reading'), reading'.goal = reading.goal,
           reading'.collecting = reading.collecting,
           reading'.rules = reading.rules, reading'.table = reading.table,
           reading.nodes \subseteq reading'.nodes, reading.walked \subseteq reading'.walked,
           \A n \in reading'.nodes \ reading.nodes : \E i \in Present(objects) : n = Node(i),
           \A ref \in reading'.walked \ reading.walked :
               /\ Holds(ref)
               /\ \E n \in reading'.nodes : n.ref.id = ref.id,
           pc' # "target",
           \E n \in reading'.nodes : n.ref = reading'.target,
           pc' # "source" => \E n \in reading'.nodes : n.ref = reading'.source,
           pc' \in {"path", "table", "walk"} =>
               /\ pc \in {"path", "table", "walk"}
               /\ reading'.source = reading.source /\ reading'.target = reading.target,
           pc' = "walk" => pc = "walk"
    PROVE  QuestionInv'
<1>1. ObjectsOK /\ ReadingTyped(reading, pc) /\ ReadingBehind(objects, policies, reading, pc)
  BY DEF QuestionInv, TypeOK, ObjectsOK, ReadingInv
<1>2. /\ reading.nodes \subseteq Nodes /\ reading.walked \subseteq Refs
      /\ \A ref \in reading.walked : \E n \in reading.nodes : n.ref.id = ref.id
      /\ NodesBehind(objects, reading)
  BY <1>1 DEF ReadingTyped, NodesTyped, ReadingBehind
<1>3. /\ reading'.nodes \subseteq Nodes /\ reading'.walked \subseteq Refs
      /\ \A ref \in reading'.walked : \E n \in reading'.nodes : n.ref.id = ref.id
      /\ NodesBehind(objects, reading')
      /\ \A o \in ObjectTables :
            Grew(o, objects) /\ NodesAhead(o, reading) => NodesAhead(o, reading')
  BY <1>1, <1>2, NodesGrow
<1>4. NodesTyped(reading', pc')
  BY <1>3 DEF NodesTyped
<1>5. RulesTyped(reading', pc')
  BY <1>1 DEF ReadingTyped, RulesTyped
<1>6. TableTyped(reading', pc')
  BY <1>1 DEF ReadingTyped, TableTyped
<1>7. ReadingTyped(reading', pc')
  BY <1>4, <1>5, <1>6 DEF ReadingTyped
<1>8. ReadingBehind(objects, policies, reading', pc')
  BY <1>1, <1>3 DEF ReadingBehind, RulesBehind, TableBehind
<1>9. ASSUME NEW o \in ObjectTables, NEW q \in RuleTables, Grew(o, objects),
             ReadingAhead(o, q, reading, pc)
      PROVE  ReadingAhead(o, q, reading', pc')
  BY <1>3, <1>9 DEF ReadingAhead, RulesAhead, TableAhead
<1> QED BY <1>7, <1>8, <1>9, ReadStep

LEMMA ReadingIsTyped ==
    ASSUME QuestionInv, Reading
    PROVE  /\ IsReading(reading) /\ NodesTyped(reading, pc) /\ RulesTyped(reading, pc)
           /\ TableTyped(reading, pc) /\ ObjectsOK /\ PoliciesOK
BY DEF QuestionInv, ReadingInv, ReadingTyped, TypeOK, ObjectsOK, PoliciesOK

LEMMA ReadTargetStep == ASSUME QuestionInv, ReadTarget PROVE QuestionInv'
<1>1. /\ pc = "target" /\ pc' = "source" /\ UNCHANGED <<file, asked, before, receipt>>
  BY DEF ReadTarget, Goto
<1>2. PICK i \in Named("service", reading.goal.target) :
         reading' = [reading EXCEPT !.target = RefTo(objects, i), !.nodes = {Node(i)}]
  BY DEF ReadTarget
<1>3. i \in Present(objects)
  BY DEF Named
<1>4. /\ Reading /\ IsReading(reading) /\ reading.nodes = {}
  BY <1>1, ReadingIsTyped DEF Reading, ReadSteps, NodesTyped
<1>5. /\ IsReading(reading') /\ reading'.goal = reading.goal
      /\ reading'.collecting = reading.collecting /\ reading'.rules = reading.rules
      /\ reading'.table = reading.table /\ reading'.walked = reading.walked
      /\ reading'.nodes = {Node(i)} /\ reading'.target = RefTo(objects, i)
  BY <1>2, <1>4 DEF IsReading
<1>6. Node(i).ref = RefTo(objects, i)
  BY DEF Node
<1> QED BY <1>1, <1>3, <1>4, <1>5, <1>6, NodeStep DEF ReadSteps

LEMMA ReadSourceStep == ASSUME QuestionInv, ReadSource PROVE QuestionInv'
<1>1. /\ pc = "source" /\ pc' = "members" /\ UNCHANGED <<file, asked, before, receipt>>
  BY DEF ReadSource, Goto
<1>2. PICK i \in Named("network", reading.goal.source) :
         reading' = [reading EXCEPT !.source = RefTo(objects, i), !.nodes = @ \cup {Node(i)}]
  BY DEF ReadSource
<1>3. i \in Present(objects)
  BY DEF Named
<1>4. /\ Reading /\ IsReading(reading) /\ \E n \in reading.nodes : n.ref = reading.target
  BY <1>1, ReadingIsTyped DEF Reading, ReadSteps, NodesTyped
<1>5. /\ IsReading(reading') /\ reading'.goal = reading.goal
      /\ reading'.collecting = reading.collecting /\ reading'.rules = reading.rules
      /\ reading'.table = reading.table /\ reading'.walked = reading.walked
      /\ reading'.nodes = reading.nodes \cup {Node(i)} /\ reading'.target = reading.target
      /\ reading'.source = RefTo(objects, i)
  BY <1>2, <1>4 DEF IsReading
<1>6. Node(i).ref = RefTo(objects, i)
  BY DEF Node
<1> QED BY <1>1, <1>3, <1>4, <1>5, <1>6, NodeStep DEF ReadSteps

\* With adds the node of a reference, unless its object is there.
LEMMA WithAdds ==
    ASSUME NEW nodes, NEW ref, ref.id \in Present(objects)
    PROVE  /\ nodes \subseteq With(nodes, ref)
           /\ \A n \in With(nodes, ref) \ nodes : n = Node(ref.id)
           /\ \E n \in With(nodes, ref) : n.ref.id = ref.id
<1>1. Node(ref.id).ref.id = ref.id
  BY DEF Node, RefTo
<1> QED BY <1>1 DEF With

LEMMA ResolveStep ==
    ASSUME QuestionInv, NEW ref, NEW here, NEW next, Resolve(ref, here, next),
           <<here, next>> \in {<<"gateway", "vpn">>, <<"vpn", "control">>, <<"control", "tuples">>}
    PROVE  QuestionInv'
<1>1. /\ pc = here /\ pc' = next /\ UNCHANGED <<file, asked, before, receipt>>
  BY DEF Resolve, Goto
<1>2. /\ here \in {"gateway", "vpn", "control"} /\ next \in {"vpn", "control", "tuples"}
  OBVIOUS
<1>3. /\ Reading /\ IsReading(reading) /\ \E n \in reading.nodes : n.ref = reading.target
      /\ \E n \in reading.nodes : n.ref = reading.source
  BY <1>1, <1>2, ReadingIsTyped DEF Reading, ReadSteps, NodesTyped
<1>4. /\ IsReading(reading') /\ reading'.goal = reading.goal
      /\ reading'.collecting = reading.collecting /\ reading'.rules = reading.rules
      /\ reading'.table = reading.table /\ reading'.walked = reading.walked
      /\ reading'.target = reading.target /\ reading'.source = reading.source
      /\ reading.nodes \subseteq reading'.nodes
      /\ \A n \in reading'.nodes \ reading.nodes : \E i \in Present(objects) : n = Node(i)
  <2>1. CASE ref = NoRef
    BY <1>3, <2>1 DEF Resolve
  <2>2. CASE ref # NoRef
    <3>1. /\ ref.id \in Present(objects)
          /\ reading' = [reading EXCEPT !.nodes = With(@, ref)]
      BY <2>2 DEF Resolve, Holds, Select
    <3>2. reading' = [reading EXCEPT !.nodes = With(reading.nodes, ref)]
      BY <3>1
    <3>3. /\ IsReading(reading') /\ reading'.goal = reading.goal
          /\ reading'.collecting = reading.collecting /\ reading'.rules = reading.rules
          /\ reading'.table = reading.table /\ reading'.walked = reading.walked
          /\ reading'.target = reading.target /\ reading'.source = reading.source
          /\ reading'.nodes = With(reading.nodes, ref)
      BY <1>3, <3>2 DEF IsReading
    <3> QED BY <3>1, <3>3, WithAdds
  <2> QED BY <2>1, <2>2
<1> QED BY <1>1, <1>2, <1>3, <1>4, NodeStep DEF ReadSteps

LEMMA ReadMembersStep == ASSUME QuestionInv, ReadMembers PROVE QuestionInv'
<1>1. /\ pc = "members" /\ pc' = "gateway" /\ UNCHANGED <<file, asked, before, receipt>>
      /\ reading' = reading
  BY DEF ReadMembers, Goto
<1>2. /\ Reading /\ IsReading(reading) /\ \E n \in reading.nodes : n.ref = reading.target
      /\ \E n \in reading.nodes : n.ref = reading.source
  BY <1>1, ReadingIsTyped DEF Reading, ReadSteps, NodesTyped
<1> QED BY <1>1, <1>2, NodeStep DEF ReadSteps

LEMMA ReadPathStep == ASSUME QuestionInv, ReadPath PROVE QuestionInv'
<1>1. /\ pc = "path" /\ pc' = "table" /\ UNCHANGED <<file, asked, before, receipt>>
      /\ \A ref \in Paths : ref.id \in Present(objects)
      /\ reading' = [reading EXCEPT !.nodes = @ \cup {Node(ref.id) : ref \in Paths}]
  BY DEF ReadPath, Goto, Holds
<1>2. /\ Reading /\ IsReading(reading) /\ \E n \in reading.nodes : n.ref = reading.target
      /\ \E n \in reading.nodes : n.ref = reading.source
  BY <1>1, ReadingIsTyped DEF Reading, ReadSteps, NodesTyped
<1> DEFINE added == {Node(ref.id) : ref \in Paths}
<1>3. \A n \in added : \E i \in Present(objects) : n = Node(i)
  BY <1>1
<1>4. reading' = [reading EXCEPT !.nodes = reading.nodes \cup added]
  BY <1>1
<1> HIDE DEF added
<1>5. /\ IsReading(reading') /\ reading'.goal = reading.goal
      /\ reading'.collecting = reading.collecting /\ reading'.rules = reading.rules
      /\ reading'.table = reading.table /\ reading'.walked = reading.walked
      /\ reading'.target = reading.target /\ reading'.source = reading.source
      /\ reading'.nodes = reading.nodes \cup added
  BY <1>2, <1>4 DEF IsReading
<1> QED BY <1>1, <1>2, <1>3, <1>5, NodeStep DEF ReadSteps

LEMMA WalkStep == ASSUME QuestionInv, Walk PROVE QuestionInv'
<1>1. /\ pc = "walk" /\ pc' = "walk" /\ UNCHANGED <<file, asked, before, receipt>>
  BY DEF Walk, Goto
<1>2. PICK ref : /\ Holds(ref)
                 /\ reading' = [reading EXCEPT !.nodes = With(@, ref), !.walked = @ \cup {ref}]
  BY DEF Walk
<1>3. /\ Reading /\ IsReading(reading) /\ \E n \in reading.nodes : n.ref = reading.target
      /\ \E n \in reading.nodes : n.ref = reading.source
  BY <1>1, ReadingIsTyped DEF Reading, ReadSteps, NodesTyped
<1>4. /\ IsReading(reading') /\ reading'.goal = reading.goal
      /\ reading'.collecting = reading.collecting /\ reading'.rules = reading.rules
      /\ reading'.table = reading.table /\ reading'.walked = reading.walked \cup {ref}
      /\ reading'.target = reading.target /\ reading'.source = reading.source
      /\ reading'.nodes = With(reading.nodes, ref)
  BY <1>2, <1>3 DEF IsReading
<1>5. /\ reading.nodes \subseteq reading'.nodes
      /\ \A n \in reading'.nodes \ reading.nodes : \E i \in Present(objects) : n = Node(i)
      /\ \E n \in reading'.nodes : n.ref.id = ref.id
  BY <1>2, <1>4, WithAdds DEF Holds
<1> QED BY <1>1, <1>2, <1>3, <1>4, <1>5, NodeStep DEF ReadSteps

\* Where no tuple is in two rules, one match is a single rule.
LEMMA OneMatch ==
    ASSUME Disjoint(policies), NEW t, Cardinality(Matching(policies, t)) = 1
    PROVE  \E p \in Matching(policies, t) : TRUE
BY FS_EmptySet DEF Matching

LEMMA ResolveTuplesStep == ASSUME QuestionInv, ResolveTuples PROVE QuestionInv'
<1>1. /\ pc = "tuples" /\ pc' = "path" /\ UNCHANGED <<file, asked, before, receipt>>
  BY DEF ResolveTuples, Goto
<1> DEFINE matched == {[name |-> p, rule |-> policies[p]] :
                         p \in UNION {Matching(policies, Asked(sc)) : sc \in Scopes}}
<1>2. /\ \A sc \in Scopes : /\ Cardinality(Matching(policies, Asked(sc))) = 1
                             /\ \A p \in Matching(policies, Asked(sc)) :
                                   RuleCurrent(objects, policies[p])
      /\ reading' = [reading EXCEPT !.rules = matched]
  BY DEF ResolveTuples
<1>3. /\ Reading /\ IsReading(reading) /\ ObjectsOK /\ PoliciesOK /\ NodesTyped(reading, pc)
      /\ \E n \in reading.nodes : n.ref = reading.target
      /\ \E n \in reading.nodes : n.ref = reading.source
      /\ ReadingBehind(objects, policies, reading, pc)
  BY <1>1, ReadingIsTyped DEF Reading, ReadSteps, NodesTyped, QuestionInv, ReadingInv
<1>4. \A sc \in Scopes :
         Asked(sc) = [source |-> reading.source, endpoint |-> reading.target, scope |-> sc]
  BY <1>3 DEF Asked, SourceNode, TargetNode
<1>5. ASSUME NEW x \in matched
      PROVE  /\ x \in NamedRules /\ x.name \in PolicyNames
             /\ policies[x.name] # NoRule /\ x.rule = policies[x.name]
             /\ RuleCurrent(objects, x.rule)
  <2>1. PICK p \in PolicyNames : /\ x = [name |-> p, rule |-> policies[p]]
                                /\ \E sc \in Scopes : p \in Matching(policies, Asked(sc))
    BY DEF Matching
  <2>2. p \in PolicyNames /\ policies[p] # NoRule
    BY <2>1 DEF Matching
  <2>3. policies[p] \in Rules
    BY <2>2, RuleIsCurrent, <1>3
  <2>4. x.name = p /\ x.rule = policies[p]
    BY <2>1
  <2>5. RuleCurrent(objects, policies[p])
    BY <1>2, <2>1
  <2>6. x \in NamedRules
    BY <2>1, <2>3 DEF NamedRules
  <2> QED BY <2>2, <2>4, <2>5, <2>6
<1>6. ASSUME NEW sc \in Scopes
      PROVE  \E x \in matched :
               [source |-> reading.source, endpoint |-> reading.target, scope |-> sc] \in x.rule.tuples
  <2>1. PICK p \in Matching(policies, Asked(sc)) : TRUE
    BY <1>2, OneMatch DEF QuestionInv, TypeOK
  <2>2. [name |-> p, rule |-> policies[p]] \in matched
    OBVIOUS
  <2>3. Asked(sc) \in policies[p].tuples
    BY <2>1 DEF Matching
  <2> QED BY <1>4, <2>2, <2>3
<1> HIDE DEF matched
<1>7. /\ IsReading(reading') /\ reading'.goal = reading.goal
      /\ reading'.collecting = reading.collecting /\ reading'.rules = matched
      /\ reading'.table = reading.table /\ reading'.walked = reading.walked
      /\ reading'.target = reading.target /\ reading'.source = reading.source
      /\ reading'.nodes = reading.nodes
  BY <1>2, <1>3 DEF IsReading
<1>8. ASSUME NEW x \in matched
      PROVE  /\ RuleBehind(policies, x.name, x.rule)
             /\ \A ref \in RefsIn(x.rule) : RefBehind(objects, ref)
             /\ \A o \in ObjectTables, q \in RuleTables :
                   Grew(o, objects) /\ RulesGrew(q, policies) =>
                      /\ RuleAhead(q, x.name, x.rule)
                      /\ \A ref \in RefsIn(x.rule) : RefAhead(o, ref)
  <2>1. x.rule \in Rules
    BY <1>3, <1>5, RuleIsCurrent
  <2>2. ASSUME NEW ref \in RefsIn(x.rule)
        PROVE  /\ RefBehind(objects, ref)
               /\ \A o \in ObjectTables : Grew(o, objects) => RefAhead(o, ref)
    <3>1. ref \in Refs /\ Resolves(objects, ref)
      BY <1>5, <2>1, RuleRefsAreCurrent
    <3> QED BY <1>3, <3>1, RefIsCurrent
  <2>3. /\ RuleBehind(policies, x.name, x.rule)
        /\ \A q \in RuleTables : RulesGrew(q, policies) => RuleAhead(q, x.name, x.rule)
    BY <1>3, <1>5, RuleIsCurrent
  <2> QED BY <2>2, <2>3
<1>9. ReadingTyped(reading', pc')
  <2>1. NodesTyped(reading', pc')
    BY <1>1, <1>3, <1>7 DEF NodesTyped
  <2>2. RulesTyped(reading', pc')
    BY <1>5, <1>6, <1>7 DEF RulesTyped
  <2> QED BY <1>1, <1>7, <2>1, <2>2 DEF ReadingTyped, TableTyped
<1>10. ReadingBehind(objects, policies, reading', pc')
  BY <1>1, <1>3, <1>7, <1>8 DEF ReadingBehind, NodesBehind, RulesBehind, TableBehind
<1>11. ASSUME NEW o \in ObjectTables, NEW q \in RuleTables, Grew(o, objects),
              RulesGrew(q, policies), ReadingAhead(o, q, reading, pc)
       PROVE  ReadingAhead(o, q, reading', pc')
  BY <1>1, <1>7, <1>8, <1>11 DEF ReadingAhead, NodesAhead, RulesAhead, TableAhead
<1>12. pc' \in ReadSteps
  BY <1>1 DEF ReadSteps
<1> QED BY <1>1, <1>3, <1>7, <1>9, <1>10, <1>11, <1>12, ReadStep

LEMMA ReadTableStep == ASSUME QuestionInv, ReadTable PROVE QuestionInv'
<1>1. /\ pc = "table" /\ pc' = "walk" /\ UNCHANGED <<file, asked, before, receipt>>
      /\ reading' = [reading EXCEPT !.table = policies]
  BY DEF ReadTable, Goto
<1>2. /\ Reading /\ IsReading(reading) /\ NodesTyped(reading, pc) /\ RulesTyped(reading, pc)
      /\ PoliciesOK /\ ReadingBehind(objects, policies, reading, pc)
  BY <1>1, ReadingIsTyped DEF Reading, ReadSteps, QuestionInv, ReadingInv
<1>3. /\ IsReading(reading') /\ reading'.goal = reading.goal
      /\ reading'.collecting = reading.collecting /\ reading'.rules = reading.rules
      /\ reading'.table = policies /\ reading'.walked = reading.walked
      /\ reading'.target = reading.target /\ reading'.source = reading.source
      /\ reading'.nodes = reading.nodes
  BY <1>1, <1>2 DEF IsReading
<1>4. \A x \in reading.rules : policies[x.name] # NoRule
  BY <1>2 DEF ReadingBehind, RulesBehind, RuleBehind
<1>5. NodesTyped(reading', pc') /\ RulesTyped(reading', pc')
  BY <1>1, <1>2, <1>3 DEF NodesTyped, RulesTyped
<1>6. TableTyped(reading', pc')
  BY <1>2, <1>3, <1>4 DEF TableTyped, PoliciesOK, RuleTables, ReadingBehind
<1>7. \A p \in PolicyNames : policies[p] # NoRule =>
         /\ RuleBehind(policies, p, policies[p])
         /\ \A q \in RuleTables : RulesGrew(q, policies) => RuleAhead(q, p, policies[p])
  BY <1>2, RuleIsCurrent
<1>8. ReadingBehind(objects, policies, reading', pc')
  BY <1>2, <1>3, <1>7 DEF ReadingBehind, NodesBehind, RulesBehind, TableBehind
<1>9. ASSUME NEW o \in ObjectTables, NEW q \in RuleTables, Grew(o, objects),
             RulesGrew(q, policies), ReadingAhead(o, q, reading, pc)
      PROVE  ReadingAhead(o, q, reading', pc')
  BY <1>3, <1>7, <1>9 DEF ReadingAhead, NodesAhead, RulesAhead, TableAhead
<1>10. ReadingTyped(reading', pc') /\ pc' \in ReadSteps
  BY <1>1, <1>3, <1>5, <1>6 DEF ReadingTyped, ReadSteps
<1> QED BY <1>1, <1>2, <1>3, <1>8, <1>9, <1>10, ReadStep

-----------------------------------------------------------------------------
(* Beginning and ending a question *)

LEMMA SameFile ==
    ASSUME QuestionInv, UNCHANGED file
    PROVE  /\ objects' = objects /\ policies' = policies /\ TypeOK'
           /\ objects \in ObjectTables /\ policies \in RuleTables /\ Disjoint(policies)
BY DEF file, QuestionInv, TypeOK, ValidObjects, Disjoint, Present, ObjectTables, RuleTables

LEMMA NewReading ==
    ASSUME NEW goal, StartReading(goal), NEW o, NEW q, BaselineOK(q, goal.baseline)
    PROVE  /\ ReadingTyped(reading', "target") /\ ReadingBehind(o, q, reading', "target")
           /\ \A b, c : ReadingAhead(b, c, reading', "target")
           /\ reading'.collecting = (pc = "permitted")
<1>1. /\ IsReading(reading') /\ reading'.goal = goal /\ reading'.nodes = {}
      /\ reading'.walked = {} /\ reading'.rules = {}
      /\ reading'.collecting = (pc = "permitted")
  BY DEF StartReading, IsReading
<1>2. ReadingTyped(reading', "target")
  BY <1>1 DEF ReadingTyped, NodesTyped, RulesTyped, TableTyped
<1>3. ReadingBehind(o, q, reading', "target")
  BY <1>1 DEF ReadingBehind, NodesBehind, RulesBehind, TableBehind
<1>4. \A b, c : ReadingAhead(b, c, reading', "target")
  BY <1>1 DEF ReadingAhead, NodesAhead, RulesAhead, TableAhead
<1> QED BY <1>1, <1>2, <1>3, <1>4

LEMMA AskStep == ASSUME QuestionInv, NEW goal \in Goals, Ask(goal) PROVE QuestionInv'
<1>1. /\ pc = "idle" /\ pc' = "target" /\ StartReading(goal)
      /\ UNCHANGED <<file, asked, before, receipt>> /\ asked = NoAnswer
  BY DEF Ask, QuestionInv, ControlInv
<1>2. objects' = objects /\ policies' = policies /\ TypeOK'
  BY <1>1, SameFile
<1>3. BaselineOK(policies, goal.baseline)
  BY DEF Goals, QuestionInv, BaselineOK
<1>4. /\ ReadingTyped(reading', "target") /\ ReadingBehind(objects, policies, reading', "target")
      /\ reading'.collecting = FALSE
  BY <1>1, <1>3, NewReading
<1>5. BaselineOK(policies, receipt)'
  BY <1>1, <1>2 DEF QuestionInv, BaselineOK
<1>6. ControlInv' /\ ReadingInv'
  BY <1>1, <1>2, <1>4 DEF ControlInv, ReadingInv, Reading, Steps, ReadSteps
<1>7. ~Answering' /\ ~Permitting'
  BY <1>1, <1>4 DEF Answering, Permitting
<1> QED BY <1>1, <1>2, <1>5, <1>6, <1>7
        DEF QuestionInv, AskedInv, EarlierInv, AgainInv, PermittedInv

LEMMA BeginPermitStep == ASSUME QuestionInv, BeginPermit PROVE QuestionInv'
<1>1. /\ pc \in {"ready", "permitted"} /\ pc' = "target" /\ StartReading(asked.goal)
      /\ before' = [objects |-> objects, policies |-> policies]
      /\ UNCHANGED <<file, asked, receipt>>
  BY DEF BeginPermit
<1>2. /\ objects' = objects /\ policies' = policies /\ TypeOK'
      /\ objects \in ObjectTables /\ policies \in RuleTables /\ Disjoint(policies)
  BY <1>1, SameFile
<1>3. /\ AnswerTyped(asked) /\ AnswerBehind(objects, policies, asked)
      /\ BaselineOK(policies, asked.goal.baseline)
  BY <1>1 DEF QuestionInv, AskedInv, Answering
<1>4. /\ ReadingTyped(reading', "target") /\ ReadingBehind(objects, policies, reading', "target")
      /\ \A b, c : ReadingAhead(b, c, reading', "target")
  BY <1>1, <1>3, NewReading
<1>5. BaselineOK(policies, receipt)'
  BY <1>1, <1>2 DEF QuestionInv, BaselineOK
<1>6. ControlInv' /\ ReadingInv'
  BY <1>1, <1>2, <1>4 DEF ControlInv, ReadingInv, Reading, Steps, ReadSteps
<1>7. AskedInv'
  BY <1>1, <1>2, <1>3 DEF AskedInv
<1>8. EarlierInv'
  <2>1. Grew(objects, objects) /\ RulesGrew(policies, policies)
    BY <1>2, RevType, RuleRevType DEF Grew, RulesGrew
  <2>2. EarlierOK(before', objects, policies, asked)
    BY <1>1, <1>2, <1>3, <2>1 DEF EarlierOK
  <2> QED BY <1>1, <1>2, <2>2 DEF EarlierInv
<1>9. AgainInv' /\ PermittedInv'
  BY <1>1, <1>4 DEF AgainInv, PermittedInv
<1> QED BY <1>2, <1>5, <1>6, <1>7, <1>8, <1>9 DEF QuestionInv

LEMMA FirstAnswerStep == ASSUME QuestionInv, FirstAnswer PROVE QuestionInv'
<1>1. /\ pc = "walk" /\ pc' = "ready" /\ Answered /\ asked' = Answer /\ reading' = NoAnswer
      /\ UNCHANGED <<file, before, receipt>>
  BY DEF FirstAnswer, Answered
<1>2. objects' = objects /\ policies' = policies /\ TypeOK'
  BY <1>1, SameFile
<1>3. /\ ReadingTyped(reading, pc) /\ ReadingBehind(objects, policies, reading, pc)
  BY <1>1 DEF QuestionInv, ReadingInv, Reading, ReadSteps
<1>4. AnswerTyped(Answer) /\ AnswerBehind(objects, policies, Answer)
  BY <1>1, <1>3, AnswerType, AnswerInherits
<1>5. BaselineOK(policies, Answer.goal.baseline)
  BY <1>3 DEF Answer, ReadingBehind
<1>6. BaselineOK(policies, receipt)'
  BY <1>1, <1>2 DEF QuestionInv, BaselineOK
<1>7. ControlInv' /\ ~Reading'
  BY <1>1 DEF ControlInv, Reading, Steps, ReadSteps
<1>8. AskedInv'
  BY <1>1, <1>2, <1>4, <1>5 DEF AskedInv
<1> QED BY <1>1, <1>2, <1>6, <1>7, <1>8
        DEF QuestionInv, ReadingInv, EarlierInv, AgainInv, PermittedInv, Permitting

LEMMA PermitStep == ASSUME QuestionInv, Permit PROVE QuestionInv'
<1>1. /\ pc = "walk" /\ pc' = "permitted" /\ Answered /\ Answer = asked
      /\ asked # NoAnswer /\ reading' = NoAnswer
      /\ UNCHANGED <<file, asked, before, receipt>>
  BY DEF Permit, Answered
<1>2. objects' = objects /\ policies' = policies /\ TypeOK'
  BY <1>1, SameFile
<1>3. /\ Reading /\ Answering /\ Permitting
  BY <1>1 DEF Reading, ReadSteps, Answering, Permitting
<1>4. /\ ReadingTyped(reading, pc)
      /\ ReadingAhead(before.objects, before.policies, reading, pc)
  BY <1>3 DEF QuestionInv, ReadingInv, AgainInv
<1>5. AnswerAhead(before.objects, before.policies, asked)
  BY <1>1, <1>4, AnswerInherits
<1>6. BaselineOK(policies, receipt)'
  BY <1>1, <1>2 DEF QuestionInv, BaselineOK
<1>7. ControlInv' /\ ~Reading'
  BY <1>1 DEF ControlInv, Reading, Steps, ReadSteps
<1>8. AskedInv' /\ EarlierInv'
  BY <1>1, <1>2, <1>3 DEF QuestionInv, AskedInv, EarlierInv
<1>9. PermittedInv' /\ ReadingInv' /\ AgainInv'
  BY <1>1, <1>5, <1>7 DEF PermittedInv, ReadingInv, AgainInv
<1> QED BY <1>2, <1>6, <1>7, <1>8, <1>9 DEF QuestionInv

LEMMA SaveStep == ASSUME QuestionInv, Save PROVE QuestionInv'
<1>1. /\ pc \in {"permitted", "refused"} /\ pc' = "idle" /\ asked' = NoAnswer
      /\ receipt' = [refs |-> {n.ref : n \in asked.nodes},
                     rules |-> {[name |-> x.name, rev |-> x.rule.rev] : x \in asked.rules}]
      /\ UNCHANGED <<file, reading>>
  BY DEF Save
<1>2. objects' = objects /\ policies' = policies /\ TypeOK'
  BY <1>1, SameFile
<1>3. AnswerTyped(asked) /\ AnswerBehind(objects, policies, asked)
  BY <1>1 DEF QuestionInv, AskedInv, Answering
<1>4. \A x \in asked.rules : x.name \in PolicyNames /\ policies[x.name] # NoRule
  BY <1>3 DEF AnswerTyped, AnswerBehind, RuleBehind, NamedRules
<1>5. BaselineOK(policies, receipt)'
  BY <1>1, <1>2, <1>4 DEF BaselineOK
<1>6. ControlInv' /\ ~Reading' /\ ~Answering' /\ ~Permitting'
  <2>1. reading = NoAnswer
    BY <1>1 DEF QuestionInv, ControlInv, Reading, ReadSteps
  <2> QED BY <1>1, <2>1 DEF ControlInv, Reading, Steps, ReadSteps, Answering, Permitting
<1> QED BY <1>1, <1>2, <1>5, <1>6
        DEF QuestionInv, ReadingInv, AskedInv, EarlierInv, AgainInv, PermittedInv

LEMMA GiveUpStep == ASSUME QuestionInv, GiveUp PROVE QuestionInv'
<1>1. /\ pc \notin {"idle", "refused"} /\ reading' = NoAnswer /\ before' = NoAnswer
      /\ UNCHANGED <<file, receipt>>
  BY DEF GiveUp
<1>2. objects' = objects /\ policies' = policies /\ TypeOK'
  BY <1>1, SameFile
<1>3. BaselineOK(policies, receipt)'
  BY <1>1, <1>2 DEF QuestionInv, BaselineOK
<1>4. CASE reading # NoAnswer /\ reading.collecting
  <2>1. pc' = "refused" /\ asked' = asked
    BY <1>4 DEF GiveUp
  <2>2. Answering
    BY <1>4 DEF QuestionInv, ControlInv, Answering
  <2>3. AskedInv'
    BY <1>2, <2>1, <2>2 DEF QuestionInv, AskedInv
  <2>4. ControlInv' /\ ~Reading' /\ ~Permitting'
    BY <1>1, <2>1 DEF ControlInv, Reading, Steps, ReadSteps, Permitting
  <2> QED BY <1>2, <1>3, <2>1, <2>3, <2>4
          DEF QuestionInv, ReadingInv, EarlierInv, AgainInv, PermittedInv
<1>5. CASE ~(reading # NoAnswer /\ reading.collecting)
  <2>1. pc' = "idle" /\ asked' = NoAnswer
    BY <1>5 DEF GiveUp
  <2>2. ControlInv' /\ ~Reading' /\ ~Answering' /\ ~Permitting'
    BY <1>1, <2>1 DEF ControlInv, Reading, Steps, ReadSteps, Answering, Permitting
  <2> QED BY <1>2, <1>3, <2>1, <2>2
          DEF QuestionInv, ReadingInv, AskedInv, EarlierInv, AgainInv, PermittedInv
<1> QED BY <1>4, <1>5

LEMMA VerifyStep == ASSUME QuestionInv, Verify PROVE QuestionInv'
<1>1. ASSUME NEW goal \in Goals, Ask(goal) PROVE QuestionInv'
  BY <1>1, AskStep
<1>2. CASE ReadGateway
  BY <1>2, ResolveStep DEF ReadGateway
<1>3. CASE ReadVPN
  BY <1>3, ResolveStep DEF ReadVPN
<1>4. CASE ReadControl
  BY <1>4, ResolveStep DEF ReadControl
<1> QED BY <1>1, <1>2, <1>3, <1>4, ReadTargetStep, ReadSourceStep, ReadMembersStep,
           ResolveTuplesStep, ReadPathStep, ReadTableStep, WalkStep, FirstAnswerStep,
           BeginPermitStep, PermitStep, SaveStep, GiveUpStep
        DEF Verify

LEMMA QuestionStep == ASSUME QuestionInv, [Next]_vars PROVE QuestionInv'
<1>1. TypeOK' /\ ObjectsKept /\ PoliciesKept
  BY StepKeeps DEF QuestionInv
<1>2. ASSUME UNCHANGED question PROVE QuestionInv'
  <2>1. Grew(objects, objects') /\ RulesGrew(policies, policies')
    BY <1>1 DEF ObjectsKept, PoliciesKept, Present, Grew, RulesGrew
  <2> QED BY <1>1, <1>2, <2>1, FileStep
<1>3. CASE Mutate
  BY <1>2, <1>3 DEF Mutate, Create, Rename, Rebind, PutPolicy, Import
<1>4. CASE UNCHANGED vars
  BY <1>2, <1>4 DEF vars
<1> QED BY <1>3, <1>4, VerifyStep DEF Next

\* Whatever the administrator changes between the loads of a question, and
\* whichever questions went before, an answer that a permit confirmed is what
\* the registry said as a whole at the moment the permit began.
THEOREM PermittedAnswersAreCurrent == Spec => []PermittedAnswerWasCurrent
<1>1. Init => QuestionInv
  <2>1. SUFFICES ASSUME Init PROVE QuestionInv
    OBVIOUS
  <2>2. TypeOK
    BY <2>1 DEF Init, TypeOK, ValidObjects, Disjoint, Present
  <2>3. /\ ControlInv /\ ~Reading /\ ~Answering /\ ~Permitting
        /\ BaselineOK(policies, receipt)
    BY <2>1 DEF Init, ControlInv, Reading, Answering, Permitting, Steps, ReadSteps, BaselineOK
  <2> QED BY <2>1, <2>2, <2>3
          DEF Init, QuestionInv, ReadingInv, AskedInv, EarlierInv, AgainInv, PermittedInv
<1>2. QuestionInv /\ [Next]_vars => QuestionInv'
  BY QuestionStep
<1> QED BY <1>1, <1>2, InvImpliesCurrent, PTL DEF Spec
=============================================================================
