--------------------------- MODULE OpenWrtReader ---------------------------
(***************************************************************************)
(* How the adapter for OpenWrt reads a router                              *)
(* (internal/netpolicy/openwrt_read.go): every part with a call of its     *)
(* own, each under a new permit; then the stored values; then every part   *)
(* again, and only if both samples agree they become facts.  The           *)
(* administrator may load other rules between any two calls.               *)
(*                                                                         *)
(* The stored values are read and kept apart, they are no facts.           *)
(***************************************************************************)
EXTENDS OpenWrtPolicy

CONSTANTS Configurations, \* pairs of a binding and a router to begin with
          Versions,       \* routers that an administrator turns into each other
          MaxEdits, ReadLimit

VARIABLES router, binding,
          permitted,       \* the grant and the registry still allow network.read
          pc, at,          \* the phase, and the next call in it
          sample, first,   \* the sample being read; the first one
          used,            \* calls made
          facts,           \* what is published
          mid,             \* history: the router when the first sample was complete
          past, undone,    \* history: what each part was before; a part is again what it was
          edits

vars == <<router, binding, permitted, pc, at, sample, first, used, facts, mid, past, undone, edits>>
history == <<mid, past, undone, edits>>

Empty == [p \in {} |-> "none"]
With(s, p, v) == [q \in DOMAIN s \cup {p} |-> IF q = p THEN v ELSE s[q]]

\* The parts of a sample, in the order of the calls; the route follows when the mark is known.
Fixed(b) ==
    <<Status>> \o [i \in DOMAIN b.chains |-> ChainPart(b.chains[i].name)]
               \o (IF b.set THEN <<SetPart, Member>> ELSE <<>>)
               \o (IF b.source THEN <<Rows>> ELSE <<>>)

Plan(b) == 2 * (1 + Len(b.chains)) + 1 + 3 * b.stored
           + (IF b.set THEN 4 ELSE 0) + (IF b.source THEN 4 ELSE 0)

\* An answer to the question for an element may be no positive one although it is a member.
Answers(r, p) == {View(r)[p]} \cup (IF p = Member THEN {FALSE} ELSE {})

Call == permitted /\ used < ReadLimit /\ used' = used + 1

Begin ==
    /\ pc = "idle"
    /\ pc' = IF Plan(binding) > ReadLimit THEN "refused" ELSE "first"
    /\ UNCHANGED <<router, binding, permitted, at, sample, first, used, facts, history>>

Sampling == pc \in {"first", "second"}
Mark == Normalize(binding, sample).mark
Marked == Mark # NoMark /\ Mark \in Marks

ReadPart ==
    /\ Sampling /\ at <= Len(Fixed(binding))
    /\ Call
    /\ \E v \in Answers(router, Fixed(binding)[at]) : sample' = With(sample, Fixed(binding)[at], v)
    /\ at' = at + 1
    /\ UNCHANGED <<router, binding, permitted, pc, first, facts, history>>

\* Fault: the samples are not compared.
Finish_Unchecked(s) ==
    /\ sample' = Empty /\ at' = 1
    /\ IF pc = "first"
       THEN first' = s /\ mid' = router /\ pc' = "stored" /\ UNCHANGED facts
       ELSE /\ pc' = "accepted" /\ facts' = Normalize(binding, first)
            /\ UNCHANGED <<first, mid>>
    /\ UNCHANGED <<router, binding, permitted, past, undone, edits>>

\* A sample is complete; the second one must be the first again.
Finish(s) ==
    /\ sample' = Empty /\ at' = 1
    /\ IF pc = "first"
       THEN first' = s /\ mid' = router /\ pc' = "stored" /\ UNCHANGED facts
       ELSE /\ pc' = IF s = first THEN "accepted" ELSE "refused"
            /\ facts' = IF s = first THEN Normalize(binding, first) ELSE NoFacts
            /\ UNCHANGED <<first, mid>>
    /\ UNCHANGED <<router, binding, permitted, past, undone, edits>>

AllRead == Sampling /\ at > Len(Fixed(binding))

ReadRoute ==
    /\ AllRead /\ Marked
    /\ Call
    /\ Asked(router, Mark) # NoRoute
    /\ Finish(With(sample, RoutePart(Mark), Asked(router, Mark)))

NoRouteAsked == AllRead /\ ~Marked /\ Finish(sample) /\ UNCHANGED used

\* The device of the network, and three fields of each section.
ReadStored ==
    /\ pc = "stored"
    /\ Call
    /\ IF at < 1 + 3 * binding.stored THEN at' = at + 1 /\ UNCHANGED pc
                                      ELSE at' = 1 /\ pc' = "second"
    /\ UNCHANGED <<router, binding, permitted, sample, first, facts, history>>

\* A call is refused, fails, takes too long or answers too much.
CallFails ==
    /\ pc \in {"first", "stored", "second"} /\ (AllRead => Marked)
    /\ pc' = "refused"
    /\ UNCHANGED <<router, binding, permitted, at, sample, first, used, facts, history>>

Revoke ==
    /\ permitted /\ permitted' = FALSE
    /\ UNCHANGED <<router, binding, pc, at, sample, first, used, facts, history>>

\* Other rules are loaded, or the routes change.
Edit ==
    /\ pc \in {"first", "stored", "second"} /\ edits < MaxEdits
    /\ router \in Versions
    /\ \E r \in Versions \ {router} :
         LET changed == {p \in Parts : View(r)[p] # View(router)[p]}
         IN /\ router' = r
            /\ past' = [p \in Parts |-> IF p \in changed THEN past[p] \cup {View(router)[p]} ELSE past[p]]
            /\ undone' = (undone \/ \E p \in changed : View(r)[p] \in past[p])
    /\ edits' = edits + 1
    /\ UNCHANGED <<binding, permitted, pc, at, sample, first, used, facts, mid>>

Init ==
    /\ \E c \in Configurations : binding = c[1] /\ router = c[2]
    /\ permitted = TRUE /\ pc = "idle" /\ at = 1 /\ sample = Empty /\ first = Empty /\ used = 0
    /\ facts = NoFacts
    /\ mid = router /\ past = [p \in Parts |-> {}] /\ undone = FALSE /\ edits = 0

Next == Begin \/ ReadPart \/ ReadRoute \/ NoRouteAsked \/ ReadStored \/ CallFails \/ Revoke \/ Edit

Spec == Init /\ [][Next]_vars

-----------------------------------------------------------------------------
(* Properties                                                              *)

\* Both samples agree, so what was accepted was all there at one moment between them, unless
\* something was changed and changed back meanwhile.
SnapshotWasTrue ==
    pc = "accepted" /\ ~undone =>
        \A p \in DOMAIN first : first[p] \in Answers(mid, p)

\* What the published facts say of packets that leave through `out', at that moment: dropped
\* when forwarding is refused; not dropped, but for where they leave, when it is allowed.
ForwardingHolds(out) ==
    /\ facts.forwarding = "dropped" => \E c \in ForwardRoots(binding, "forwarding") : Drops(mid, c, out)
    /\ facts.forwarding = "allowed" =>
           \A c \in ForwardRoots(binding, "forwarding") : Kernel(mid, c, out).verdict # "drop"

\* With a guard, whatever leaves elsewhere than through the VPN is dropped.
GuardHolds(out) ==
    facts.guard /\ out # binding.vpn => \E c \in ForwardRoots(binding, "guard") : Drops(mid, c, out)

\* docs/superpowers/plans/2026-10-15-openwrt-gateway-evidence.md:113, "ambiguous conditional
\* return and unsupported verdict paths => unknown": what is published is so wherever the
\* packets leave.
PolicyIsTrue == pc = "accepted" /\ ~undone => \A out \in Interfaces : ForwardingHolds(out) /\ GuardHolds(out)

\* What keeps that from being so: rules that name interfaces by a pattern are taken as rules
\* for others, and the interface that a jump or a return excepts is not looked at.
AsRead(out, role) == NamesInterfaces(binding, mid) /\ out \notin Exits(binding, mid, role)

\* Without them the published state of forwarding is what the forwarding chains do with every
\* packet of the question, although only the rules were read, and a published guard keeps
\* every such packet from leaving elsewhere than through the VPN.
FiltersAreTrue ==
    pc = "accepted" /\ ~undone =>
        \A out \in Interfaces : /\ AsRead(out, "forwarding") => ForwardingHolds(out)
                                /\ AsRead(out, "guard") => GuardHolds(out)

\* A chain of another role in prerouting is not walked and may mark once more: then the scope
\* of what is published is not, but the route is.
OnlyClassified == \A x \in Prerouting(binding) : x.role = "classifier"

\* The mark that is looked up is the one the classifier leaves, and no packet of the question
\* that has it is routed elsewhere than the reader was told.
RouteIsTrue ==
    /\ facts.route /\ ~undone
    /\ OnlyClassified /\ NamesInterfaces(binding, mid) /\ Exits(binding, mid, "classifier") = {}
    => /\ LeavesMark(binding, mid, facts.mark)
       /\ \A special \in SUBSET Special(mid) : Lookup(mid, facts.mark, special).dev = facts.dev
=============================================================================
