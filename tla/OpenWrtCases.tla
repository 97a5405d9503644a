--------------------------- MODULE OpenWrtCases ---------------------------
(***************************************************************************)
(* Small instances of OpenWrtReader: bindings of every shape, and for each *)
(* of them routers whose chains vary where that binding is interesting.    *)
(***************************************************************************)
EXTENDS OpenWrtPolicy

Wg == "wg"
Wan == "wan"

\* A rule from its selectors, its effect and what it depends on.
Exact == <<"this", "this", "this">>
All == <<"any", "any", "any">>
Selectors == {Exact, All, <<"this", "set", "this">>, <<"other", "this", "this">>,
              <<"within", "any", "any">>, <<"beyond", "any", "any">>, <<"this", "within", "any">>,
              <<"this", "other", "any">>, <<"any", "this", "other">>, <<"any", "any", "wild">>}
R(sel, does, notOut) ==
    [saddr |-> sel[1], daddr |-> sel[2], iifname |-> sel[3], notOut |-> notOut, plain |-> TRUE,
     does |-> does, mark |-> {"a"}, to |-> "sub"]
Drop == R(Exact, "drop", NoInterface)
Odd == [Drop EXCEPT !.plain = FALSE]
Out == [R(Exact, "jump", NoInterface) EXCEPT !.to = "unbound"]
SetMark == R(Exact, "mark", NoInterface)
Remark == [SetMark EXCEPT !.mark = {"a", "b"}]

C(rules) == [asBound |-> TRUE, policy |-> "accept", rules |-> rules]

Jump == R(All, "jump", NoInterface)

\* Lists of one rule of each shape, followed by nothing or by one more.
Lists(does, outs, more) ==
    {<<R(sel, d, o)>> \o m : sel \in Selectors, d \in does, o \in outs, m \in more}
    \cup {<<Odd>>, <<Out>>, <<>>}

Named(name, role, hook, priority) == [name |-> name, role |-> role, hook |-> hook, priority |-> priority]
Bind(chains) == [chains |-> chains, set |-> FALSE, stored |-> 0, source |-> TRUE,
                 sourceLogical |-> TRUE, vpn |-> Wg]

Plain == [c \in Chains |-> C(IF c = "unbound" THEN <<Drop>> ELSE <<>>)]
Row1 == [priority |-> 1, src |-> "in", dst |-> "in", iif |-> "any", mark |-> {"a"}, mask |-> {"a"},
         table |-> "vpn", plain |-> TRUE]
Row2 == [Row1 EXCEPT !.priority = 2, !.mark = {}, !.mask = {}, !.table = "main"]
AnyRouter == [status |-> "bound", chains |-> Plain, set |-> "scalar", member |-> TRUE,
              rows |-> {Row1, Row2}, routes |-> [vpn |-> Wg, main |-> Wan]]

Loads(b, routers) == {<<b, r>> : r \in routers}

\* A forwarding chain, alone or with one that it calls.
Fwd == Named("fwd", "forwarding", "forward", 0)
Alone == [Bind(<<Fwd>>) EXCEPT !.set = TRUE]
Forwarding == [Alone EXCEPT !.chains = <<Fwd, Named("sub", "forwarding", "none", 0)>>]
Members == {<<"scalar", TRUE>>, <<"scalar", FALSE>>, <<"odd", TRUE>>}
ForwardingRouters(does, subs) ==
    {[AnyRouter EXCEPT !.chains["fwd"] = [C(l) EXCEPT !.policy = p], !.chains["sub"] = C(sub),
                       !.set = m[1], !.member = m[2]] :
        l \in Lists(does, {NoInterface, Wg}, {<<>>, <<Drop>>}), p \in {"accept", "drop"},
        sub \in subs, m \in Members}
Subs == {<<>>, <<Drop>>, <<R(All, "return", NoInterface), Drop>>, <<R(All, "accept", NoInterface)>>,
         <<R(All, "drop", Wg)>>, <<R(All, "return", Wg), Drop>>, <<Odd>>}

\* A guard behind the forwarding chain, alone or with one that it calls.
Grd == Named("grd", "guard", "forward", 1)
Guarded == Bind(<<Fwd, Grd>>)
Calling == Bind(<<Fwd, Grd, Named("sub", "guard", "none", 0)>>)
GuardRouters(lists, subs) ==
    {[AnyRouter EXCEPT !.chains["fwd"] = C(f), !.chains["grd"] = C(l), !.chains["sub"] = C(sub)] :
        f \in {<<>>, <<Drop>>}, l \in lists, sub \in subs}
Guards == Lists({"accept", "drop", "jump", "return"}, {NoInterface, Wg, Wan}, {<<>>, <<Drop>>})

\* A classifier that may call another chain, one more after it, and the routing policy.
Pre == Named("pre", "classifier", "prerouting", 0)
Changing == Bind(<<Pre, Fwd>>)
Classifier == Bind(<<Pre, Named("sub", "classifier", "none", 0),
                     Named("grd", "classifier", "prerouting", 1), Fwd>>)
RowSets == {{Row1, Row2}, {Row2}, {Row1, [Row1 EXCEPT !.table = "main"]},
            {[Row2 EXCEPT !.priority = 0, !.src = "out"], Row1},
            {[Row1 EXCEPT !.iif = "other"], Row2}, {[Row1 EXCEPT !.plain = FALSE], Row2},
            {[Row1 EXCEPT !.dst = "odd"], Row2}, {[Row1 EXCEPT !.mask = {"a", "b"}], Row2},
            {[Row1 EXCEPT !.src = "out", !.table = "main"], [Row2 EXCEPT !.plain = FALSE]}}
ClassifierRouters(lists, subs, later, rows) ==
    {[AnyRouter EXCEPT !.chains["pre"] = C(l), !.chains["sub"] = C(sub), !.chains["grd"] = C(p),
                       !.rows = r] : l \in lists, sub \in subs, p \in later, r \in rows}
Marking == Lists({"mark", "drop", "accept", "return"}, {NoInterface, Wg}, {<<>>, <<SetMark>>})
Called == {<<>>, <<Remark>>, <<R(All, "return", NoInterface), Remark>>, <<R(Exact, "mark", Wg)>>}

\* Bindings that are refused or cannot be understood as a whole.
Depths == <<"fwd", "sub", "pre", "grd", "cls">>
Steps == [AnyRouter EXCEPT !.chains =
            [c \in Chains |-> CASE c = "fwd" -> C(<<R(All, "jump", NoInterface)>>)
                                [] c = "sub" -> C(<<[R(All, "jump", NoInterface) EXCEPT !.to = "pre"]>>)
                                [] c = "pre" -> C(<<[R(All, "jump", NoInterface) EXCEPT !.to = "grd"]>>)
                                [] c = "grd" -> C(<<[R(All, "jump", NoInterface) EXCEPT !.to = "cls"]>>)
                                [] OTHER -> C(<<Drop>>)]]
Others ==
    {<<[Bind(<<Fwd>>) EXCEPT !.stored = 8], AnyRouter>>,
     <<[Bind(<<Fwd>>) EXCEPT !.stored = 1], AnyRouter>>,
     <<[Bind(<<Fwd>>) EXCEPT !.source = FALSE, !.sourceLogical = FALSE], AnyRouter>>,
     <<[Bind(<<Fwd, Named("pre", "classifier", "prerouting", 0)>>) EXCEPT !.sourceLogical = FALSE],
       [AnyRouter EXCEPT !.chains["pre"] = C(<<SetMark>>)]>>,
     <<Bind(<<>>), AnyRouter>>,
     <<Bind(<<Fwd>>), [AnyRouter EXCEPT !.status = "other"]>>,
     <<Bind(<<Fwd>>), [AnyRouter EXCEPT !.chains["fwd"].asBound = FALSE]>>,
     <<Bind(<<Fwd, Named("grd", "guard", "prerouting", 0)>>), AnyRouter>>,
     <<Bind(<<Fwd, Named("grd", "guard", "forward", 0)>>), AnyRouter>>,
     <<Bind(<<Pre, Fwd, Named("grd", "guard", "prerouting", 1)>>),
       [AnyRouter EXCEPT !.chains["pre"] = C(<<SetMark>>), !.chains["grd"] = C(<<Remark>>)]>>,
     <<Bind(<<Fwd, Named("pre", "classifier", "output", 0)>>), [AnyRouter EXCEPT !.chains["pre"] = C(<<SetMark>>)]>>,
     <<Bind(<<Fwd, Named("sub", "guard", "none", 0)>>),
       [AnyRouter EXCEPT !.chains["fwd"] = C(<<R(All, "jump", NoInterface)>>), !.chains["sub"] = C(<<Drop>>)]>>,
     <<Bind([i \in 1..5 |-> Named(Depths[i], "forwarding", IF i = 1 THEN "forward" ELSE "none", 0)]), Steps>>,
     <<Bind([i \in 1..4 |-> Named(Depths[i], "forwarding", IF i = 1 THEN "forward" ELSE "none", 0)]),
       [Steps EXCEPT !.chains["grd"] = C(<<Drop>>)]>>}

\* What an administrator turns into each other: a mark, a row of the policy, the route itself.
Edited == {[AnyRouter EXCEPT !.chains["pre"] = C(l), !.rows = rows, !.routes["vpn"] = dev] :
             l \in {<<SetMark>>, <<Remark>>}, rows \in {{Row1, Row2}, {Row2}}, dev \in {Wg, Wan}}

\* A called chain that returns for whatever does not leave through the VPN, and drops the rest.
Returning ==
    Loads(Forwarding,
          {[AnyRouter EXCEPT !.chains["fwd"] = C(<<R(All, "jump", NoInterface)>>),
                             !.chains["sub"] = C(<<R(sel, "return", o), Drop>>)] :
             sel \in {All, Exact}, o \in {NoInterface, Wg}})

Everything ==
    Loads(Alone, ForwardingRouters({"accept", "drop", "return", "mark"}, {<<>>}))
    \cup Loads(Forwarding, ForwardingRouters({"jump"}, Subs))
    \cup UNION {Loads([Guarded EXCEPT !.vpn = v], GuardRouters(Guards, {<<>>})) : v \in {Wg, NoInterface}}
    \cup Loads(Calling, GuardRouters({<<Jump>>, <<Jump, Drop>>, <<R(All, "jump", Wg)>>}, Guards))
    \cup Loads(Changing, ClassifierRouters(Marking, {<<>>}, {<<>>}, RowSets))
    \cup Loads(Classifier, ClassifierRouters({<<Jump>>, <<SetMark, Jump>>}, Called,
                                             {<<>>, <<Remark>>, <<Odd>>, <<Drop>>}, RowSets))
    \cup Loads(Changing, Edited) \cup Others
=============================================================================
