---------------------------- MODULE MCEvaluator ----------------------------
(***************************************************************************)
(* The evaluator for TLC: two gates that may refer to each other and to    *)
(* themselves, a config they delegate to, and a layer.  Rules named r2     *)
(* return an empty value.                                                  *)
(***************************************************************************)
EXTENDS Evaluator

CONSTANTS g1, g2, c1, l1

Cond(type) == [type |-> type, gate |-> None]
Pass(g)    == [type |-> "pass_gate", gate |-> g]
Fail(g)    == [type |-> "fail_gate", gate |-> g]

Rule(id, conds, percent, delegate) ==
    [id |-> id, conditions |-> conds, percent |-> percent, returns |-> id # "r2",
     configDelegate |-> delegate]

Enabled(rules) ==
    [enabled |-> TRUE, rules |-> rules, entity |-> "", apps |-> {}, shared |-> FALSE,
     default |-> "map"]

Disabled == [Enabled(<<Rule("r1", <<>>, TRUE, None)>>) EXCEPT !.enabled = FALSE,
                                                            !.default = "empty"]

\* Gates with one rule of two conditions, and with two rules.
OneRule(c, d) == Enabled(<<Rule("r1", <<c, d>>, TRUE, None)>>)
TwoRules(c, d) == Enabled(<<Rule("r1", <<c>>, FALSE, None), Rule("r2", <<d>>, TRUE, None)>>)

GateSpecs(other) ==
    {None, Disabled, Enabled(<<>>), OneRule(Cond("public"), Cond("true"))}
    \cup {OneRule(Pass(other), c) : c \in {Fail(other), Cond("in_list"), Cond("not_a_name")}}
    \cup {OneRule(c, Fail(other)) : c \in {Cond("unsupported"), Cond("nil_in_list")}}
    \cup {TwoRules(Fail(other), c) : c \in {Pass(other), Cond("unsupported"), Cond("public")}}
    \cup {TwoRules(Cond("not_in_list"), Pass(other)), TwoRules(Cond("false"), Fail(other))}

ConfigSpecs ==
    {None, Enabled(<<Rule("r1", <<Pass(g1)>>, TRUE, None), Rule("r2", <<Fail(g2)>>, TRUE, None)>>),
     Enabled(<<Rule("r1", <<Cond("unsupported")>>, FALSE, None)>>),
     Enabled(<<Rule("r2", <<Fail(g2)>>, TRUE, c1)>>), Disabled}

LayerSpecs ==
    {Enabled(<<Rule("r1", <<Fail(g1)>>, TRUE, c1), Rule("r2", <<Pass(g2)>>, FALSE, c1)>>),
     Enabled(<<Rule("r1", <<Pass(g2)>>, TRUE, None), Rule("r2", <<>>, FALSE, c1)>>)}

World(a, b, c, l) ==
    [gate |-> (g1 :> a @@ g2 :> b), config |-> (c1 :> c), layer |-> (l1 :> l)]

\* Every combination, one generation each: nothing changes.
MCGraphs ==
    {{World(a, b, c, l)} :
        a \in GateSpecs(g2), b \in GateSpecs(g1) \cup {OneRule(Pass(g2), Fail(g2))},
        c \in ConfigSpecs, l \in LayerSpecs}

\* Two generations: a sync turns a chain of gates into a circle, makes the
\* delegate appear or disappear, or takes a gate away.
MCGenerations ==
    LET chain == World(OneRule(Pass(g2), Cond("true")), TwoRules(Cond("in_list"), Cond("public")),
                       Enabled(<<Rule("r1", <<Pass(g1)>>, TRUE, None)>>),
                       Enabled(<<Rule("r1", <<Fail(g1)>>, TRUE, None),
                                 Rule("r2", <<>>, TRUE, c1)>>))
        circle == World(OneRule(Pass(g2), Fail(g2)), TwoRules(Fail(g1), Pass(g1)), None,
                        Enabled(<<Rule("r3", <<Pass(g2)>>, TRUE, c1)>>))
        gone == World(None, Disabled, Enabled(<<Rule("r4", <<>>, TRUE, c1)>>),
                      Enabled(<<Rule("r4", <<Fail(g2)>>, TRUE, c1)>>))
    IN  {{chain, circle}, {circle, gone}}

MCWorlds == MCGraphs \cup MCGenerations

MCMaxChanges(w) == IF w \in MCGenerations THEN 2 ELSE 0
=============================================================================
