--------------------- MODULE MCClientInitializeResponse ---------------------
(***************************************************************************)
(* Client initialize responses for TLC.                                    *)
(***************************************************************************)
EXTENDS ClientInitializeResponse

CONSTANTS g1, g2, c1, l1

Cond(type) == [type |-> type, gate |-> None]
Pass(g)    == [type |-> "pass_gate", gate |-> g]

Rule(id, conds, delegate) ==
    [id |-> id, conditions |-> conds, percent |-> TRUE, returns |-> TRUE,
     configDelegate |-> delegate]

Enabled(rules, apps, default) ==
    [enabled |-> TRUE, rules |-> rules, entity |-> "", apps |-> apps, shared |-> FALSE,
     default |-> default]

Segment(spec)    == [spec EXCEPT !.entity = "segment"]
Experiment(spec) == [spec EXCEPT !.entity = "experiment", !.shared = TRUE]

World(a, b, c, l, app, layerOf) ==
    [gate |-> (g1 :> a @@ g2 :> b), config |-> (c1 :> c), layer |-> (l1 :> l),
     apps |-> [none |-> "", key |-> app], layerOf |-> (c1 :> layerOf)]

First ==
    World(Enabled(<<Rule("r1", <<Pass(g2), Pass(g2)>>, None)>>, {"a1"}, "empty"),
          Enabled(<<Rule("r1", <<Cond("in_list")>>, None)>>, {}, "empty"),
          Experiment(Enabled(<<Rule("r1", <<Pass(g2)>>, None)>>, {"a1"}, "map")),
          Enabled(<<Rule("r1", <<Pass(g1)>>, c1)>>, {"a1"}, "map"), "a1", l1)

\* g1 is gone, g2 a segment, the experiment has left its layer and the app.
Second ==
    World(None, Segment(Enabled(<<Rule("r2", <<>>, None)>>, {"a1"}, "empty")),
          Experiment(Enabled(<<Rule("r2", <<Cond("unsupported")>>, None)>>, {}, "empty")),
          Enabled(<<>>, {"a1"}, "map"), "", None)

\* The gates refer to each other.
Circle ==
    World(Enabled(<<Rule("r3", <<Pass(g2)>>, None)>>, {"a1"}, "empty"),
          Enabled(<<Rule("r3", <<Pass(g1)>>, None)>>, {"a1"}, "empty"),
          None, Enabled(<<Rule("r3", <<>>, c1)>>, {"a1"}, "map"), "a1", None)

\* The layer's default value is null: the experiment has a value or none, or
\* is one to be fetched.
NullLayer(cond) ==
    World(None, None,
          Experiment(Enabled(<<Rule("r4", <<Cond(cond)>>, None)>>, {"a1"}, "null")),
          Enabled(<<Rule("r4", <<>>, c1)>>, {"a1"}, "null"), "a1", l1)

MCWorlds ==
    {{First, Second}, {First, Circle}, {First, NullLayer("in_list")},
     {NullLayer("in_list"), NullLayer("unsupported")}}

MCMaxChanges(w) == 1
=============================================================================
