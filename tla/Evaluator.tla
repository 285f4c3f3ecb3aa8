----------------------------- MODULE Evaluator -----------------------------
(***************************************************************************)
(* evaluator.go: evaluation of gates, configs and layers, while syncs      *)
(* replace the specs, ID lists change and the application sets overrides.  *)
(*                                                                         *)
(* The code recurses: evalGate, eval, evalRule, evalCondition, evalGate... *)
(* Here a thread has an explicit stack with a frame per eval, and a step   *)
(* per read of shared state: an override (under e.mu), a spec (under the   *)
(* store's lock), an ID list.  Everything in between is local.             *)
(*                                                                         *)
(* One user is evaluated.  What a rule's percentage (evalPassPercent) and  *)
(* a comparison (module Conditions) come to for that user is part of the   *)
(* spec.  Reason and times of an evaluation are in module ConfigStore.     *)
(***************************************************************************)
EXTENDS Integers, Sequences, SequencesExt

CONSTANTS
    Threads,
    Gates, Configs, Layers,     \* names
    None,                       \* no spec, no override, no name
    Worlds,         \* sets of generations of specs that syncs may bring
    MaxDepth,       \* maxRecursiveDepth
    MaxChanges(_)   \* bound: syncs, overrides and changes of the ID list, by world

Kinds == {"gate", "config", "layer"}

NamesOf == [gate |-> Gates, config |-> Configs, layer |-> Layers]

ConditionTypes ==
    {"public", "pass_gate", "fail_gate",
     "not_a_name",                  \* a gate condition whose target is no string
     "true", "false",               \* a comparison, by its outcome
     "in_list", "not_in_list",      \* in_segment_list, not_in_segment_list
     "nil_in_list",                 \* one of these with a nil value
     "unsupported"}                 \* type or operator not known here

\* What asks for a gate has its name.
Conditions ==
    {c \in [type : ConditionTypes, gate : Gates \cup {None}] :
        c.type \in {"pass_gate", "fail_gate"} => c.gate # None}

Rules ==
    [id : STRING, conditions : Seq(Conditions),
     percent : BOOLEAN,                         \* evalPassPercent for the user
     returns : BOOLEAN,                         \* ReturnValue has entries
     configDelegate : Configs \cup {None}]

\* Entity in lower case; "" is any that is not asked for.
Entities == {"segment", "holdout", "experiment", ""}

\* default is what the DefaultValue unmarshals to: a map with entries, one
\* without (also if that fails), or nil.  entity, apps (TargetAppIDs) and
\* shared (HasSharedParams) matter for client initialize responses.
Specs ==
    [enabled : BOOLEAN, rules : Seq(Rules), entity : Entities, apps : SUBSET STRING,
     shared : BOOLEAN, default : {"map", "empty", "null"}]

\* A generation maps kinds and names to specs: the maps one sync swaps in.
\* It may hold more (app ids, layers of experiments) for other modules.
IsGeneration(g) == \A k \in Kinds : g[k] \in [NamesOf[k] -> Specs \cup {None}]

ASSUME EvaluatorAssumption ==
    /\ MaxDepth \in Nat
    /\ \A w \in Worlds : MaxChanges(w) \in Nat
    /\ \A g \in UNION Worlds : IsGeneration(g)
    /\ None \notin Gates \cup Configs \cup Layers

VARIABLES
    world,      \* the generations syncs may bring
    store,      \* the generation being served
    overrides,  \* [kind -> [name -> override]]
    idList,     \* the one ID list: whether the user is in it, or its state
    ev,         \* [thread -> evaluation]
    changes     \* bound: changes so far

sharedVars == <<world, store, overrides, idList, changes>>
vars == <<sharedVars, ev>>

\* Ids of rules and values, the evaluator's own ones too; None is the empty string.
IDs == STRING \cup {"override", "default", "disabled", None}

Exposures == [gate : Gates, value : BOOLEAN, ruleID : IDs]

\* evalResult.  A value is named after the rule or default that gave it; None
\* is one without entries, which gates and results to be fetched have too.
Results ==
    [pass : BOOLEAN, id : IDs, fetch : BOOLEAN, value : IDs,
     exposures : Seq(Exposures), undelegated : Seq(Exposures),
     delegate : Configs \cup {None}]

NoResult ==
    [pass |-> FALSE, id |-> None, fetch |-> FALSE, value |-> None,
     exposures |-> <<>>, undelegated |-> <<>>, delegate |-> None]

Frames ==
    [kind : Kinds, spec : Specs, depth : Nat, rule : Nat, cond : Nat,
     pass : BOOLEAN, fetch : BOOLEAN, ruleExposures : Seq(Exposures),
     exposures : Seq(Exposures)]

IdListStates == {"absent", "nilIds", "in", "out"}

Overrides == BOOLEAN \cup {None}

TypeOK ==
    /\ world \in Worlds /\ store \in world
    /\ \A k \in Kinds : overrides[k] \in [NamesOf[k] -> Overrides]
    /\ idList \in IdListStates
    /\ changes \in 0..MaxChanges(world)
    /\ \A t \in Threads :
        /\ ev[t].at \in {"idle", "override", "lookup", "eval", "delegate", "return",
                         "done", "panicked"}
        /\ ev[t].result \in Results
        /\ ev[t].stack \in Seq(Frames)
        /\ ev[t].quiet \in BOOLEAN
        /\ ev[t].kind \in Kinds /\ ev[t].name \in NamesOf[ev[t].kind] \cup {None}

Idle ==
    [at |-> "idle", kind |-> "gate", name |-> None, depth |-> 0,
     stack |-> <<>>, result |-> NoResult,
     call |-> <<"gate", None>>,     \* history: what was asked for
     quiet |-> TRUE]                \* history: nothing it could read has changed

Init ==
    /\ world \in Worlds
    /\ store \in world
    /\ overrides = [k \in Kinds |-> [n \in NamesOf[k] |-> None]]
    /\ idList \in IdListStates
    /\ ev = [t \in Threads |-> Idle]
    /\ changes = 0

-----------------------------------------------------------------------------
(***************************************************************************)
(* The steps of an evaluation e, as new values of e.                       *)
(***************************************************************************)
Panic(e) == [e EXCEPT !.at = "panicked", !.stack = <<>>]

Return(e, result) == [e EXCEPT !.at = "return", !.result = result]

Pop(e) == [e EXCEPT !.stack = Front(@)]

\* Mutant: the limit is checked one level late.
TooDeepLate(depth) == depth > MaxDepth + 1

TooDeep(depth) == depth > MaxDepth

\* Entering eval: the depth check.
Enter(e, kind, spec, depth) ==
    IF TooDeep(depth) THEN Panic(e)
    ELSE [e EXCEPT !.at = "eval",
                   !.stack = Append(@, [kind |-> kind, spec |-> spec, depth |-> depth,
                                        rule |-> 1, cond |-> 1, pass |-> TRUE, fetch |-> FALSE,
                                        ruleExposures |-> <<>>, exposures |-> <<>>])]

\* evalGate, evalConfig or evalLayer begins; kind and name are remembered.
Begin(e, kind, name, depth) ==
    [e EXCEPT !.at = "override", !.kind = kind, !.name = name, !.depth = depth]

OverrideResult(kind, o) ==
    [NoResult EXCEPT !.pass = IF kind = "gate" THEN o ELSE TRUE, !.id = "override",
                     !.value = IF kind = "gate" THEN None ELSE "override"]

\* Mutant: overrides count for the name that was asked for only.
ReadOverrideTop(e) ==
    LET o == overrides[e.kind][e.name]
    IN  IF o # None /\ e.stack = <<>> THEN Return(e, OverrideResult(e.kind, o))
        ELSE [e EXCEPT !.at = "lookup"]

\* getGateOverride, getConfigOverride, getLayerOverride
ReadOverride(e) ==
    LET o == overrides[e.kind][e.name]
    IN  IF o # None THEN Return(e, OverrideResult(e.kind, o)) ELSE [e EXCEPT !.at = "lookup"]

\* Mutant: whether the name is known is not looked at.
ReadSpecUnchecked(e) == Enter(e, e.kind, store[e.kind][e.name], e.depth + 1)

\* store.getGate, getDynamicConfig, getLayerConfig; an unknown name has an
\* empty result, with reason Unrecognized.
ReadSpec(e) ==
    LET spec == store[e.kind][e.name]
    IN  IF spec = None THEN Return(e, NoResult) ELSE Enter(e, e.kind, spec, e.depth + 1)

Top(e) == e.stack[Len(e.stack)]

SetTop(e, f) == [e EXCEPT !.stack[Len(e.stack)] = f]

RuleOf(f) == f.spec.rules[f.rule]

\* The loop body of evalRule for a condition's pass and fetch.
EndCondition(f, pass, fetch, exposures) ==
    [f EXCEPT !.cond = @ + 1, !.pass = @ /\ pass, !.fetch = @ \/ fetch,
              !.ruleExposures = @ \o exposures]

\* eval at depth, evalRule, evalCondition, evalGate
GateDepth(f) == f.depth + 3

\* evalCondition for the next condition of the rule.
EvalCondition(e) ==
    LET f == Top(e)
        c == RuleOf(f).conditions[f.cond]
        Ends(pass, fetch) == SetTop(e, EndCondition(f, pass, fetch, <<>>))
        inlist == idList = "in"
    IN  CASE c.type \in {"public", "true"} -> Ends(TRUE, FALSE)
          [] c.type \in {"false", "not_a_name"} -> Ends(FALSE, FALSE)
          [] c.type = "unsupported" -> Ends(FALSE, TRUE)
          [] c.type \in {"pass_gate", "fail_gate"} -> Begin(e, "gate", c.gate, GateDepth(f))
          [] c.type = "nil_in_list" -> Panic(e)
          [] c.type \in {"in_list", "not_in_list"} ->
               IF idList = "nilIds" THEN Panic(e)
               ELSE Ends(inlist = (c.type = "in_list"), FALSE)

\* The rest of a gate condition, after evalGate returned res.
EndGateCondition(f, res) ==
    LET c == RuleOf(f).conditions[f.cond]
    IN  IF res.fetch THEN EndCondition(f, FALSE, TRUE, <<>>)
        ELSE EndCondition(f, res.pass = (c.type = "pass_gate"), FALSE,
                 Append(res.exposures, [gate |-> c.gate, value |-> res.pass, ruleID |-> res.id]))

\* eval after evalRule: fetch, delegate, or the next rule.
EndRule(e) ==
    LET f == Top(e)
        g == [f EXCEPT !.exposures = @ \o f.ruleExposures]
    IN  IF f.fetch
        THEN Return(Pop(e), [NoResult EXCEPT !.fetch = TRUE, !.exposures = f.ruleExposures])
        ELSE IF f.pass THEN [SetTop(e, g) EXCEPT !.at = "delegate"]
        ELSE SetTop(e, [g EXCEPT !.rule = @ + 1, !.cond = 1, !.pass = TRUE,
                                 !.ruleExposures = <<>>])

\* Results that eval makes itself.
Result(f, pass, id, value) ==
    [NoResult EXCEPT !.pass = pass, !.id = id, !.exposures = f.exposures,
                     !.value = IF f.kind = "gate" THEN None ELSE value,
                     !.undelegated = IF f.kind = "gate" THEN <<>> ELSE f.exposures]

\* The values of a spec and a rule, named; NewConfig makes nil an empty map.
DefaultValue(spec) == IF spec.default = "map" THEN "default" ELSE None
ReturnValue(rule)  == IF rule.returns THEN rule.id ELSE None

\* No rule passed, or the spec is not enabled.
EndRules(e) ==
    LET f == Top(e)
        id == IF f.spec.enabled THEN "default" ELSE "disabled"
    IN  Return(Pop(e), Result(f, FALSE, id, DefaultValue(f.spec)))

\* eval at depth, evalDelegate, eval
DelegateDepth(f) == f.depth + 2

evalPassPercent(r) == r.percent

\* evalDelegate's read of its config, which is not looked up in the
\* overrides; without one, the rule's own percentage decides.
ReadDelegate(e) ==
    LET f == Top(e)
        r == RuleOf(f)
        config == IF r.configDelegate = None THEN None ELSE store["config"][r.configDelegate]
    IN  IF config # None THEN Enter(e, "config", config, DelegateDepth(f))
        ELSE Return(Pop(e), Result(f, evalPassPercent(r), r.id,
                                   IF evalPassPercent(r) THEN ReturnValue(r)
                                   ELSE DefaultValue(f.spec)))

\* The rest of evalDelegate, after eval returned res.
EndDelegate(f, res) ==
    [res EXCEPT !.delegate = RuleOf(f).configDelegate,
                !.exposures = f.exposures \o res.exposures,
                !.undelegated = f.exposures]

\* A call returns to the frame that made it: a condition, or a delegation.
Resume(e) ==
    IF e.stack = <<>> THEN [e EXCEPT !.at = "done"]
    ELSE LET f == Top(e)
         IN  IF f.cond <= Len(RuleOf(f).conditions)
             THEN [SetTop(e, EndGateCondition(f, e.result)) EXCEPT !.at = "eval",
                                                                   !.result = NoResult]
             ELSE Return(Pop(e), EndDelegate(f, e.result))

\* The next step of eval in the frame on top.
EvalStep(e) ==
    LET f == Top(e)
    IN  IF ~f.spec.enabled \/ f.rule > Len(f.spec.rules) THEN EndRules(e)
        ELSE IF f.cond <= Len(RuleOf(f).conditions) THEN EvalCondition(e)
        ELSE EndRule(e)

-----------------------------------------------------------------------------
Running(t) == ev[t].at \in {"override", "lookup", "eval", "delegate", "return"}

\* checkGate, getConfig, getLayer
Call(t, kind, name) ==
    /\ ~Running(t)
    /\ ev' = [ev EXCEPT ![t] = Begin([Idle EXCEPT !.call = <<kind, name>>], kind, name, 0)]
    /\ UNCHANGED sharedVars

Step(t) ==
    /\ Running(t)
    /\ ev' = [ev EXCEPT ![t] =
           CASE @.at = "override" -> ReadOverride(@)
             [] @.at = "lookup"   -> ReadSpec(@)
             [] @.at = "eval"     -> EvalStep(@)
             [] @.at = "delegate" -> ReadDelegate(@)
             [] @.at = "return"   -> Resume(@)]
    /\ UNCHANGED sharedVars

\* Something an evaluation reads has changed.
Change ==
    /\ changes < MaxChanges(world)
    /\ changes' = changes + 1
    /\ ev' = [t \in Threads |-> [ev[t] EXCEPT !.quiet = FALSE]]

\* setConfigSpecs swaps in the maps of another payload.
setConfigSpecs(g) ==
    /\ Change
    /\ store' = g
    /\ UNCHANGED <<world, overrides, idList>>

\* OverrideGate, OverrideConfig, OverrideLayer.  There is no way back.
Override(kind, name, o) ==
    /\ Change
    /\ overrides' = [overrides EXCEPT ![kind][name] = o]
    /\ UNCHANGED <<world, store, idList>>

\* syncIDLists, as an evaluation sees it.
SyncIDList(state) ==
    /\ Change
    /\ idList' = state
    /\ UNCHANGED <<world, store, overrides>>

Changes ==
    \/ \E g \in world : setConfigSpecs(g)
    \/ \E kind \in Kinds, o \in BOOLEAN : \E name \in NamesOf[kind] : Override(kind, name, o)
    \/ \E state \in IdListStates : SyncIDList(state)

Next ==
    \/ \E t \in Threads :
          Step(t) \/ \E kind \in Kinds : \E name \in NamesOf[kind] : Call(t, kind, name)
    \/ Changes

Spec == Init /\ [][Next]_vars

-----------------------------------------------------------------------------
(***************************************************************************)
(* The reference: what evaluating a name means when nothing changes.       *)
(* Conditions and rules are looked at as a whole, and the first rule that  *)
(* decides is named, instead of being found step by step.                  *)
(***************************************************************************)
\* No result at all: the evaluation panics.
Failure == [panicked |-> TRUE]

NestedGate(c) == c.type \in {"pass_gate", "fail_gate"}

\* A condition, where nested gates come to gates and the ID list is list.
Panics(c, gates, list) ==
    \/ NestedGate(c) /\ gates[c.gate] = Failure
    \/ c.type = "nil_in_list"
    \/ c.type \in {"in_list", "not_in_list"} /\ list = "nilIds"

Fetches(c, gates) == c.type = "unsupported" \/ (NestedGate(c) /\ gates[c.gate].fetch)

Passes(c, gates, list) ==
    \/ c.type \in {"public", "true"}
    \/ c.type = "pass_gate" /\ ~gates[c.gate].fetch /\ gates[c.gate].pass
    \/ c.type = "fail_gate" /\ ~gates[c.gate].fetch /\ ~gates[c.gate].pass
    \/ c.type = "in_list" /\ list = "in"
    \/ c.type = "not_in_list" /\ list # "in"

Exposed(c, gates) ==
    IF NestedGate(c) /\ ~gates[c.gate].fetch
    THEN Append(gates[c.gate].exposures,
                [gate |-> c.gate, value |-> gates[c.gate].pass, ruleID |-> gates[c.gate].id])
    ELSE <<>>

RuleExposures(r, gates) ==
    FlattenSeq([j \in DOMAIN r.conditions |-> Exposed(r.conditions[j], gates)])

Decides(r, gates, list) ==
    \/ \E c \in ToSet(r.conditions) : Panics(c, gates, list) \/ Fetches(c, gates)
    \/ \A c \in ToSet(r.conditions) : Passes(c, gates, list)

SpecExposures(spec, n, gates) ==
    FlattenSeq([i \in 1..n |-> RuleExposures(spec.rules[i], gates)])

OwnResult(kind, pass, id, value, exposures) ==
    [NoResult EXCEPT !.pass = pass, !.id = id, !.exposures = exposures,
                     !.value = IF kind = "gate" THEN None ELSE value,
                     !.undelegated = IF kind = "gate" THEN <<>> ELSE exposures]

DelegatedResult(res, delegate, exposures) ==
    IF res = Failure THEN Failure
    ELSE [res EXCEPT !.delegate = delegate, !.exposures = exposures \o @,
                     !.undelegated = exposures]

\* A rule of spec that decides, where delegates says what the configs there are come to.
RuleReference(kind, spec, r, gates, delegates, list, exposures) ==
    IF \E c \in ToSet(r.conditions) : Panics(c, gates, list) THEN Failure
    ELSE IF \E c \in ToSet(r.conditions) : Fetches(c, gates)
    THEN [NoResult EXCEPT !.fetch = TRUE, !.exposures = RuleExposures(r, gates)]
    ELSE IF r.configDelegate \in DOMAIN delegates
    THEN DelegatedResult(delegates[r.configDelegate], r.configDelegate, exposures)
    ELSE OwnResult(kind, r.percent, r.id,
                   IF r.percent THEN ReturnValue(r) ELSE DefaultValue(spec), exposures)

SpecReference(kind, spec, gates, delegates, list) ==
    LET deciding == {i \in DOMAIN spec.rules : Decides(spec.rules[i], gates, list)}
        first == Min(deciding)
    IN  IF ~spec.enabled
        THEN OwnResult(kind, FALSE, "disabled", DefaultValue(spec), SpecExposures(spec, 0, gates))
        ELSE IF deciding = {}
        THEN OwnResult(kind, FALSE, "default", DefaultValue(spec),
                       SpecExposures(spec, Len(spec.rules), gates))
        ELSE RuleReference(kind, spec, spec.rules[first], gates, delegates, list,
                           SpecExposures(spec, first, gates))

\* Overrides come before results.
WithOverrides(ov, results) ==
    [kind \in Kinds |-> [name \in NamesOf[kind] |->
        IF ov[kind][name] # None THEN OverrideResult(kind, ov[kind][name])
        ELSE results[kind][name]]]

\* The names of generation g without their own overrides, at the depth of
\* evalGate and its like; nested gates come to nested, delegates to delegated.
Level(g, ov, list, depth, nested, delegated) ==
    LET gates == WithOverrides(ov, nested)["gate"]
        delegates == [n \in {m \in Configs : g["config"][m] # None} |-> delegated["config"][n]]
    IN  [kind \in Kinds |-> [name \in NamesOf[kind] |->
            IF g[kind][name] = None THEN NoResult
            ELSE IF depth + 1 > MaxDepth THEN Failure
            ELSE SpecReference(kind, g[kind][name], gates, delegates, list)]]

\* eval runs at depth + 1, a gate nested in it at depth + 4, and what it
\* delegates to as if it were asked for at depth + 2.
Reference(g, ov, list) ==
    LET ref[depth \in -1..(MaxDepth + 4)] ==
            Level(g, ov, list, depth, ref[depth + 4], ref[depth + 2])
    IN  ref

-----------------------------------------------------------------------------
(***************************************************************************)
(* Properties.                                                             *)
(***************************************************************************)
(***************************************************************************)
(* An evaluation during which nothing it reads has changed comes to what   *)
(* the reference says: value, rule, secondary exposures in their order,    *)
(* delegate, whether the server has to be asked, and whether it panics.    *)
(* This includes gates that refer to each other.                           *)
(***************************************************************************)
QuietEvaluationIsReference ==
    \A t \in Threads :
        LET e == ev[t] IN
        e.at \in {"done", "panicked"} /\ e.quiet =>
            WithOverrides(overrides, Reference(store, overrides, idList)[0])[e.call[1]][e.call[2]]
              = IF e.at = "done" THEN e.result ELSE Failure

(***************************************************************************)
(* However gates and delegates refer to each other, and whatever syncs do  *)
(* to them meanwhile, maxRecursiveDepth bounds the goroutine's stack: a    *)
(* nested gate costs four levels and a delegate two.                       *)
(***************************************************************************)
NestingBounded == \A t \in Threads : 2 * (Len(ev[t].stack) - 1) < MaxDepth
=============================================================================
