---------------------- MODULE ClientInitializeResponse ----------------------
(***************************************************************************)
(* client_initialize_response.go: all gates, configs and layers evaluated  *)
(* for one user, while syncs replace the store's maps.                     *)
(*                                                                         *)
(* The three range loops read store.featureGates, dynamicConfigs and       *)
(* layerConfigs without the store's lock.  While setConfigSpecs is inside  *)
(* its critical section such a read gets the old map or the new one; the   *)
(* loop then stays with that map.  All other reads take the lock.          *)
(* Names are not hashed, and of a value only its origin is kept.           *)
(***************************************************************************)
EXTENDS Evaluator

CONSTANT Responder      \* the goroutine in GetClientInitializeResponse

\* A generation also says which layer an experiment is in (experimentToLayer).
ASSUME ResponderAssumption ==
    /\ Threads = {Responder}
    /\ \A g \in UNION Worlds : g.layerOf \in [Configs -> Layers \cup {None}]

VARIABLES
    swapping,   \* the generation setConfigSpecs is writing, under the lock
    resp        \* the call in progress, or the last one

respVars == <<vars, swapping, resp>>

\* What a response says of one spec: the evaluation, its exposures cleaned,
\* the layer whose defaults were merged in, the experiment it is allocated to.
\* The spec is history.
Entry(spec, res, layer, allocated) ==
    [spec |-> spec, result |-> res, layer |-> layer, allocated |-> allocated]

\* No target app: every spec is for the caller.
NoApp == ""

NoEntries == [k \in Kinds |-> <<>>]

Idling ==
    [at |-> "idle", appId |-> NoApp, kind |-> "gate", specs |-> <<>>, todo |-> {}, name |-> None,
     spec |-> None,
     result |-> NoResult, layer |-> None, allocated |-> None, out |-> NoEntries,
     seen |-> {},           \* history: generations served or written during the call
     quiet |-> TRUE]        \* history: nothing it could read has changed

RespInit == Init /\ swapping = None /\ resp = Idling

\* getAppIDForSDKKey, under the lock.
getAppIDForSDKKey(key) == store.apps[key]

GetResponse(key) ==
    /\ resp.at \in {"idle", "done", "failed"}
    /\ swapping = None
    /\ resp' = [Idling EXCEPT !.at = "range", !.appId = getAppIDForSDKKey(key),
                              !.seen = {store}]
    /\ UNCHANGED <<vars, swapping>>

\* The loop `for name, spec := range` of a section takes its map, unlocked.
RangeOver(g) ==
    /\ resp.at = "range"
    /\ g = store \/ (swapping # None /\ g = swapping)
    /\ resp' = [resp EXCEPT !.at = "each", !.specs = g[resp.kind],
                            !.todo = {n \in NamesOf[resp.kind] : g[resp.kind][n] # None}]
    /\ UNCHANGED <<vars, swapping>>

hasTargetAppID(spec, appId) == appId = NoApp \/ appId \in spec.apps

Listed(kind, spec, appId) ==
    /\ hasTargetAppID(spec, appId)
    /\ kind = "gate" => spec.entity \notin {"segment", "holdout"}

\* evalFunc(user, spec, 0)
Evaluate(kind, spec) == ev' = [ev EXCEPT ![Responder] = Enter(Idle, kind, spec, 0)]

\* Mutant: the spec is looked up in the store again.
LoopSpecFresh(n) == IF store[resp.kind][n] = None THEN resp.specs[n] ELSE store[resp.kind][n]

LoopSpec(n) == resp.specs[n]

\* One turn of a loop: skip the spec or evaluate it.
Each(n) ==
    /\ resp.at = "each" /\ n \in resp.todo
    /\ IF Listed(resp.kind, LoopSpec(n), resp.appId)
       THEN /\ Evaluate(resp.kind, LoopSpec(n))
            /\ resp' = [resp EXCEPT !.at = "evaluating", !.name = n, !.todo = @ \ {n},
                                    !.spec = LoopSpec(n)]
       ELSE resp' = [resp EXCEPT !.todo = @ \ {n}] /\ UNCHANGED ev
    /\ UNCHANGED <<sharedVars, swapping>>

\* The steps of evalFunc.  Those that read the store wait for its lock.
Evaluating ==
    /\ resp.at \in {"evaluating", "again"}
    /\ ev[Responder].at \in {"lookup", "delegate"} => swapping = None
    /\ Step(Responder)
    /\ UNCHANGED <<swapping, resp>>

\* result after the first n turns of the loop; seen has its members.
cleanExposures(exposures) ==
    LET clean[n \in 0..Len(exposures)] ==
            IF n = 0 THEN <<>>
            ELSE LET result == clean[n - 1]
                 IN  IF exposures[n] \in ToSet(result) THEN result
                     ELSE Append(result, exposures[n])
    IN  clean[Len(exposures)]

Cleaned(res) ==
    [res EXCEPT !.exposures = cleanExposures(@), !.undelegated = cleanExposures(@)]

\* f[name] = e, for a name that may be new.
Put(f, name, e) == [n \in DOMAIN f \cup {name} |-> IF n = name THEN e ELSE f[n]]

Add(res, layer, allocated) ==
    resp' = [resp EXCEPT !.at = "each", !.layer = None, !.allocated = None, !.spec = None,
        !.name = None, !.result = NoResult,
        !.out[resp.kind] = Put(@, resp.name, Entry(resp.spec, Cleaned(res), layer, allocated))]

Shares(spec) == spec.entity = "experiment" /\ spec.shared

\* gateToResponse, configToResponse or layerToResponse after evalFunc.
Evaluated ==
    LET res == ev[Responder].result IN
    /\ resp.at = "evaluating" /\ ev[Responder].at = "done"
    /\ CASE resp.kind = "config" /\ Shares(resp.spec) ->
              resp' = [resp EXCEPT !.at = "layerOf", !.result = res]
         [] resp.kind = "layer" /\ res.delegate # None ->
              resp' = [resp EXCEPT !.at = "delegate", !.result = res]
         [] OTHER -> Add(res, None, None)
    /\ UNCHANGED <<vars, swapping>>

\* getExperimentLayer
getExperimentLayer ==
    /\ resp.at = "layerOf" /\ swapping = None
    /\ resp' = [resp EXCEPT !.at = "layerConfig", !.layer = store.layerOf[resp.name]]
    /\ UNCHANGED <<vars, swapping>>

\* The range over result.Value has no turn: the value has no entries, or the
\* result is one to be fetched and has none.
EmptyValue == resp.result.value = None

\* captureGetClientInitializeResponse recovers: the zero response is returned.
Fail == resp' = [resp EXCEPT !.at = "failed", !.out = NoEntries, !.specs = <<>>]

\* getLayerConfig and mergeMaps, which writes to a nil map if the layer's
\* DefaultValue is null.
MergeLayerDefault ==
    LET layer == IF resp.layer = None THEN None ELSE store.layer[resp.layer] IN
    /\ resp.at = "layerConfig" /\ swapping = None
    /\ IF layer = None THEN Add(resp.result, None, None)
       ELSE IF layer.default = "null" /\ ~EmptyValue THEN Fail
       ELSE Add(resp.result, resp.layer, None)
    /\ UNCHANGED <<vars, swapping>>

\* The zero configSpec that getDynamicConfig gives for a name that is gone.
ZeroSpec ==
    [enabled |-> FALSE, rules |-> <<>>, entity |-> "", apps |-> {}, shared |-> FALSE,
     default |-> "empty"]

\* layerToResponse looks its delegate up and evaluates it once more, also
\* when it is gone.
Delegate ==
    LET spec == store.config[resp.result.delegate] IN
    /\ resp.at = "delegate" /\ swapping = None
    /\ Evaluate(IF spec = None THEN "gate" ELSE "config", IF spec = None THEN ZeroSpec ELSE spec)
    /\ resp' = [resp EXCEPT !.at = "again",
                            !.allocated = IF spec = None THEN None ELSE resp.result.delegate]
    /\ UNCHANGED <<sharedVars, swapping>>

\* Mutant: the entry takes over the second evaluation.
AllocateSecondResult ==
    /\ resp.at = "again" /\ ev[Responder].at = "done"
    /\ Add([ev[Responder].result EXCEPT !.delegate = resp.result.delegate], None, resp.allocated)
    /\ UNCHANGED <<vars, swapping>>

\* Of the second evaluation only the experiment group is used.
Allocate ==
    /\ resp.at = "again" /\ ev[Responder].at = "done"
    /\ Add(resp.result, None, resp.allocated)
    /\ UNCHANGED <<vars, swapping>>

Panicked ==
    /\ resp.at \in {"evaluating", "again"} /\ ev[Responder].at = "panicked"
    /\ Fail
    /\ UNCHANGED <<vars, swapping>>

NextKind == [gate |-> "config", config |-> "layer"]

EndRange ==
    /\ resp.at = "each" /\ resp.todo = {}
    /\ resp' = IF resp.kind = "layer" THEN [resp EXCEPT !.at = "done", !.specs = <<>>]
               ELSE [resp EXCEPT !.at = "range", !.kind = NextKind[@]]
    /\ UNCHANGED <<vars, swapping>>

-----------------------------------------------------------------------------
\* setConfigSpecs takes the lock and begins to write the maps ...
BeginSwap(g) ==
    /\ swapping = None
    /\ Change
    /\ swapping' = g
    /\ resp' = [resp EXCEPT !.quiet = FALSE, !.seen = @ \cup {g}]
    /\ UNCHANGED <<world, store, overrides, idList>>

\* Mutant: the lock is not released.
EndSwapLocked ==
    /\ swapping # None
    /\ store' = swapping
    /\ UNCHANGED <<swapping, world, overrides, idList, changes, ev, resp>>

\* ... and has written them all.
EndSwap ==
    /\ swapping # None
    /\ store' = swapping
    /\ swapping' = None
    /\ UNCHANGED <<world, overrides, idList, changes, ev, resp>>

OtherChange ==
    /\ \/ \E kind \in Kinds, o \in BOOLEAN : \E n \in NamesOf[kind] : Override(kind, n, o)
       \/ \E state \in IdListStates : SyncIDList(state)
    /\ resp' = [resp EXCEPT !.quiet = FALSE]
    /\ UNCHANGED swapping

RespondStep ==
    \/ \E g \in world : RangeOver(g)
    \/ \E n \in NamesOf[resp.kind] : Each(n)
    \/ Evaluating \/ Evaluated \/ getExperimentLayer \/ MergeLayerDefault
    \/ Delegate \/ Allocate \/ Panicked \/ EndRange

RespNext ==
    \/ \E key \in DOMAIN store.apps : GetResponse(key)
    \/ RespondStep
    \/ \E g \in world : BeginSwap(g)
    \/ EndSwap
    \/ OtherChange

RespSpec == RespInit /\ [][RespNext]_respVars

\* The goroutines of the call and of the poller are scheduled.
RespFairSpec == RespSpec /\ WF_respVars(RespondStep) /\ WF_respVars(EndSwap)

-----------------------------------------------------------------------------
(***************************************************************************)
(* Properties.                                                             *)
(***************************************************************************)
ResponseOver == resp.at \in {"idle", "done", "failed"}

(***************************************************************************)
(* Whatever syncs do during the call and although the loops take their     *)
(* maps without the lock, each section lists the specs of one payload,     *)
(* one that was served or being swapped in during the call: no spec of a   *)
(* section is missing, and none comes from another payload.                *)
(***************************************************************************)
SectionsFromOneSync ==
    resp.at = "done" => \A k \in Kinds : \E g \in resp.seen :
        /\ DOMAIN resp.out[k] =
              {n \in NamesOf[k] : g[k][n] # None /\ Listed(k, g[k][n], resp.appId)}
        /\ \A n \in DOMAIN resp.out[k] : resp.out[k][n].spec = g[k][n]

Agrees(res, ref) ==
    /\ res.pass = ref.pass /\ res.id = ref.id /\ res.value = ref.value
    /\ ToSet(res.exposures) = ToSet(ref.exposures)
    /\ ToSet(res.undelegated) = ToSet(ref.undelegated)

\* A result to be fetched has no value, no rule and does not pass.
SaysNothing(res) == ~res.pass /\ res.id = None /\ res.value = None

\* The layer whose default value configToResponse merges below a config's.
MergedLayer(g, k, n) ==
    IF /\ k = "config" /\ Shares(g[k][n])
       /\ g.layerOf[n] # None /\ g.layer[g.layerOf[n]] # None
    THEN g.layerOf[n] ELSE None

NoOverrides == \A k \in Kinds, o \in BOOLEAN : \A n \in NamesOf[k] : overrides[k][n] # o

(***************************************************************************)
(* A response during which nothing changed, without overrides, says of     *)
(* every name what the evaluator does (the reference), so what CheckGate,  *)
(* GetConfig or GetLayer say, with three exceptions.  A name that has to   *)
(* be fetched: those functions ask the server, the response says FALSE, no *)
(* rule and no value.  An experiment that shares its layer's parameters:   *)
(* the layer's defaults are merged in below its value, if the layer        *)
(* exists.  A call that would panic: it starts one level deeper.  A layer  *)
(* is allocated to its delegate.  And the response is empty only if an     *)
(* evaluation panics or an experiment with a value is in a layer whose     *)
(* default value is null.                                                  *)
(***************************************************************************)
QuietResponseAgrees ==
    LET ref == Reference(store, overrides, idList) IN
    resp.quiet /\ NoOverrides =>
        /\ resp.at = "done" => \A k \in Kinds : \A n \in DOMAIN resp.out[k] :
              LET e == resp.out[k][n]
                  r == ref[0][k][n]
              IN  \/ r = Failure
                  \/ /\ Agrees(e.result, r)
                     /\ r.fetch => SaysNothing(e.result)
                     /\ e.layer = MergedLayer(store, k, n)
                     /\ e.allocated = IF k = "layer" THEN r.delegate ELSE None
        /\ resp.at = "failed" =>
              \/ \E k \in Kinds : \E n \in NamesOf[k] : ref[-1][k][n] = Failure
              \/ \E n \in Configs :
                    LET layer == MergedLayer(store, "config", n) IN
                    /\ store.config[n] # None /\ ref[-1].config[n].value # None
                    /\ layer # None /\ store.layer[layer].default = "null"

(***************************************************************************)
(* GetClientInitializeResponse returns, however often its reads have to    *)
(* wait for a sync and whatever circles it finds.                          *)
(***************************************************************************)
ResponseEnds == ~ResponseOver ~> ResponseOver
=============================================================================
