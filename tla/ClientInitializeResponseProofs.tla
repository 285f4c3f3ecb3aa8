------------------- MODULE ClientInitializeResponseProofs -------------------
(***************************************************************************)
(* Proofs about client initialize responses: for any specs and any number  *)
(* of syncs, each section is that of one payload (the first half), and     *)
(* what an undisturbed response says of a name is what the reference says  *)
(* of it (the second).                                                     *)
(***************************************************************************)
EXTENDS ClientInitializeResponse, EvaluatorProofs

RespFields ==
    {"at", "appId", "kind", "specs", "todo", "name", "spec", "result", "layer", "allocated", "out",
     "seen", "quiet"}

IsResp(r) ==
    /\ DOMAIN r = RespFields /\ r = [x \in RespFields |-> r[x]]
    /\ r.kind \in Kinds
    /\ DOMAIN r.out = Kinds /\ r.out = [k \in Kinds |-> r.out[k]]

-----------------------------------------------------------------------------
(***************************************************************************)
(* The inductive invariant: sections before the current one are complete,  *)
(* the current one has the entries of the names the loop has been through, *)
(* all from the map it took, and later ones are empty.                     *)
(***************************************************************************)
InCall(r) == r.at \in {"range", "each", "evaluating", "layerOf", "layerConfig", "delegate", "again"}

\* The names of section k that a response from generation g lists.
Lists(r, k, g) == {n \in NamesOf[k] : g[k][n] # None /\ Listed(k, g[k][n], r.appId)}

\* Section k has the entries of the names in D, from g.
Holds(r, k, g, D) == DOMAIN r.out[k] = D /\ \A n \in D : r.out[k][n].spec = g[k][n]

Complete(r, k) == \E g \in r.seen : Holds(r, k, g, Lists(r, k, g))

\* The name whose entry is being made.
Pending(r) == IF r.at = "each" THEN {} ELSE {r.name}

Filling(r, g) ==
    /\ r.specs = g[r.kind]
    /\ r.todo \subseteq {n \in NamesOf[r.kind] : g[r.kind][n] # None}
    /\ Holds(r, r.kind, g, (Lists(r, r.kind, g) \ r.todo) \ Pending(r))
    /\ r.at # "each" => /\ r.name \in Lists(r, r.kind, g) \ r.todo
                        /\ r.spec = g[r.kind][r.name]

Earlier(kind) == CASE kind = "gate" -> {} [] kind = "config" -> {"gate"}
                   [] kind = "layer" -> {"gate", "config"}

Later(kind) == CASE kind = "gate" -> {"config", "layer"} [] kind = "config" -> {"layer"}
                 [] kind = "layer" -> {}

SectionsOK(r) ==
    /\ r.at = "done" => \A k \in Kinds : Complete(r, k)
    /\ InCall(r) =>
        /\ \A k \in Earlier(r.kind) : Complete(r, k)
        /\ \A k \in Later(r.kind) : r.out[k] = <<>>
        /\ r.at = "range" => r.out[r.kind] = <<>>
        /\ r.at # "range" => \E g \in r.seen : Filling(r, g)

\* A generation a loop can come by has been seen.
SeenOK(r) ==
    InCall(r) => store \in r.seen /\ (swapping # None => swapping \in r.seen)

RespInv == IsResp(resp) /\ SectionsOK(resp) /\ SeenOK(resp)

-----------------------------------------------------------------------------
\* Nothing that the sections depend on differs, but that more may be seen.
SameSections(d, r) ==
    /\ d.appId = r.appId /\ d.kind = r.kind /\ d.specs = r.specs /\ d.todo = r.todo
    /\ d.out = r.out /\ r.seen \subseteq d.seen

LEMMA SectionsKept ==
    ASSUME NEW r, NEW d, SectionsOK(r), SameSections(d, r), d.name = r.name, d.spec = r.spec,
           \/ d.at = r.at
           \/ /\ r.at \in {"evaluating", "layerOf", "layerConfig", "delegate", "again"}
              /\ d.at \in {"evaluating", "layerOf", "layerConfig", "delegate", "again"}
    PROVE  SectionsOK(d)
  <1>1. \A k : Complete(r, k) => Complete(d, k)
    BY DEF Complete, Holds, Lists, SameSections
  <1>2. \A g : InCall(r) /\ r.at # "range" /\ Filling(r, g) => Filling(d, g)
    BY DEF Filling, Holds, Lists, Pending, SameSections, InCall
  <1>3. InCall(d) <=> InCall(r)
    BY DEF InCall
  <1>4. d.at = "done" <=> r.at = "done"
    OBVIOUS
  <1>5. QED
    BY <1>1, <1>2, <1>3, <1>4 DEF SectionsOK, SameSections, InCall

LEMMA Orders ==
    ASSUME NEW k \in Kinds
    PROVE  /\ Earlier(k) \subseteq Kinds \ {k} /\ Later(k) \subseteq Kinds \ {k}
           /\ k = "layer" => Kinds = Earlier(k) \cup {k}
           /\ k # "layer" => /\ NextKind[k] \in Later(k) /\ NextKind[k] \in Kinds
                             /\ Earlier(NextKind[k]) = Earlier(k) \cup {k}
                             /\ Later(NextKind[k]) \subseteq Later(k)
  BY DEF Earlier, Later, Kinds, NextKind

\* The entry made last is added.
LEMMA AddKeeps ==
    ASSUME NEW res, NEW layer, NEW allocated, IsResp(resp), SectionsOK(resp), InCall(resp),
           resp.at \notin {"range", "each"}, Add(res, layer, allocated)
    PROVE  IsResp(resp') /\ SectionsOK(resp') /\ resp'.at = "each" /\ resp'.seen = resp.seen
  <1> DEFINE entry == Entry(resp.spec, Cleaned(res), layer, allocated)
             k == resp.kind
             new == Put(resp.out[k], resp.name, entry)
             out == [resp.out EXCEPT ![k] = new]
  <1>1. PICK g \in resp.seen : Filling(resp, g)
    BY DEF SectionsOK
  <1>2. DOMAIN new = {resp.name} \cup DOMAIN resp.out[k]
    BY DEF Put
  <1>3. /\ new[resp.name] = entry
        /\ \A n \in DOMAIN resp.out[k] : n # resp.name => new[n] = resp.out[k][n]
    BY DEF Put
  <1>4. entry.spec = resp.spec
    BY DEF Entry
  <1>5. resp' = [resp EXCEPT !.at = "each", !.layer = None, !.allocated = None, !.spec = None,
                             !.name = None, !.result = NoResult, !.out = out]
    BY DEF Add, IsResp
  <1> HIDE DEF new
  <1>6. k \in Kinds /\ DOMAIN out = Kinds /\ out = [x \in Kinds |-> out[x]] /\ out[k] = new
        /\ \A x \in Kinds : x # k => out[x] = resp.out[x]
    BY DEF IsResp
  <1> HIDE DEF out
  <1>7. /\ resp'.at = "each" /\ resp'.kind = k /\ resp'.appId = resp.appId /\ resp'.specs = resp.specs
        /\ resp'.todo = resp.todo /\ resp'.seen = resp.seen /\ resp'.out = out
        /\ DOMAIN resp' = RespFields /\ resp' = [x \in RespFields |-> resp'[x]]
    BY <1>5 DEF IsResp, RespFields
  <1>8. IsResp(resp')
    BY <1>6, <1>7 DEF IsResp
  <1>9. Filling(resp', g)
    <2> DEFINE L == Lists(resp, k, g)
               D == L \ resp.todo
    <2>1. Lists(resp', k, g) = L
      BY <1>7 DEF Lists
    <2>2. /\ DOMAIN resp.out[k] = D \ {resp.name} /\ resp.name \in D
          /\ resp.spec = g[k][resp.name]
          /\ \A n \in D \ {resp.name} : resp.out[k][n].spec = g[k][n]
      BY <1>1 DEF Filling, Holds, Pending, InCall
    <2> HIDE DEF L, D
    <2>3. DOMAIN new = D
      BY <1>2, <2>2
    <2>4. \A n \in D : new[n].spec = g[k][n]
      BY <1>3, <1>4, <2>2
    <2>5. (Lists(resp', k, g) \ resp'.todo) \ Pending(resp') = D
      BY <1>7, <2>1 DEF Pending, D
    <2>6. Holds(resp', k, g, D)
      BY <1>6, <1>7, <2>3, <2>4 DEF Holds
    <2>7. QED
      BY <1>1, <1>7, <2>5, <2>6 DEF Filling
  <1>10. \A x \in Kinds : x # k /\ Complete(resp, x) => Complete(resp', x)
    BY <1>6, <1>7 DEF Complete, Holds, Lists
  <1>11. SectionsOK(resp')
    <2>1. \A x \in Earlier(k) : Complete(resp', x)
      BY <1>6, <1>10, Orders DEF SectionsOK
    <2>2. \A x \in Later(k) : resp'.out[x] = <<>>
      BY <1>6, <1>7, Orders DEF SectionsOK
    <2>3. \E h \in resp'.seen : Filling(resp', h)
      BY <1>7, <1>9
    <2>4. QED
      BY <1>7, <2>1, <2>2, <2>3 DEF SectionsOK
  <1>12. QED
    BY <1>7, <1>8, <1>11

\* Steps that leave the sections as they are and do not end the call.
LEMMA SameKeeps ==
    ASSUME RespInv, NEW d, IsResp(d), SameSections(d, resp), d.name = resp.name, d.spec = resp.spec,
           \/ d.at = resp.at
           \/ /\ resp.at \in {"evaluating", "layerOf", "layerConfig", "delegate", "again"}
              /\ d.at \in {"evaluating", "layerOf", "layerConfig", "delegate", "again"},
           resp' = d, UNCHANGED <<store, swapping>>
    PROVE  RespInv'
  <1>1. SectionsOK(d)
    BY SectionsKept DEF RespInv
  <1>2. InCall(d) <=> InCall(resp)
    BY DEF InCall
  <1>3. SeenOK(resp)'
    BY <1>2 DEF SeenOK, RespInv, SameSections, InCall
  <1>4. SectionsOK(resp') /\ IsResp(resp')
    BY <1>1
  <1>5. QED
    BY <1>3, <1>4 DEF RespInv

LEMMA InitResp == RespInit => RespInv
  <1> SUFFICES ASSUME RespInit PROVE RespInv
    OBVIOUS
  <1>1. resp.at = "idle" /\ IsResp(resp)
    BY DEF RespInit, Idling, IsResp, RespFields, NoEntries, Kinds
  <1>2. SectionsOK(resp) /\ SeenOK(resp)
    BY <1>1 DEF SectionsOK, SeenOK, InCall
  <1>3. QED
    BY <1>1, <1>2 DEF RespInv

LEMMA GetResponseStep ==
    ASSUME RespInv, NEW key, GetResponse(key)
    PROVE  RespInv'
  <1>1. /\ resp'.at = "range" /\ resp'.kind = "gate" /\ resp'.out = NoEntries
        /\ resp'.seen = {store} /\ IsResp(resp')
    <2> DEFINE app == getAppIDForSDKKey(key)
    <2>1. resp' = [Idling EXCEPT !.at = "range", !.appId = app, !.seen = {store}]
      BY DEF GetResponse
    <2> HIDE DEF app
    <2>2. QED
      BY <2>1 DEF Idling, IsResp, RespFields, NoEntries, Kinds
  <1>2. store' = store /\ swapping' = swapping /\ swapping = None
    BY DEF GetResponse, vars, sharedVars
  <1>3. SectionsOK(resp)'
    <2>1. \A k \in Kinds : resp'.out[k] = <<>>
      BY <1>1 DEF NoEntries
    <2>2. Earlier("gate") = {} /\ Later("gate") \subseteq Kinds /\ "gate" \in Kinds
      BY DEF Earlier, Later, Kinds
    <2>3. QED
      BY <1>1, <2>1, <2>2 DEF SectionsOK
  <1>4. QED
    BY <1>1, <1>2, <1>3 DEF RespInv, SeenOK, IsResp

LEMMA RangeOverStep ==
    ASSUME RespInv, NEW g, RangeOver(g)
    PROVE  RespInv'
  <1> DEFINE k == resp.kind
             todo == {n \in NamesOf[k] : g[k][n] # None}
  <1>1. /\ resp.at = "range" /\ g \in resp.seen /\ InCall(resp) /\ k \in Kinds
        /\ resp.out[k] = <<>>
    BY DEF RangeOver, RespInv, SeenOK, SectionsOK, InCall, IsResp
  <1>2. resp' = [resp EXCEPT !.at = "each", !.specs = g[k], !.todo = todo]
    BY DEF RangeOver
  <1> HIDE DEF todo
  <1>3. /\ resp'.at = "each" /\ resp'.specs = g[k] /\ resp'.todo = todo /\ resp'.kind = k
        /\ resp'.appId = resp.appId /\ resp'.out = resp.out /\ resp'.seen = resp.seen
        /\ IsResp(resp')
    BY <1>2 DEF RespInv, IsResp, RespFields
  <1>4. Filling(resp', g)
    <2>1. (Lists(resp', k, g) \ todo) \ Pending(resp') = {}
      BY <1>3 DEF Lists, Pending, todo
    <2>2. DOMAIN resp'.out[k] = {}
      BY <1>1, <1>3
    <2>3. Holds(resp', k, g, {})
      BY <2>2 DEF Holds
    <2>4. QED
      BY <1>3, <2>1, <2>3 DEF Filling, todo
  <1>5. \A x : Complete(resp, x) => Complete(resp', x)
    BY <1>3 DEF Complete, Holds, Lists
  <1>6. SectionsOK(resp')
    <2>1. \E h \in resp'.seen : Filling(resp', h)
      BY <1>1, <1>3, <1>4
    <2>2. QED
      BY <1>1, <1>3, <1>5, <2>1 DEF SectionsOK, RespInv
  <1>7. store' = store /\ swapping' = swapping
    BY DEF RangeOver, vars, sharedVars
  <1>8. SeenOK(resp)'
    BY <1>1, <1>3, <1>7 DEF RespInv, SeenOK
  <1>9. QED
    BY <1>3, <1>6, <1>8 DEF RespInv

LEMMA EachStep ==
    ASSUME RespInv, NEW n, Each(n)
    PROVE  RespInv'
  <1> DEFINE k == resp.kind
             todo == resp.todo \ {n}
             s == LoopSpec(n)
  <1>1. resp.at = "each" /\ n \in resp.todo /\ InCall(resp) /\ k \in Kinds
    BY DEF Each, InCall, RespInv, IsResp
  <1>2. PICK g \in resp.seen : Filling(resp, g)
    BY <1>1 DEF RespInv, SectionsOK
  <1>3. n \in NamesOf[k] /\ g[k][n] # None /\ s = g[k][n]
    BY <1>1, <1>2 DEF Filling, LoopSpec
  <1>4. \/ /\ Listed(k, s, resp.appId)
           /\ resp' = [resp EXCEPT !.at = "evaluating", !.name = n, !.todo = todo, !.spec = s]
        \/ /\ ~Listed(k, s, resp.appId)
           /\ resp' = [resp EXCEPT !.todo = todo]
    BY DEF Each
  <1> HIDE DEF todo, s
  <1>5. /\ resp'.kind = k /\ resp'.appId = resp.appId /\ resp'.specs = resp.specs
        /\ resp'.out = resp.out /\ resp'.seen = resp.seen /\ resp'.todo = todo /\ IsResp(resp')
        /\ \/ Listed(k, s, resp.appId) /\ resp'.at = "evaluating" /\ resp'.name = n /\ resp'.spec = s
           \/ ~Listed(k, s, resp.appId) /\ resp'.at = "each"
    <2>1. CASE /\ Listed(k, s, resp.appId)
               /\ resp' = [resp EXCEPT !.at = "evaluating", !.name = n, !.todo = todo, !.spec = s]
      BY <2>1 DEF RespInv, IsResp, RespFields
    <2>2. CASE /\ ~Listed(k, s, resp.appId)
               /\ resp' = [resp EXCEPT !.todo = todo]
      BY <1>1, <2>2 DEF RespInv, IsResp, RespFields
    <2>3. QED
      BY <1>4, <2>1, <2>2
  <1> DEFINE L == Lists(resp, k, g)
  <1>6. Lists(resp', k, g) = L
    BY <1>5 DEF Lists
  <1>7. n \in L <=> Listed(k, s, resp.appId)
    BY <1>3 DEF Lists
  <1> HIDE DEF L
  <1>8. (L \ todo) \ Pending(resp') = (L \ resp.todo) \ Pending(resp)
    BY <1>1, <1>5, <1>7 DEF Pending, todo
  <1>9. Filling(resp', g)
    <2>1. Holds(resp', k, g, (L \ todo) \ Pending(resp'))
      BY <1>2, <1>5, <1>8 DEF Filling, Holds, L
    <2>2. todo \subseteq {m \in NamesOf[k] : g[k][m] # None}
      BY <1>2 DEF Filling, todo
    <2>3. resp'.at # "each" => resp'.name \in L \ todo /\ resp'.spec = g[k][resp'.name]
      BY <1>3, <1>5, <1>7 DEF todo
    <2>4. QED
      BY <1>2, <1>5, <1>6, <2>1, <2>2, <2>3 DEF Filling
  <1>10. \A x : Complete(resp, x) => Complete(resp', x)
    BY <1>5 DEF Complete, Holds, Lists
  <1>11. SectionsOK(resp')
    <2>1. \E h \in resp'.seen : Filling(resp', h)
      BY <1>2, <1>5, <1>9
    <2>2. QED
      BY <1>1, <1>5, <1>10, <2>1 DEF SectionsOK, RespInv
  <1>12. store' = store /\ swapping' = swapping
    BY DEF Each, sharedVars
  <1>13. SeenOK(resp)'
    BY <1>1, <1>5, <1>12 DEF RespInv, SeenOK
  <1>14. QED
    BY <1>5, <1>11, <1>13 DEF RespInv

\* An entry is complete.
LEMMA AddStep ==
    ASSUME RespInv, NEW res, NEW layer, NEW allocated, InCall(resp), resp.at \notin {"range", "each"},
           Add(res, layer, allocated), UNCHANGED <<store, swapping>>
    PROVE  RespInv'
  <1>1. IsResp(resp') /\ SectionsOK(resp') /\ resp'.seen = resp.seen
    BY AddKeeps DEF RespInv
  <1>2. QED
    BY <1>1 DEF RespInv, SeenOK

LEMMA FailStep == ASSUME RespInv, Fail PROVE RespInv'
  <1> DEFINE out == NoEntries
             none == <<>>
  <1>0. DOMAIN out = Kinds /\ out = [k \in Kinds |-> out[k]]
    BY DEF NoEntries
  <1>1. resp'.at = "failed" /\ IsResp(resp')
    <2>1. resp' = [resp EXCEPT !.at = "failed", !.out = out, !.specs = none]
      BY DEF Fail
    <2> HIDE DEF out, none
    <2>2. QED
      BY <1>0, <2>1 DEF RespInv, IsResp, RespFields
  <1>2. QED
    BY <1>1 DEF RespInv, SectionsOK, SeenOK, InCall

LEMMA EvaluatedStep == ASSUME RespInv, Evaluated PROVE RespInv'
  <1> DEFINE res == ev[Responder].result
             none == None
  <1>1. resp.at = "evaluating" /\ UNCHANGED <<store, swapping>> /\ InCall(resp)
    BY DEF Evaluated, vars, sharedVars, InCall
  <1>2. \/ resp' = [resp EXCEPT !.at = "layerOf", !.result = res]
        \/ resp' = [resp EXCEPT !.at = "delegate", !.result = res]
        \/ Add(res, none, none)
    BY DEF Evaluated
  <1> HIDE DEF res, none
  <1>3. ASSUME NEW l \in {"layerOf", "delegate"}, resp' = [resp EXCEPT !.at = l, !.result = res]
        PROVE  RespInv'
    <2>1. /\ IsResp(resp') /\ SameSections(resp', resp) /\ resp'.name = resp.name
          /\ resp'.spec = resp.spec /\ resp'.at = l
      BY <1>3 DEF IsResp, RespFields, RespInv, SameSections
    <2>2. QED
      BY <1>1, <2>1, SameKeeps
  <1>4. QED
    BY <1>1, <1>2, <1>3, AddStep

LEMMA LayerSteps ==
    ASSUME RespInv, getExperimentLayer \/ MergeLayerDefault \/ Delegate \/ Allocate \/ Panicked
    PROVE  RespInv'
  <1>1. CASE getExperimentLayer
    <2> DEFINE layer == store.layerOf[resp.name]
    <2>1. /\ resp.at = "layerOf" /\ UNCHANGED <<store, swapping>>
          /\ resp' = [resp EXCEPT !.at = "layerConfig", !.layer = layer]
      BY <1>1 DEF getExperimentLayer, vars, sharedVars
    <2> HIDE DEF layer
    <2>2. /\ IsResp(resp') /\ SameSections(resp', resp) /\ resp'.name = resp.name
          /\ resp'.spec = resp.spec /\ resp'.at = "layerConfig"
      BY <2>1 DEF IsResp, RespFields, RespInv, SameSections
    <2>3. QED
      BY <2>1, <2>2, SameKeeps
  <1>2. CASE MergeLayerDefault
    <2> DEFINE none == None
    <2>1. resp.at = "layerConfig" /\ UNCHANGED <<store, swapping>> /\ InCall(resp)
      BY <1>2 DEF MergeLayerDefault, vars, sharedVars, InCall
    <2>2. Add(resp.result, none, none) \/ Fail \/ Add(resp.result, resp.layer, none)
      BY <1>2 DEF MergeLayerDefault
    <2> HIDE DEF none
    <2>3. QED
      BY <2>1, <2>2, AddStep, FailStep
  <1>3. CASE Delegate
    <2> DEFINE gone == store.config[resp.result.delegate] = None
               a == IF gone THEN None ELSE resp.result.delegate
    <2>1. /\ resp.at = "delegate" /\ UNCHANGED <<store, swapping>>
          /\ resp' = [resp EXCEPT !.at = "again", !.allocated = a]
      BY <1>3 DEF Delegate, sharedVars
    <2> HIDE DEF a
    <2>2. /\ IsResp(resp') /\ SameSections(resp', resp) /\ resp'.name = resp.name
          /\ resp'.spec = resp.spec /\ resp'.at = "again"
      BY <2>1 DEF IsResp, RespFields, RespInv, SameSections
    <2>3. QED
      BY <2>1, <2>2, SameKeeps
  <1>4. CASE Allocate
    <2> DEFINE none == None
    <2>1. /\ resp.at = "again" /\ UNCHANGED <<store, swapping>> /\ InCall(resp)
          /\ Add(resp.result, none, resp.allocated)
      BY <1>4 DEF Allocate, vars, sharedVars, InCall
    <2> HIDE DEF none
    <2>2. QED
      BY <2>1, AddStep
  <1>5. CASE Panicked
    BY <1>5, FailStep DEF Panicked
  <1>6. QED
    BY <1>1, <1>2, <1>3, <1>4, <1>5

LEMMA EndRangeStep == ASSUME RespInv, EndRange PROVE RespInv'
  <1> DEFINE k == resp.kind
  <1>1. /\ resp.at = "each" /\ resp.todo = {} /\ InCall(resp) /\ k \in Kinds
        /\ UNCHANGED <<store, swapping>>
    BY DEF EndRange, InCall, RespInv, IsResp, vars, sharedVars
  <1>2. Complete(resp, k)
    <2>1. PICK g \in resp.seen : Filling(resp, g)
      BY <1>1 DEF RespInv, SectionsOK
    <2> DEFINE L == Lists(resp, k, g)
    <2>2. (L \ resp.todo) \ Pending(resp) = L
      BY <1>1 DEF Pending
    <2>3. Holds(resp, k, g, L)
      BY <2>1, <2>2 DEF Filling
    <2>4. QED
      BY <2>1, <2>3 DEF Complete
  <1>3. \A x \in Earlier(k) \cup {k} : Complete(resp, x)
    BY <1>1, <1>2 DEF RespInv, SectionsOK
  <1>4. CASE k = "layer"
    <2>1. resp' = [resp EXCEPT !.at = "done", !.specs = <<>>]
      BY <1>4 DEF EndRange
    <2>2. /\ resp'.at = "done" /\ resp'.appId = resp.appId /\ resp'.out = resp.out
          /\ resp'.seen = resp.seen /\ IsResp(resp')
      BY <2>1 DEF RespInv, IsResp, RespFields
    <2>3. \A x : Complete(resp, x) => Complete(resp', x)
      BY <2>2 DEF Complete, Holds, Lists
    <2>4. \A x \in Kinds : Complete(resp', x)
      BY <1>1, <1>3, <1>4, <2>3, Orders
    <2>5. SectionsOK(resp') /\ SeenOK(resp)'
      BY <2>2, <2>4 DEF SectionsOK, SeenOK, InCall
    <2>6. QED
      BY <2>2, <2>5 DEF RespInv
  <1>5. CASE k # "layer"
    <2> DEFINE next == NextKind[k]
    <2>1. resp' = [resp EXCEPT !.at = "range", !.kind = next]
      BY <1>5 DEF EndRange
    <2>2. /\ next \in Kinds /\ Earlier(next) = Earlier(k) \cup {k} /\ next \in Later(k)
          /\ Later(next) \subseteq Later(k)
      BY <1>1, <1>5, Orders
    <2> HIDE DEF next
    <2>3. /\ resp'.at = "range" /\ resp'.kind = next /\ resp'.appId = resp.appId
          /\ resp'.out = resp.out /\ resp'.seen = resp.seen /\ IsResp(resp')
      BY <2>1, <2>2 DEF RespInv, IsResp, RespFields
    <2>4. \A x : Complete(resp, x) => Complete(resp', x)
      BY <2>3 DEF Complete, Holds, Lists
    <2>5. \A x \in Later(k) : resp.out[x] = <<>>
      BY <1>1 DEF RespInv, SectionsOK
    <2>6. SectionsOK(resp')
      BY <1>3, <2>2, <2>3, <2>4, <2>5 DEF SectionsOK
    <2>7. SeenOK(resp)'
      BY <1>1, <2>3 DEF RespInv, SeenOK
    <2>8. QED
      BY <2>3, <2>6, <2>7 DEF RespInv
  <1>6. QED
    BY <1>4, <1>5

\* Syncs, overrides and ID list changes.
LEMMA ChangeStep ==
    ASSUME RespInv, (\E g : BeginSwap(g)) \/ EndSwap \/ OtherChange
    PROVE  RespInv'
  <1> DEFINE no == FALSE
  <1>1. ASSUME NEW g, BeginSwap(g) PROVE RespInv'
    <2>1. /\ resp' = [resp EXCEPT !.quiet = no, !.seen = resp.seen \cup {g}]
          /\ swapping' = g /\ store' = store
      BY <1>1 DEF BeginSwap
    <2> HIDE DEF no
    <2>2. /\ IsResp(resp') /\ SameSections(resp', resp) /\ resp'.name = resp.name
          /\ resp'.spec = resp.spec /\ resp'.at = resp.at /\ resp'.seen = resp.seen \cup {g}
      BY <2>1 DEF IsResp, RespFields, RespInv, SameSections
    <2>3. SectionsOK(resp')
      BY <2>2, SectionsKept DEF RespInv
    <2>4. SeenOK(resp)'
      BY <2>1, <2>2 DEF RespInv, SeenOK, InCall
    <2>5. QED
      BY <2>2, <2>3, <2>4 DEF RespInv
  <1>2. CASE EndSwap
    <2>1. resp' = resp /\ store' = swapping /\ swapping # None /\ swapping' = None
      BY <1>2 DEF EndSwap
    <2>2. SectionsOK(resp') /\ IsResp(resp')
      BY <2>1 DEF RespInv
    <2>3. SeenOK(resp)'
      BY <2>1 DEF RespInv, SeenOK
    <2>4. QED
      BY <2>2, <2>3 DEF RespInv
  <1>3. CASE OtherChange
    <2>1. resp' = [resp EXCEPT !.quiet = no] /\ UNCHANGED <<store, swapping>>
      BY <1>3 DEF OtherChange, Override, SyncIDList
    <2> HIDE DEF no
    <2>2. /\ IsResp(resp') /\ SameSections(resp', resp) /\ resp'.name = resp.name
          /\ resp'.spec = resp.spec /\ resp'.at = resp.at
      BY <2>1 DEF IsResp, RespFields, RespInv, SameSections
    <2>3. QED
      BY <2>1, <2>2, SameKeeps
  <1>4. QED
    BY <1>1, <1>2, <1>3

LEMMA StepResp == RespInv /\ [RespNext]_respVars => RespInv'
  <1> SUFFICES ASSUME RespInv, [RespNext]_respVars PROVE RespInv'
    OBVIOUS
  <1>1. ASSUME UNCHANGED <<resp, store, swapping>> PROVE RespInv'
    <2>1. SectionsOK(resp') /\ IsResp(resp')
      BY <1>1 DEF RespInv
    <2>2. SeenOK(resp)'
      BY <1>1 DEF RespInv, SeenOK
    <2>3. QED
      BY <2>1, <2>2 DEF RespInv
  <1>2. CASE Evaluating
    BY <1>1, <1>2 DEF Evaluating, Step, sharedVars
  <1>3. CASE UNCHANGED respVars
    BY <1>1, <1>3 DEF respVars, vars, sharedVars
  <1>4. CASE RespondStep
    BY <1>2, <1>4, RangeOverStep, EachStep, EvaluatedStep, LayerSteps, EndRangeStep DEF RespondStep
  <1>5. CASE (\E g \in world : BeginSwap(g)) \/ EndSwap \/ OtherChange
    BY <1>5, ChangeStep
  <1>6. CASE \E key \in DOMAIN store.apps : GetResponse(key)
    BY <1>6, GetResponseStep
  <1>7. QED
    BY <1>3, <1>4, <1>5, <1>6 DEF RespNext

(***************************************************************************)
(* However many syncs happen during a call, and although its loops take    *)
(* the maps without the store's lock, each section of a response lists     *)
(* exactly the specs of one payload that was served or swapped in          *)
(* meanwhile.                                                              *)
(***************************************************************************)
THEOREM SectionsCorrect == RespSpec => []SectionsFromOneSync
  <1>1. RespInv => SectionsFromOneSync
    BY DEF RespInv, SectionsOK, SectionsFromOneSync, Complete, Holds, Lists
  <1>2. QED
    BY <1>1, InitResp, StepResp, PTL DEF RespSpec

-----------------------------------------------------------------------------
(***************************************************************************)
(* From here on: a quiet response.  KnownInv says that the evaluator's     *)
(* invariant holds when eval is called right away, for the specs a loop    *)
(* comes by; QuietInv what a response in progress has to do with the       *)
(* reference, one level above the depth at which names are asked for.      *)
(***************************************************************************)
KnownInv ==
    /\ IInv
    /\ swapping \in world \cup {None}
    /\ resp.seen \subseteq world
    /\ resp.result \in Results
    /\ resp.at = "delegate" => resp.result.delegate # None

\* What evalFunc comes to for a name.
Evaluation(v, k, n) == Ref(v, -1)[k][n]

EntryRight(v, k, n, e) ==
    LET res == Evaluation(v, k, n) IN
    /\ n \in NamesOf[k] /\ res \in Results
    /\ e.result = Cleaned(res)
    /\ e.layer = MergedLayer(v.store, k, n)
    /\ e.allocated = IF k = "layer" THEN res.delegate ELSE None

\* An experiment with a value, in a layer whose default value is null.
NullMerged(v, n) ==
    LET layer == MergedLayer(v.store, "config", n) IN
    /\ v.store.config[n] # None /\ Evaluation(v, "config", n).value # None
    /\ layer # None /\ v.store.layer[layer].default = "null"

\* Why a response may be empty.
Cause(v) ==
    \/ \E k \in Kinds : \E n \in NamesOf[k] : Evaluation(v, k, n) = Failure
    \/ \E n \in Configs : NullMerged(v, n)

LoopAt == {"each", "evaluating", "layerOf", "layerConfig", "delegate", "again"}

ResultAt == {"layerOf", "layerConfig", "delegate", "again"}

QuietOK(v, r) ==
    /\ \A k \in Kinds : \A n \in DOMAIN r.out[k] : EntryRight(v, k, n, r.out[k][n])
    /\ r.at = "failed" => Cause(v)
    /\ r.at \in LoopAt =>
          /\ r.specs = v.store[r.kind]
          /\ r.todo \subseteq {n \in NamesOf[r.kind] : v.store[r.kind][n] # None}
    /\ r.at \in LoopAt \ {"each"} =>
          /\ r.name \in NamesOf[r.kind]
          /\ v.store[r.kind][r.name] # None /\ r.spec = v.store[r.kind][r.name]
    /\ r.at \in ResultAt => r.result = Evaluation(v, r.kind, r.name)
    /\ r.at \in {"layerOf", "layerConfig"} => r.kind = "config" /\ Shares(r.spec)
    /\ r.at = "layerConfig" => r.layer = v.store.layerOf[r.name]
    /\ r.at \in {"delegate", "again"} => r.kind = "layer" /\ r.result.delegate # None
    /\ r.at = "again" => r.allocated = r.result.delegate

\* The evaluation a response waits for.
EvalRight(v, r, e) ==
    /\ r.at = "evaluating" => Right(v, Evaluation(v, r.kind, r.name), e)
    /\ r.at = "again" => Right(v, Evaluation(v, "config", r.result.delegate), e)

QuietInv ==
    resp.quiet => swapping = None /\ QuietOK(View, resp) /\ EvalRight(View, resp, ev[Responder])

-----------------------------------------------------------------------------
(***************************************************************************)
(* cleanExposures drops what it has already, and nothing else.             *)
(***************************************************************************)
CleanStep(x, h, n) ==
    IF n = 0 THEN <<>>
    ELSE IF x[n] \in ToSet(h[n - 1]) THEN h[n - 1] ELSE Append(h[n - 1], x[n])

IsClean(x, n, h) == h = [i \in 0..n |-> CleanStep(x, h, i)]

LEMMA CleanExists == ASSUME NEW x, NEW N \in Nat PROVE \E h : IsClean(x, N, h)
  <1> DEFINE There(n) == \E h : IsClean(x, n, h)
             Bad == {n \in Nat : ~There(n)}
  <1>1. ASSUME NEW n \in Nat, n # 0 => There(n - 1) PROVE There(n)
    <2>1. PICK h : n # 0 => IsClean(x, n - 1, h)
      BY <1>1
    <2> DEFINE C(i) == CleanStep(x, h, i)
               d == [i \in 0..n |-> C(i)]
    <2>2. \A i \in 0..(n - 1) : h[i] = C(i)
      <3>1. CASE n = 0
        BY <3>1
      <3>2. CASE n # 0
        <4>1. h = [i \in 0..(n - 1) |-> C(i)]
          BY <2>1, <3>2 DEF IsClean
        <4> HIDE DEF C
        <4>2. QED
          BY <4>1
      <3>3. QED
        BY <3>1, <3>2
    <2>3. ASSUME NEW i \in 0..n PROVE CleanStep(x, d, i) = C(i)
      <3>1. i # 0 => d[i - 1] = h[i - 1]
        BY <2>2
      <3> HIDE DEF d
      <3>2. QED
        BY <3>1 DEF CleanStep
    <2> HIDE DEF C
    <2>4. d = [i \in 0..n |-> CleanStep(x, d, i)]
      BY <2>3
    <2> HIDE DEF d
    <2>5. IsClean(x, n, d)
      BY <2>4 DEF IsClean
    <2>6. QED
      BY <2>5
  <1> HIDE DEF There
  <1>2. Bad = {}
    <2> SUFFICES ASSUME Bad # {} PROVE FALSE
      OBVIOUS
    <2>1. PICK n \in Bad : \A k \in Bad : n <= k
      <3>1. Bad \subseteq Nat
        OBVIOUS
      <3> HIDE DEF Bad
      <3>2. QED
        BY <3>1, Least
    <2>2. n # 0 => n - 1 \in Nat /\ n - 1 \notin Bad
      BY <2>1
    <2>3. QED
      BY <1>1, <2>2
  <1>3. QED
    BY <1>2 DEF There

LEMMA ToSetAppend ==
    ASSUME NEW S, NEW s \in Seq(S), NEW e
    PROVE  ToSet(Append(s, e)) = ToSet(s) \cup {e}
  <1> DEFINE a == Append(s, e)
             n == Len(s)
  <1>1. /\ n \in Nat /\ DOMAIN s = 1..n /\ DOMAIN a = 1..(n + 1)
        /\ a[n + 1] = e /\ \A i \in 1..n : a[i] = s[i]
    OBVIOUS
  <1>2. \A i : i \in 1..(n + 1) <=> i \in 1..n \/ i = n + 1
    BY <1>1
  <1> HIDE DEF a, n
  <1>3. {a[i] : i \in DOMAIN a} = {s[i] : i \in DOMAIN s} \cup {e}
    BY <1>1, <1>2
  <1>4. QED
    BY <1>3 DEF ToSet, a

LEMMA CleanExposures ==
    ASSUME NEW S, NEW x \in Seq(S)
    PROVE  ToSet(cleanExposures(x)) = ToSet(x)
  <1> DEFINE N == Len(x)
             h == CHOOSE f : IsClean(x, N, f)
             Good(n) == h[n] \in Seq(S) /\ ToSet(h[n]) = {x[i] : i \in 1..n}
             Bad == {n \in 0..N : ~Good(n)}
  <1>1. N \in Nat /\ DOMAIN x = 1..N /\ \A i \in 1..N : x[i] \in S
    OBVIOUS
  <1>2. cleanExposures(x) = h[N]
    BY DEF cleanExposures, IsClean, CleanStep
  <1>3. IsClean(x, N, h)
    BY <1>1, CleanExists
  <1> HIDE DEF h
  <1>4. \A n \in 0..N : h[n] = CleanStep(x, h, n)
    <2> DEFINE C(i) == CleanStep(x, h, i)
    <2>1. h = [i \in 0..N |-> C(i)]
      BY <1>3 DEF IsClean
    <2> HIDE DEF C
    <2>2. \A n \in 0..N : h[n] = C(n)
      BY <2>1
    <2>3. QED
      BY <2>2 DEF C
  <1>5. ASSUME NEW n \in 0..N, n # 0 => Good(n - 1) PROVE Good(n)
    <2>1. CASE n = 0
      <3>1. h[n] = <<>>
        BY <1>4, <2>1 DEF CleanStep
      <3>2. ToSet(<<>>) = {} /\ {x[i] : i \in 1..n} = {}
        BY <2>1 DEF ToSet
      <3>3. QED
        BY <3>1, <3>2, SMTT(30)
    <2>2. CASE n # 0
      <3> DEFINE g == h[n - 1]
      <3>1. n \in Nat /\ n - 1 \in Nat /\ n \in 1..N /\ x[n] \in S
        BY <1>1, <2>2
      <3>2. h[n] = IF x[n] \in ToSet(g) THEN g ELSE Append(g, x[n])
        BY <1>4, <2>2 DEF CleanStep
      <3>3. g \in Seq(S) /\ ToSet(g) = {x[i] : i \in 1..(n - 1)}
        BY <1>5, <2>2
      <3>4. {x[i] : i \in 1..n} = {x[i] : i \in 1..(n - 1)} \cup {x[n]}
        <4>1. \A i : i \in 1..n <=> i \in 1..(n - 1) \/ i = n
          BY <3>1
        <4>2. QED
          BY <4>1
      <3> HIDE DEF g
      <3>5. CASE x[n] \in ToSet(g)
        BY <3>2, <3>3, <3>4, <3>5
      <3>6. CASE x[n] \notin ToSet(g)
        <4>1. ToSet(Append(g, x[n])) = ToSet(g) \cup {x[n]}
          BY <3>3, ToSetAppend
        <4>2. Append(g, x[n]) \in Seq(S)
          BY <3>1, <3>3
        <4>3. QED
          BY <3>2, <3>3, <3>4, <3>6, <4>1, <4>2
      <3>7. QED
        BY <3>5, <3>6
    <2>3. QED
      BY <2>1, <2>2
  <1> HIDE DEF Good
  <1>6. Bad = {}
    <2> SUFFICES ASSUME Bad # {} PROVE FALSE
      OBVIOUS
    <2>1. PICK n \in Bad : \A k \in Bad : n <= k
      <3>1. Bad \subseteq Nat
        BY <1>1
      <3> HIDE DEF Bad
      <3>2. QED
        BY <3>1, Least
    <2>2. n \in 0..N /\ (n # 0 => n - 1 \in 0..N /\ n - 1 \notin Bad)
      BY <1>1, <2>1
    <2>3. QED
      BY <1>5, <2>2
  <1>7. Good(N) /\ {x[i] : i \in 1..N} = ToSet(x)
    BY <1>1, <1>6 DEF ToSet
  <1>8. QED
    BY <1>2, <1>7 DEF Good

\* In particular Agrees does not see it.
LEMMA CleanedAgrees == ASSUME NEW r \in Results PROVE Agrees(Cleaned(r), r)
  <1> DEFINE x == cleanExposures(r.exposures)
             y == cleanExposures(r.undelegated)
             c == [[r EXCEPT !.exposures = x] EXCEPT !.undelegated = y]
  <1>1. r.exposures \in Seq(Exposures) /\ r.undelegated \in Seq(Exposures)
    BY DEF Results
  <1>2. ToSet(x) = ToSet(r.exposures) /\ ToSet(y) = ToSet(r.undelegated)
    BY <1>1, CleanExposures
  <1>3. Cleaned(r) = c
    BY DEF Cleaned, Results
  <1> HIDE DEF x, y
  <1>4. /\ c.pass = r.pass /\ c.id = r.id /\ c.value = r.value
        /\ c.exposures = x /\ c.undelegated = y
    BY DEF Results
  <1>5. QED
    BY <1>2, <1>3, <1>4 DEF Agrees

-----------------------------------------------------------------------------
(***************************************************************************)
(* The evaluator, called for a spec right away.                            *)
(***************************************************************************)
LEMMA ResponderIs == Responder \in Threads /\ \A t \in Threads : t = Responder
  BY ResponderAssumption

LEMMA WorldFacts ==
    ASSUME IInv
    PROVE  /\ store \in world /\ world \subseteq UNION Worlds
           /\ \A g \in world : IsGeneration(g) /\ g.layerOf \in [Configs -> Layers \cup {None}]
  BY EvaluatorAssumption, ResponderAssumption DEF IInv, TypeOK

LEMMA IdleFacts == Idle.stack = <<>> /\ Base(Idle) = 0
  BY DEF Idle, Base

LEMMA EvaluateOK ==
    ASSUME NEW k \in Kinds, NEW spec \in Specs
    PROVE  EvOK(Enter(Idle, k, spec, 0))
  <1>1. AllWait(Idle.stack) /\ 0 \in Nat /\ 0 >= 2 * Len(Idle.stack) + Base(Idle)
    BY IdleFacts DEF AllWait
  <1>2. QED
    BY <1>1, IdleOK, EnterOK

LEMMA EvaluateRight ==
    ASSUME NEW v, NEW k \in Kinds, NEW n \in NamesOf[k], NEW spec \in Specs,
           v.store[k][n] = spec, spec # None
    PROVE  Right(v, Evaluation(v, k, n), Enter(Idle, k, spec, 0))
  <1> DEFINE asked == Evaluation(v, k, n)
  <1>1. 0 - 1 = -1 /\ 0 - 1 \in -1..Deepest /\ 0 \in Nat
    BY EvaluatorAssumption DEF Deepest
  <1>2. Chain(v, asked, Idle.stack) /\ AllRight(v, Idle.stack)
    BY IdleFacts DEF Chain, AllRight
  <1>3. Wanted(v, asked, Idle.stack, Len(Idle.stack)) = Ref(v, 0 - 1)[k][n]
    BY <1>1, IdleFacts DEF Wanted, Evaluation
  <1> HIDE DEF asked
  <1>4. Right(v, asked, Enter(Idle, k, spec, 0))
    BY <1>1, <1>2, <1>3, IdleOK, EnterRight
  <1>5. QED
    BY <1>4 DEF asked

\* What an evaluation that is over says of the name.
LEMMA OverRight ==
    ASSUME NEW v, NEW asked, NEW e, EvOK(e), Right(v, asked, e)
    PROVE  /\ e.at = "done" => asked = e.result
           /\ e.at = "panicked" => asked = Failure
  <1>1. e.at \in {"done", "panicked"} => Wanted(v, asked, e.stack, Len(e.stack)) = asked
    BY DEF EvOK, Wanted
  <1>2. QED
    BY <1>1 DEF Right

-----------------------------------------------------------------------------
(***************************************************************************)
(* Steps that leave what evaluations read alone.                           *)
(***************************************************************************)
Whole == RespInv /\ KnownInv /\ QuietInv

\* The part of KnownInv about the response.
KnownResp(r) ==
    /\ r.seen \subseteq world
    /\ r.result \in Results
    /\ r.at = "delegate" => r.result.delegate # None

LEMMA SameView == ASSUME UNCHANGED sharedVars PROVE View' = View /\ world' = world
  BY DEF sharedVars, View

LEMMA KnownKept ==
    ASSUME KnownInv, IInv', UNCHANGED <<sharedVars, swapping>>, KnownResp(resp')
    PROVE  KnownInv'
  BY DEF KnownInv, KnownResp, sharedVars

LEMMA SameIInv == ASSUME IInv, UNCHANGED vars PROVE IInv'
  BY DEF vars, sharedVars, IInv, TypeOK

LEMMA QuietKept ==
    ASSUME QuietInv, UNCHANGED <<sharedVars, swapping>>, resp'.quiet = resp.quiet,
           resp.quiet => QuietOK(View, resp') /\ EvalRight(View, resp', ev'[Responder])
    PROVE  QuietInv'
  <1> DEFINE v == View
  <1>1. View' = v
    BY SameView
  <1>2. resp'.quiet => QuietOK(v, resp') /\ EvalRight(v, resp', ev'[Responder])
    OBVIOUS
  <1>3. resp'.quiet => swapping' = None
    BY DEF QuietInv
  <1> HIDE DEF v
  <1>4. QED
    BY <1>1, <1>2, <1>3 DEF QuietInv

\* Nothing is evaluated.
LEMMA Elsewhere ==
    ASSUME NEW v, NEW r, NEW e, r.at \notin {"evaluating", "again"}
    PROVE  EvalRight(v, r, e)
  BY DEF EvalRight

LEMMA InitWhole == RespInit => KnownInv /\ QuietInv
  <1> SUFFICES ASSUME RespInit PROVE KnownInv /\ QuietInv
    OBVIOUS
  <1>1. IInv /\ swapping = None
    BY InitIInv DEF RespInit
  <1>2. /\ resp.at = "idle" /\ resp.seen = {} /\ resp.result = NoResult
        /\ \A k \in Kinds : resp.out[k] = <<>>
    BY DEF RespInit, Idling, NoEntries
  <1>3. KnownInv
    BY <1>1, <1>2, NoResultOK DEF KnownInv
  <1>4. \A k \in Kinds : DOMAIN resp.out[k] = {}
    BY <1>2
  <1>5. QuietOK(View, resp)
    BY <1>2, <1>4 DEF QuietOK, LoopAt, ResultAt
  <1>6. QED
    BY <1>1, <1>2, <1>3, <1>5, Elsewhere DEF QuietInv

LEMMA GetResponseWhole ==
    ASSUME Whole, NEW key, GetResponse(key)
    PROVE  KnownInv' /\ QuietInv'
  <1> DEFINE app == getAppIDForSDKKey(key)
             now == {store}
  <1>1. /\ resp' = [Idling EXCEPT !.at = "range", !.appId = app, !.seen = now]
        /\ UNCHANGED <<vars, swapping>> /\ swapping = None
    BY DEF GetResponse
  <1> HIDE DEF app, now
  <1>2. /\ resp'.at = "range" /\ resp'.seen = now /\ resp'.result = NoResult
        /\ resp'.out = NoEntries
    BY <1>1 DEF Idling
  <1>3. now \subseteq world /\ UNCHANGED <<sharedVars, swapping>> /\ IInv'
    BY <1>1, WorldFacts, SameIInv DEF now, Whole, KnownInv, vars
  <1>4. KnownInv'
    BY <1>2, <1>3, NoResultOK, KnownKept DEF Whole, KnownResp
  <1>5. \A k \in Kinds : DOMAIN resp'.out[k] = {}
    BY <1>2 DEF NoEntries
  <1>6. QuietOK(View', resp')
    BY <1>2, <1>5 DEF QuietOK, LoopAt, ResultAt
  <1>7. QED
    BY <1>1, <1>2, <1>4, <1>6, Elsewhere DEF QuietInv

LEMMA RangeOverWhole ==
    ASSUME Whole, NEW g, RangeOver(g)
    PROVE  KnownInv' /\ QuietInv'
  <1> DEFINE k == resp.kind
             specs == g[k]
             todo == {n \in NamesOf[k] : specs[n] # None}
             v == View
  <1>1. /\ resp' = [resp EXCEPT !.at = "each", !.specs = specs, !.todo = todo]
        /\ UNCHANGED <<vars, swapping>>
        /\ g = store \/ (swapping # None /\ g = swapping)
    BY DEF RangeOver
  <1>2. resp.quiet => specs = v.store[k] /\ QuietOK(v, resp)
    BY <1>1 DEF Whole, QuietInv, View
  <1>3. resp.quiet => todo = {n \in NamesOf[k] : v.store[k][n] # None}
    BY <1>2
  <1> HIDE DEF specs, todo, v
  <1>4. /\ resp'.at = "each" /\ resp'.kind = k /\ resp'.specs = specs /\ resp'.todo = todo
        /\ resp'.seen = resp.seen /\ resp'.result = resp.result /\ resp'.out = resp.out
        /\ resp'.quiet = resp.quiet
    BY <1>1 DEF Whole, RespInv, IsResp, RespFields
  <1>5. KnownInv' /\ UNCHANGED <<sharedVars, swapping>>
    <2>1. UNCHANGED <<sharedVars, swapping>>
      BY <1>1 DEF vars
    <2>2. IInv'
      BY <1>1, SameIInv DEF Whole, KnownInv
    <2>3. QED
      BY <1>4, <2>1, <2>2, KnownKept DEF Whole, KnownInv, KnownResp
  <1>6. resp.quiet => QuietOK(v, resp')
    BY <1>2, <1>3, <1>4 DEF QuietOK, LoopAt, ResultAt
  <1>7. QED
    BY <1>4, <1>5, <1>6, Elsewhere, QuietKept DEF Whole, v

LEMMA EachWhole ==
    ASSUME Whole, NEW n, Each(n)
    PROVE  KnownInv' /\ QuietInv'
  <1> DEFINE k == resp.kind
             todo == resp.todo \ {n}
             s == LoopSpec(n)
             v == View
             e == Enter(Idle, k, s, 0)
  <1>1. /\ resp.at = "each" /\ n \in resp.todo /\ InCall(resp) /\ k \in Kinds
        /\ UNCHANGED <<sharedVars, swapping>>
    BY DEF Each, InCall, Whole, RespInv, IsResp
  <1>2. PICK g \in resp.seen : Filling(resp, g)
    BY <1>1 DEF Whole, RespInv, SectionsOK
  <1>3. n \in NamesOf[k] /\ s \in Specs /\ s # None
    <2>1. n \in NamesOf[k] /\ g[k][n] # None /\ s = g[k][n]
      BY <1>1, <1>2 DEF Filling, LoopSpec
    <2>2. IsGeneration(g)
      BY <1>2, WorldFacts DEF Whole, KnownInv
    <2>3. QED
      BY <1>1, <2>1, <2>2 DEF IsGeneration
  <1>4. resp.quiet => QuietOK(v, resp) /\ v.store[k][n] = s
    BY <1>1 DEF Whole, QuietInv, QuietOK, LoopAt, LoopSpec
  <1>5. \/ /\ ev' = [ev EXCEPT ![Responder] = e]
           /\ resp' = [resp EXCEPT !.at = "evaluating", !.name = n, !.todo = todo, !.spec = s]
        \/ resp' = [resp EXCEPT !.todo = todo] /\ UNCHANGED ev
    BY DEF Each, Evaluate
  <1>6. EvOK(e)
    BY <1>1, <1>3, EvaluateOK
  <1>7. resp.quiet => Right(v, Evaluation(v, k, n), e)
    BY <1>1, <1>3, <1>4, EvaluateRight
  <1>8. todo \subseteq resp.todo
    OBVIOUS
  <1> HIDE DEF todo, s, v, e
  <1>9. CASE /\ ev' = [ev EXCEPT ![Responder] = e]
             /\ resp' = [resp EXCEPT !.at = "evaluating", !.name = n, !.todo = todo, !.spec = s]
    <2>1. IInv' /\ ev'[Responder] = e
      BY <1>1, <1>6, <1>9, ResponderIs, OneEvaluation DEF Whole, KnownInv, IInv
    <2>2. /\ resp'.at = "evaluating" /\ resp'.kind = k /\ resp'.specs = resp.specs
          /\ resp'.todo = todo /\ resp'.name = n /\ resp'.spec = s /\ resp'.out = resp.out
          /\ resp'.seen = resp.seen /\ resp'.result = resp.result /\ resp'.quiet = resp.quiet
      BY <1>9 DEF Whole, RespInv, IsResp, RespFields
    <2>3. KnownInv'
      BY <1>1, <2>1, <2>2, KnownKept DEF Whole, KnownInv, KnownResp
    <2>4. resp.quiet => QuietOK(v, resp')
      BY <1>1, <1>3, <1>4, <1>8, <2>2 DEF QuietOK, LoopAt, ResultAt
    <2>5. resp.quiet => EvalRight(v, resp', e)
      BY <1>7, <2>2 DEF EvalRight
    <2>6. QED
      BY <1>1, <2>1, <2>2, <2>3, <2>4, <2>5, QuietKept DEF Whole, v
  <1>10. CASE resp' = [resp EXCEPT !.todo = todo] /\ UNCHANGED ev
    <2>1. /\ resp'.at = "each" /\ resp'.kind = k /\ resp'.specs = resp.specs
          /\ resp'.todo = todo /\ resp'.out = resp.out
          /\ resp'.seen = resp.seen /\ resp'.result = resp.result /\ resp'.quiet = resp.quiet
      BY <1>1, <1>10 DEF Whole, RespInv, IsResp, RespFields
    <2>2. KnownInv'
      BY <1>1, <1>10, <2>1, SameIInv, KnownKept DEF Whole, KnownInv, KnownResp, vars
    <2>3. resp.quiet => QuietOK(v, resp')
      BY <1>1, <1>4, <1>8, <2>1 DEF QuietOK, LoopAt, ResultAt
    <2>4. QED
      BY <1>1, <2>1, <2>2, <2>3, Elsewhere, QuietKept DEF Whole, v
  <1>11. QED
    BY <1>5, <1>9, <1>10

LEMMA EvaluatingWhole == ASSUME Whole, Evaluating PROVE KnownInv' /\ QuietInv'
  <1> DEFINE e == ev[Responder]
             d == Stepped(e)
             v == View
  <1>1. Step(Responder) /\ UNCHANGED <<swapping, resp>> /\ IInv
    BY DEF Evaluating, Whole, KnownInv
  <1>2. /\ e.at \in RunningAt /\ ev' = [ev EXCEPT ![Responder] = d]
        /\ UNCHANGED sharedVars /\ IInv'
    BY <1>1, ResponderIs, StepIs, StepIInv
  <1>3. EvOK(e) /\ ev'[Responder] = d
    BY <1>1, <1>2, ResponderIs DEF IInv
  <1>4. \A asked : Right(v, asked, e) => Right(v, asked, d)
    BY <1>1, <1>2, <1>3, SteppedRight
  <1>5. resp.quiet => QuietOK(v, resp) /\ EvalRight(v, resp, e)
    BY DEF Whole, QuietInv
  <1> HIDE DEF d, v
  <1>6. resp.quiet => EvalRight(v, resp, d)
    BY <1>4, <1>5 DEF EvalRight
  <1>7. KnownInv'
    BY <1>1, <1>2, KnownKept DEF Whole, KnownInv, KnownResp
  <1>8. QED
    BY <1>1, <1>2, <1>3, <1>5, <1>6, <1>7, QuietKept DEF Whole, v

-----------------------------------------------------------------------------
(***************************************************************************)
(* The evaluation is over: its result is put into the response.            *)
(***************************************************************************)
LEMMA AddQuiet ==
    ASSUME Whole, NEW layer, NEW allocated, NEW res \in Results, Add(res, layer, allocated),
           UNCHANGED <<vars, swapping>>, resp.at \in LoopAt \ {"each"},
           resp.quiet => /\ res = Evaluation(View, resp.kind, resp.name)
                         /\ layer = MergedLayer(View.store, resp.kind, resp.name)
                         /\ allocated = IF resp.kind = "layer" THEN res.delegate ELSE None
    PROVE  KnownInv' /\ QuietInv'
  <1> DEFINE entry == Entry(resp.spec, Cleaned(res), layer, allocated)
             k == resp.kind
             new == Put(resp.out[k], resp.name, entry)
             out == [resp.out EXCEPT ![k] = new]
             v == View
  <1>1. UNCHANGED <<sharedVars, swapping>> /\ IInv'
    BY SameIInv DEF Whole, KnownInv, vars
  <1>2. \A n \in DOMAIN new : new[n] = IF n = resp.name THEN entry ELSE resp.out[k][n]
    BY DEF Put
  <1>3. \A n \in DOMAIN new : n = resp.name \/ n \in DOMAIN resp.out[k]
    BY DEF Put
  <1>4. entry.result = Cleaned(res) /\ entry.layer = layer /\ entry.allocated = allocated
    BY DEF Entry
  <1>5. resp' = [resp EXCEPT !.at = "each", !.layer = None, !.allocated = None, !.spec = None,
                             !.name = None, !.result = NoResult, !.out = out]
    BY DEF Add, Whole, RespInv, IsResp
  <1> HIDE DEF new, entry
  <1>6. k \in Kinds /\ out[k] = new /\ \A x \in Kinds : x # k => out[x] = resp.out[x]
    BY DEF Whole, RespInv, IsResp
  <1> HIDE DEF out
  <1>7. /\ resp'.at = "each" /\ resp'.kind = k /\ resp'.specs = resp.specs /\ resp'.out = out
        /\ resp'.todo = resp.todo /\ resp'.seen = resp.seen /\ resp'.result = NoResult
        /\ resp'.quiet = resp.quiet
    BY <1>5 DEF Whole, RespInv, IsResp, RespFields
  <1>8. KnownInv'
    BY <1>1, <1>7, NoResultOK, KnownKept DEF Whole, KnownInv, KnownResp
  <1>9. resp.quiet => /\ QuietOK(v, resp) /\ res = Evaluation(v, k, resp.name)
                      /\ layer = MergedLayer(v.store, k, resp.name)
    BY DEF Whole, QuietInv
  <1>10. ASSUME resp.quiet PROVE QuietOK(v, resp')
    <2>1. EntryRight(v, k, resp.name, entry)
      BY <1>4, <1>9, <1>10 DEF EntryRight, QuietOK
    <2> HIDE DEF v
    <2>2. ASSUME NEW x \in Kinds, NEW n \in DOMAIN out[x] PROVE EntryRight(v, x, n, out[x][n])
      <3>1. CASE x # k
        BY <1>6, <1>9, <1>10, <2>2, <3>1 DEF QuietOK
      <3>2. CASE x = k /\ n = resp.name
        BY <1>2, <1>6, <2>1, <2>2, <3>2
      <3>3. CASE x = k /\ n # resp.name
        <4>1. n \in DOMAIN resp.out[k] /\ out[x][n] = resp.out[k][n]
          BY <1>2, <1>3, <1>6, <2>2, <3>3
        <4>2. QED
          BY <1>6, <1>9, <1>10, <3>3, <4>1 DEF QuietOK
      <3>4. QED
        BY <3>1, <3>2, <3>3
    <2>3. QED
      BY <1>7, <1>9, <1>10, <2>2 DEF QuietOK, LoopAt, ResultAt
  <1>11. QED
    BY <1>1, <1>7, <1>8, <1>10, Elsewhere, QuietKept DEF Whole

LEMMA FailQuiet ==
    ASSUME Whole, Fail, UNCHANGED <<vars, swapping>>, resp.quiet => Cause(View)
    PROVE  KnownInv' /\ QuietInv'
  <1> DEFINE out == NoEntries
             none == <<>>
  <1>1. UNCHANGED <<sharedVars, swapping>> /\ IInv'
    BY SameIInv DEF Whole, KnownInv, vars
  <1>2. \A k \in Kinds : DOMAIN out[k] = {}
    BY DEF NoEntries
  <1>3. resp' = [resp EXCEPT !.at = "failed", !.out = out, !.specs = none]
    BY DEF Fail
  <1> HIDE DEF out, none
  <1>4. /\ resp'.at = "failed" /\ resp'.out = out /\ resp'.seen = resp.seen
        /\ resp'.result = resp.result /\ resp'.quiet = resp.quiet
    BY <1>3 DEF Whole, RespInv, IsResp, RespFields
  <1>5. KnownInv'
    BY <1>1, <1>4, KnownKept DEF Whole, KnownInv, KnownResp
  <1>6. resp.quiet => QuietOK(View, resp')
    BY <1>2, <1>4 DEF QuietOK, LoopAt, ResultAt
  <1>7. QED
    BY <1>1, <1>4, <1>5, <1>6, Elsewhere, QuietKept DEF Whole

LEMMA EvaluatedWhole == ASSUME Whole, Evaluated PROVE KnownInv' /\ QuietInv'
  <1> DEFINE res == ev[Responder].result
             k == resp.kind
             v == View
             none == None
  <1>1. /\ resp.at = "evaluating" /\ ev[Responder].at = "done" /\ UNCHANGED <<vars, swapping>>
        /\ EvOK(ev[Responder])
    BY ResponderIs DEF Evaluated, Whole, KnownInv, IInv
  <1>2. \/ /\ k = "config" /\ Shares(resp.spec)
           /\ resp' = [resp EXCEPT !.at = "layerOf", !.result = res]
        \/ /\ k = "layer" /\ res.delegate # None
           /\ resp' = [resp EXCEPT !.at = "delegate", !.result = res]
        \/ /\ k = "layer" => res.delegate = None
           /\ k = "config" => ~Shares(resp.spec)
           /\ Add(res, none, none)
    BY DEF Evaluated
  <1>3. res \in Results
    BY <1>1, EvParts
  <1>4. resp.quiet => QuietOK(v, resp) /\ res = Evaluation(v, k, resp.name)
    BY <1>1, OverRight DEF Whole, QuietInv, EvalRight
  <1>5. UNCHANGED <<sharedVars, swapping>> /\ IInv'
    BY <1>1, SameIInv DEF Whole, KnownInv, vars
  <1> HIDE DEF res, v
  <1>6. ASSUME NEW l, resp' = [resp EXCEPT !.at = l, !.result = res],
               \/ l = "layerOf" /\ k = "config" /\ Shares(resp.spec)
               \/ l = "delegate" /\ k = "layer" /\ res.delegate # None
        PROVE  KnownInv' /\ QuietInv'
    <2>1. /\ resp'.at = l /\ resp'.kind = k /\ resp'.specs = resp.specs /\ resp'.out = resp.out
          /\ resp'.todo = resp.todo /\ resp'.seen = resp.seen /\ resp'.result = res
          /\ resp'.quiet = resp.quiet /\ resp'.name = resp.name /\ resp'.spec = resp.spec
      BY <1>6 DEF Whole, RespInv, IsResp, RespFields
    <2>2. KnownInv'
      BY <1>3, <1>5, <1>6, <2>1, KnownKept DEF Whole, KnownInv, KnownResp
    <2>3. resp.quiet => QuietOK(v, resp')
      BY <1>1, <1>4, <1>6, <2>1 DEF QuietOK, LoopAt, ResultAt
    <2>4. QED
      BY <1>5, <1>6, <2>1, <2>2, <2>3, Elsewhere, QuietKept DEF Whole, v
  <1>7. CASE /\ k = "layer" => res.delegate = None
             /\ k = "config" => ~Shares(resp.spec)
             /\ Add(res, none, none)
    <2>1. resp.quiet => none = MergedLayer(v.store, k, resp.name)
      <3>1. resp.quiet => resp.spec = v.store[k][resp.name]
        BY <1>1, <1>4 DEF QuietOK, LoopAt
      <3>2. QED
        BY <1>7, <3>1 DEF MergedLayer
    <2>2. QED
      BY <1>1, <1>3, <1>4, <1>7, <2>1, AddQuiet DEF LoopAt, v
  <1>8. QED
    BY <1>2, <1>6, <1>7

LEMMA getExperimentLayerWhole == ASSUME Whole, getExperimentLayer PROVE KnownInv' /\ QuietInv'
  <1> DEFINE layer == store.layerOf[resp.name]
             v == View
  <1>1. /\ resp.at = "layerOf" /\ UNCHANGED <<vars, swapping>>
        /\ resp' = [resp EXCEPT !.at = "layerConfig", !.layer = layer]
    BY DEF getExperimentLayer
  <1>2. UNCHANGED <<sharedVars, swapping>> /\ IInv'
    BY <1>1, SameIInv DEF Whole, KnownInv, vars
  <1>3. resp.quiet => QuietOK(v, resp)
    BY DEF Whole, QuietInv
  <1>4. layer = v.store.layerOf[resp.name]
    BY DEF View
  <1> HIDE DEF layer, v
  <1>5. /\ resp'.at = "layerConfig" /\ resp'.kind = resp.kind /\ resp'.specs = resp.specs
        /\ resp'.out = resp.out /\ resp'.todo = resp.todo /\ resp'.seen = resp.seen
        /\ resp'.result = resp.result /\ resp'.quiet = resp.quiet /\ resp'.name = resp.name
        /\ resp'.layer = layer /\ resp'.spec = resp.spec
    BY <1>1 DEF Whole, RespInv, IsResp, RespFields
  <1>6. KnownInv'
    BY <1>2, <1>5, KnownKept DEF Whole, KnownInv, KnownResp
  <1>7. resp.quiet => QuietOK(v, resp')
    BY <1>1, <1>3, <1>4, <1>5 DEF QuietOK, LoopAt, ResultAt
  <1>8. QED
    BY <1>2, <1>5, <1>6, <1>7, Elsewhere, QuietKept DEF Whole, v

LEMMA MergeLayerDefaultWhole == ASSUME Whole, MergeLayerDefault PROVE KnownInv' /\ QuietInv'
  <1> DEFINE layer == IF resp.layer = None THEN None ELSE store.layer[resp.layer]
             none == None
             v == View
  <1>1. /\ resp.at = "layerConfig" /\ UNCHANGED <<vars, swapping>>
        /\ \/ layer = None /\ Add(resp.result, none, none)
           \/ layer # None /\ layer.default = "null" /\ resp.result.value # None /\ Fail
           \/ layer # None /\ Add(resp.result, resp.layer, none)
    BY DEF MergeLayerDefault, EmptyValue
  <1>2. resp.quiet => /\ resp.result = Evaluation(v, resp.kind, resp.name)
                      /\ resp.kind = "config" /\ resp.name \in NamesOf[resp.kind]
                      /\ Shares(resp.spec) /\ resp.layer = v.store.layerOf[resp.name]
                      /\ v.store[resp.kind][resp.name] # None
                      /\ resp.spec = v.store[resp.kind][resp.name]
    BY <1>1 DEF Whole, QuietInv, QuietOK, ResultAt, LoopAt
  <1>3. resp.result \in Results
    BY DEF Whole, KnownInv
  <1>4. layer # None => resp.layer # None
    OBVIOUS
  <1>5. layer = IF resp.layer = None THEN None ELSE v.store.layer[resp.layer]
    BY ViewFacts
  <1> HIDE DEF v, layer
  <1>6. resp.quiet => MergedLayer(v.store, resp.kind, resp.name)
                        = IF layer = None THEN None ELSE resp.layer
    BY <1>2, <1>4, <1>5 DEF MergedLayer
  <1>7. CASE layer # None /\ layer.default = "null" /\ resp.result.value # None /\ Fail
    <2>1. ASSUME resp.quiet PROVE Cause(v)
      <3>1. resp.name \in Configs
        BY <1>2, <2>1, NamesFacts
      <3>2. MergedLayer(v.store, "config", resp.name) = resp.layer
        BY <1>2, <1>6, <1>7, <2>1
      <3>3. v.store.config[resp.name] # None /\ Evaluation(v, "config", resp.name).value # None
        BY <1>2, <1>7, <2>1
      <3>4. NullMerged(v, resp.name)
        BY <1>4, <1>5, <1>7, <3>2, <3>3 DEF NullMerged
      <3>5. QED
        BY <3>1, <3>4 DEF Cause
    <2>2. QED
      BY <1>1, <1>7, <2>1, FailQuiet DEF v
  <1>8. ASSUME NEW l, l = IF layer = None THEN None ELSE resp.layer, Add(resp.result, l, none)
        PROVE  KnownInv' /\ QuietInv'
    BY <1>1, <1>2, <1>3, <1>6, <1>8, AddQuiet DEF LoopAt, v
  <1>9. QED
    BY <1>1, <1>7, <1>8

LEMMA DelegateWhole == ASSUME Whole, Delegate PROVE KnownInv' /\ QuietInv'
  <1> DEFINE name == resp.result.delegate
             found == store.config[name]
             k == IF found = None THEN "gate" ELSE "config"
             spec == IF found = None THEN ZeroSpec ELSE found
             a == IF found = None THEN None ELSE name
             v == View
             e == Enter(Idle, k, spec, 0)
  <1>1. /\ resp.at = "delegate" /\ UNCHANGED <<sharedVars, swapping>>
        /\ ev' = [ev EXCEPT ![Responder] = e]
        /\ resp' = [resp EXCEPT !.at = "again", !.allocated = a]
    BY DEF Delegate, Evaluate
  <1>2. name \in Configs
    <2>1. resp.result \in Results /\ name # None
      BY <1>1 DEF Whole, KnownInv
    <2>2. QED
      BY <2>1 DEF Results
  <1>3. k \in Kinds /\ spec \in Specs
    <2>1. ZeroSpec \in Specs
      <3> DEFINE no == FALSE
                 none == <<>>
                 apps == {}
      <3>1. no \in BOOLEAN /\ none \in Seq(Rules) /\ apps \in SUBSET STRING
        OBVIOUS
      <3>2. "" \in Entities
        BY DEF Entities
      <3>3. ZeroSpec = [enabled |-> no, rules |-> none, entity |-> "", apps |-> apps, shared |-> no,
                        default |-> "empty"]
        BY DEF ZeroSpec
      <3> HIDE DEF no, none, apps
      <3>4. QED
        BY <3>1, <3>2, <3>3 DEF Specs
    <2>2. found \in Specs \cup {None}
      <3>1. IsGeneration(store)
        BY WorldFacts DEF Whole, KnownInv
      <3>2. store["config"] \in [Configs -> Specs \cup {None}]
        BY <3>1, NamesFacts DEF IsGeneration, Kinds
      <3>3. QED
        BY <1>2, <3>2
    <2>3. QED
      BY <2>1, <2>2 DEF Kinds
  <1>4. EvOK(e)
    BY <1>3, EvaluateOK
  <1>5. ASSUME resp.quiet
        PROVE  /\ QuietOK(v, resp) /\ found # None /\ a = name
               /\ Right(v, Evaluation(v, "config", name), e)
    <2>1. /\ QuietOK(v, resp) /\ resp.kind \in Kinds /\ resp.name \in NamesOf[resp.kind]
          /\ resp.result = Ref(v, -1)[resp.kind][resp.name]
          /\ resp.result.delegate # None /\ resp.result \in Results
      BY <1>1, <1>5
         DEF Whole, QuietInv, QuietOK, LoopAt, ResultAt, KnownInv, Evaluation, RespInv, IsResp
    <2>2. IsGeneration(v.store) /\ v.store = store /\ -1 \in -1..Deepest
      BY WorldFacts, ViewFacts, EvaluatorAssumption DEF Whole, KnownInv, Deepest
    <2> HIDE DEF v
    <2>3. v.store["config"][name] # None
      BY <2>1, <2>2, DelegateKnown
    <2>4. found # None /\ k = "config" /\ spec = v.store["config"][name] /\ name \in NamesOf["config"]
      BY <1>2, <2>2, <2>3, NamesFacts
    <2>5. Right(v, Evaluation(v, "config", name), Enter(Idle, "config", spec, 0))
      <3> HIDE DEF spec, name
      <3>1. "config" \in Kinds /\ spec # None
        BY <2>3, <2>4 DEF Kinds
      <3>2. QED
        BY <1>3, <2>4, <3>1, EvaluateRight
    <2>6. QED
      BY <2>1, <2>4, <2>5
  <1> HIDE DEF a, v, e
  <1>6. IInv' /\ ev'[Responder] = e
    BY <1>1, <1>4, ResponderIs, OneEvaluation DEF Whole, KnownInv, IInv
  <1>7. /\ resp'.at = "again" /\ resp'.kind = resp.kind /\ resp'.specs = resp.specs
        /\ resp'.out = resp.out /\ resp'.todo = resp.todo /\ resp'.seen = resp.seen
        /\ resp'.result = resp.result /\ resp'.quiet = resp.quiet /\ resp'.name = resp.name
        /\ resp'.allocated = a /\ resp'.spec = resp.spec
    BY <1>1 DEF Whole, RespInv, IsResp, RespFields
  <1>8. KnownInv'
    BY <1>1, <1>6, <1>7, KnownKept DEF Whole, KnownInv, KnownResp
  <1>9. resp.quiet => QuietOK(v, resp')
    BY <1>1, <1>5, <1>7 DEF QuietOK, LoopAt, ResultAt
  <1>10. resp.quiet => EvalRight(v, resp', e)
    BY <1>5, <1>7 DEF EvalRight
  <1>11. QED
    BY <1>1, <1>6, <1>7, <1>8, <1>9, <1>10, QuietKept DEF Whole, v

LEMMA AllocateWhole == ASSUME Whole, Allocate PROVE KnownInv' /\ QuietInv'
  <1> DEFINE none == None
             v == View
  <1>1. /\ resp.at = "again" /\ UNCHANGED <<vars, swapping>>
        /\ Add(resp.result, none, resp.allocated)
    BY DEF Allocate
  <1>2. resp.result \in Results
    BY DEF Whole, KnownInv
  <1>3. resp.quiet => /\ resp.result = Evaluation(v, resp.kind, resp.name) /\ resp.kind = "layer"
                      /\ resp.allocated = resp.result.delegate
    BY <1>1 DEF Whole, QuietInv, QuietOK, ResultAt
  <1>4. resp.quiet => none = MergedLayer(v.store, resp.kind, resp.name)
    BY <1>3 DEF MergedLayer
  <1> HIDE DEF none, v
  <1>5. QED
    BY <1>1, <1>2, <1>3, <1>4, AddQuiet DEF LoopAt, v

LEMMA PanickedWhole == ASSUME Whole, Panicked PROVE KnownInv' /\ QuietInv'
  <1> DEFINE v == View
             e == ev[Responder]
  <1>1. /\ resp.at \in {"evaluating", "again"} /\ e.at = "panicked" /\ Fail
        /\ UNCHANGED <<vars, swapping>> /\ EvOK(e)
    BY ResponderIs DEF Panicked, Whole, KnownInv, IInv
  <1>2. ASSUME resp.quiet PROVE Cause(v)
    <2>1. QuietOK(v, resp) /\ EvalRight(v, resp, e)
      BY <1>2 DEF Whole, QuietInv
    <2> HIDE DEF v, e
    <2>2. CASE resp.at = "evaluating"
      <3>1. Evaluation(v, resp.kind, resp.name) = Failure
        BY <1>1, <2>1, <2>2, OverRight DEF EvalRight
      <3>2. resp.kind \in Kinds /\ resp.name \in NamesOf[resp.kind]
        BY <2>1, <2>2 DEF Whole, RespInv, IsResp, QuietOK, LoopAt
      <3>3. QED
        BY <3>1, <3>2 DEF Cause
    <2>3. CASE resp.at = "again"
      <3>1. Evaluation(v, "config", resp.result.delegate) = Failure
        BY <1>1, <2>1, <2>3, OverRight DEF EvalRight
      <3>2. resp.result \in Results /\ resp.result.delegate # None
        BY <2>1, <2>3 DEF Whole, KnownInv, QuietOK
      <3>3. "config" \in Kinds /\ resp.result.delegate \in NamesOf["config"]
        BY <3>2, NamesFacts DEF Results, Kinds
      <3>4. QED
        BY <3>1, <3>3 DEF Cause
    <2>4. QED
      BY <1>1, <2>2, <2>3
  <1>3. QED
    BY <1>1, <1>2, FailQuiet

LEMMA EndRangeWhole == ASSUME Whole, EndRange PROVE KnownInv' /\ QuietInv'
  <1> DEFINE none == <<>>
             next == NextKind[resp.kind]
             v == View
  <1>1. /\ resp.at = "each" /\ UNCHANGED <<vars, swapping>>
        /\ \/ resp' = [resp EXCEPT !.at = "done", !.specs = none]
           \/ resp' = [resp EXCEPT !.at = "range", !.kind = next]
    BY DEF EndRange
  <1>2. UNCHANGED <<sharedVars, swapping>> /\ IInv'
    BY <1>1, SameIInv DEF Whole, KnownInv, vars
  <1>3. resp.quiet => QuietOK(v, resp)
    BY DEF Whole, QuietInv
  <1> HIDE DEF none, next, v
  <1>4. /\ resp'.at \in {"done", "range"} /\ resp'.out = resp.out /\ resp'.seen = resp.seen
        /\ resp'.result = resp.result /\ resp'.quiet = resp.quiet
    <2>1. CASE resp' = [resp EXCEPT !.at = "done", !.specs = none]
      BY <2>1 DEF Whole, RespInv, IsResp, RespFields
    <2>2. CASE resp' = [resp EXCEPT !.at = "range", !.kind = next]
      BY <2>2 DEF Whole, RespInv, IsResp, RespFields
    <2>3. QED
      BY <1>1, <2>1, <2>2
  <1>5. KnownInv'
    BY <1>2, <1>4, KnownKept DEF Whole, KnownInv, KnownResp
  <1>6. resp.quiet => QuietOK(v, resp')
    BY <1>3, <1>4 DEF QuietOK, LoopAt, ResultAt
  <1>7. QED
    BY <1>2, <1>4, <1>5, <1>6, Elsewhere, QuietKept DEF Whole, v

-----------------------------------------------------------------------------
(***************************************************************************)
(* Steps that change what evaluations read end the quiet; a sync that had  *)
(* begun before has done so already.                                       *)
(***************************************************************************)
LEMMA BeginSwapWhole ==
    ASSUME Whole, NEW g \in world, BeginSwap(g)
    PROVE  KnownInv' /\ QuietInv'
  <1> DEFINE no == FALSE
             seen == resp.seen \cup {g}
  <1>1. /\ Change /\ swapping' = g /\ UNCHANGED <<world, store, overrides, idList>>
        /\ resp' = [resp EXCEPT !.quiet = no, !.seen = seen]
    BY DEF BeginSwap
  <1>2. ~no /\ seen \subseteq world
    BY DEF Whole, KnownInv
  <1> HIDE DEF no, seen
  <1>3. /\ resp'.at = resp.at /\ resp'.result = resp.result /\ resp'.quiet = no
        /\ resp'.seen = seen
    BY <1>1 DEF Whole, RespInv, IsResp, RespFields
  <1>4. IInv'
    BY <1>1, SharedIInv DEF Whole, KnownInv, IInv, TypeOK
  <1>5. QED
    BY <1>1, <1>2, <1>3, <1>4 DEF Whole, KnownInv, QuietInv

LEMMA EndSwapWhole == ASSUME Whole, EndSwap PROVE KnownInv' /\ QuietInv'
  <1>1. /\ swapping # None /\ store' = swapping /\ swapping' = None
        /\ UNCHANGED <<world, overrides, idList, changes, ev, resp>>
    BY DEF EndSwap
  <1>2. IInv'
    BY <1>1 DEF Whole, KnownInv, IInv, TypeOK
  <1>3. ~resp.quiet
    BY <1>1 DEF Whole, QuietInv
  <1>4. QED
    BY <1>1, <1>2, <1>3 DEF Whole, KnownInv, QuietInv

LEMMA OtherChangeWhole == ASSUME Whole, OtherChange PROVE KnownInv' /\ QuietInv'
  <1> DEFINE no == FALSE
  <1>1. /\ Changes /\ world' = world /\ swapping' = swapping
        /\ resp' = [resp EXCEPT !.quiet = no]
    BY DEF OtherChange, Changes, Override, SyncIDList
  <1>2. ~no
    OBVIOUS
  <1> HIDE DEF no
  <1>3. /\ resp'.at = resp.at /\ resp'.result = resp.result /\ resp'.quiet = no
        /\ resp'.seen = resp.seen
    BY <1>1 DEF Whole, RespInv, IsResp, RespFields
  <1>4. IInv'
    BY <1>1, ChangesIInv DEF Whole, KnownInv
  <1>5. QED
    BY <1>1, <1>2, <1>3, <1>4 DEF Whole, KnownInv, QuietInv

LEMMA StepWhole == Whole /\ [RespNext]_respVars => Whole'
  <1> SUFFICES ASSUME Whole, [RespNext]_respVars PROVE KnownInv' /\ QuietInv'
    BY StepResp DEF Whole
  <1>1. CASE UNCHANGED respVars
    <2>1. UNCHANGED <<vars, swapping, resp>>
      BY <1>1 DEF respVars
    <2>2. IInv' /\ UNCHANGED <<sharedVars, swapping, resp, ev>>
      BY <2>1, SameIInv DEF Whole, KnownInv, vars
    <2>3. KnownInv'
      BY <2>2, KnownKept DEF Whole, KnownInv, KnownResp
    <2>4. QED
      BY <2>2, <2>3, QuietKept DEF Whole, QuietInv
  <1>2. CASE RespondStep
    BY <1>2, RangeOverWhole, EachWhole, EvaluatingWhole, EvaluatedWhole, getExperimentLayerWhole,
       MergeLayerDefaultWhole, DelegateWhole, AllocateWhole, PanickedWhole, EndRangeWhole
       DEF RespondStep
  <1>3. CASE \E key \in DOMAIN store.apps : GetResponse(key)
    BY <1>3, GetResponseWhole
  <1>4. CASE \E g \in world : BeginSwap(g)
    BY <1>4, BeginSwapWhole
  <1>5. CASE EndSwap \/ OtherChange
    BY <1>5, EndSwapWhole, OtherChangeWhole
  <1>6. QED
    BY <1>1, <1>2, <1>3, <1>4, <1>5 DEF RespNext

-----------------------------------------------------------------------------
(***************************************************************************)
(* Whatever a name delegates to, what has to be fetched says nothing.      *)
(***************************************************************************)
Blank(r) == r = Failure \/ (DOMAIN r = DOMAIN NoResult /\ (r.fetch => SaysNothing(r)))

LEMMA OwnBlank ==
    ASSUME NEW kind, NEW pass, NEW id, NEW value, NEW x
    PROVE  Blank(OwnResult(kind, pass, id, value, x))
  <1> DEFINE w == IF kind = "gate" THEN None ELSE value
             u == IF kind = "gate" THEN <<>> ELSE x
             o == [[[[[NoResult EXCEPT !.pass = pass] EXCEPT !.id = id] EXCEPT !.exposures = x]
                       EXCEPT !.value = w] EXCEPT !.undelegated = u]
  <1>1. OwnResult(kind, pass, id, value, x) = o
    BY DEF OwnResult
  <1> HIDE DEF w, u
  <1>2. DOMAIN o = DOMAIN NoResult /\ ~o.fetch
    BY DEF NoResult
  <1>3. QED
    BY <1>1, <1>2 DEF Blank

LEMMA RuleBlank ==
    ASSUME NEW kind, NEW spec, NEW r, NEW gates, NEW delegates, NEW list, NEW x,
           \A n \in DOMAIN delegates : Blank(delegates[n])
    PROVE  Blank(RuleReference(kind, spec, r, gates, delegates, list, x))
  <1> DEFINE res == RuleReference(kind, spec, r, gates, delegates, list, x)
             m == r.configDelegate
             q == delegates[m]
             y == RuleExposures(r, gates)
             z == [[NoResult EXCEPT !.fetch = TRUE] EXCEPT !.exposures = y]
             p == r.percent
             i == r.id
             w == IF r.percent THEN ReturnValue(r) ELSE DefaultValue(spec)
  <1>1. \/ res = Failure \/ res = z
        \/ m \in DOMAIN delegates /\ res = DelegatedResult(q, m, x)
        \/ res = OwnResult(kind, p, i, w, x)
    BY DEF RuleReference
  <1> HIDE DEF y, p, i, w, res
  <1>2. Blank(z)
    <2>1. DOMAIN z = DOMAIN NoResult /\ z.pass = FALSE /\ z.id = None /\ z.value = None
      BY DEF NoResult
    <2>2. QED
      BY <2>1 DEF Blank, SaysNothing
  <1>3. ASSUME m \in DOMAIN delegates PROVE Blank(DelegatedResult(q, m, x))
    <2> HIDE DEF m, q
    <2> DEFINE e == x \o q.exposures
               d == [[[q EXCEPT !.delegate = m] EXCEPT !.exposures = e] EXCEPT !.undelegated = x]
    <2>1. DelegatedResult(q, m, x) = IF q = Failure THEN Failure ELSE d
      BY DEF DelegatedResult
    <2>2. Blank(q)
      BY <1>3 DEF q
    <2> HIDE DEF e
    <2>3. CASE q # Failure
      <3>1. DOMAIN q = DOMAIN NoResult /\ DOMAIN d = DOMAIN q /\ (q.fetch => SaysNothing(q))
        BY <2>2, <2>3 DEF Blank
      <3>2. {"fetch", "pass", "id", "value"} \subseteq DOMAIN q
        BY <3>1 DEF NoResult
      <3>3. d.fetch = q.fetch /\ d.pass = q.pass /\ d.id = q.id /\ d.value = q.value
        BY <3>2
      <3> HIDE DEF d
      <3>4. QED
        BY <2>1, <2>3, <3>1, <3>3 DEF Blank, SaysNothing
    <2>4. CASE q = Failure
      BY <2>1, <2>4 DEF Blank
    <2>5. QED
      BY <2>3, <2>4
  <1> HIDE DEF m, q, z
  <1>4. QED
    BY <1>1, <1>2, <1>3, OwnBlank DEF Blank, res

LEMMA SpecBlank ==
    ASSUME NEW kind, NEW spec, NEW gates, NEW delegates, NEW list,
           \A n \in DOMAIN delegates : Blank(delegates[n])
    PROVE  Blank(SpecReference(kind, spec, gates, delegates, list))
  <1> DEFINE res == SpecReference(kind, spec, gates, delegates, list)
  <1>1. \/ \E pass, id, value, x : res = OwnResult(kind, pass, id, value, x)
        \/ \E r, x : res = RuleReference(kind, spec, r, gates, delegates, list, x)
    BY DEF SpecReference
  <1> HIDE DEF res
  <1>2. QED
    BY <1>1, OwnBlank, RuleBlank DEF res

\* Upwards from the deepest level of the reference.
LEMMA FetchedSaysNothing ==
    ASSUME NEW v, NEW i \in -1..Deepest, NEW k \in Kinds, NEW n \in NamesOf[k]
    PROVE  Blank(Ref(v, i)[k][n])
  <1> DEFINE Good(d) == \A x \in Kinds : \A y \in NamesOf[x] : Blank(Ref(v, d)[x][y])
             Bad == {m \in 0..(Deepest + 1) : ~Good(Deepest - m)}
  <1>0. MaxDepth \in Nat /\ Deepest \in Nat /\ Deepest = MaxDepth + 4
    BY EvaluatorAssumption DEF Deepest
  <1>1. ASSUME NEW d \in -1..Deepest, d + 2 <= Deepest => Good(d + 2)
        PROVE  Good(d)
    <2> SUFFICES ASSUME NEW x \in Kinds, NEW y \in NamesOf[x] PROVE Blank(Ref(v, d)[x][y])
      OBVIOUS
    <2>1. CASE v.store[x][y] = None
      <3>1. Ref(v, d)[x][y] = NoResult
        BY <2>1, RefFacts
      <3>2. ~NoResult.fetch
        BY DEF NoResult
      <3>3. QED
        BY <3>1, <3>2 DEF Blank
    <2>2. CASE v.store[x][y] # None /\ d + 1 > MaxDepth
      BY <2>2, RefFacts DEF Blank
    <2>3. CASE v.store[x][y] # None /\ ~(d + 1 > MaxDepth)
      <3> DEFINE gates == Asked(v, d + 4)["gate"]
                 delegates == Delegates(v, d + 2)
      <3>1. Ref(v, d)[x][y] = SpecReference(x, v.store[x][y], gates, delegates, v.idList)
        BY <2>3, RefFacts
      <3>2. Good(d + 2)
        BY <1>0, <1>1, <2>3
      <3>3. \A m \in DOMAIN delegates : m \in Configs /\ delegates[m] = Ref(v, d + 2)["config"][m]
        BY DEF Delegates
      <3>4. "config" \in Kinds /\ NamesOf["config"] = Configs
        BY DEF Kinds, NamesOf
      <3> HIDE DEF gates, delegates
      <3>5. \A m \in DOMAIN delegates : Blank(delegates[m])
        BY <3>2, <3>3, <3>4
      <3>6. QED
        BY <3>1, <3>5, SpecBlank
    <2>4. QED
      BY <2>1, <2>2, <2>3
  <1> HIDE DEF Good
  <1>2. Bad = {}
    <2> SUFFICES ASSUME Bad # {} PROVE FALSE
      OBVIOUS
    <2>1. PICK m \in Bad : \A j \in Bad : m <= j
      <3>1. Bad \subseteq Nat
        BY <1>0
      <3> HIDE DEF Bad
      <3>2. QED
        BY <3>1, Least
    <2> DEFINE d == Deepest - m
    <2>2. d \in -1..Deepest /\ m \in Nat /\ m <= Deepest + 1
      BY <1>0
    <2>3. d + 2 <= Deepest => Good(d + 2)
      <3> SUFFICES ASSUME d + 2 <= Deepest PROVE Good(d + 2)
        OBVIOUS
      <3>1. m - 2 \in 0..(Deepest + 1) /\ Deepest - (m - 2) = d + 2 /\ ~(m <= m - 2)
        BY <1>0, <2>2
      <3>2. m - 2 \notin Bad
        BY <2>1, <3>1
      <3>3. QED
        BY <3>1, <3>2
    <2>4. Good(d)
      <3> HIDE DEF d
      <3>1. QED
        BY <1>1, <2>2, <2>3
    <2>5. QED
      BY <2>4
  <1>3. Deepest - i \in 0..(Deepest + 1) /\ Deepest - (Deepest - i) = i
    BY <1>0
  <1>4. Good(i)
    BY <1>2, <1>3
  <1>5. QED
    BY <1>4 DEF Good

\* One entry: the reference one level up, and the exposures cleaned.
EntryFits(v, k, n, e) ==
    LET r == Ref(v, 0)[k][n] IN
    /\ Agrees(e.result, r)
    /\ r.fetch => SaysNothing(e.result)
    /\ e.layer = MergedLayer(v.store, k, n)
    /\ e.allocated = IF k = "layer" THEN r.delegate ELSE None

LEMMA EntryAgrees ==
    ASSUME NEW v, IsGeneration(v.store), NEW k \in Kinds, NEW n, NEW e, EntryRight(v, k, n, e)
    PROVE  Ref(v, 0)[k][n] = Failure \/ EntryFits(v, k, n, e)
  <1> SUFFICES ASSUME Ref(v, 0)[k][n] # Failure PROVE EntryFits(v, k, n, e)
    OBVIOUS
  <1> DEFINE r == Ref(v, 0)[k][n]
  <1>1. -1 + 1 = 0 /\ -1 \in -1..(Deepest - 1) /\ 0 \in -1..Deepest
    BY EvaluatorAssumption DEF Deepest
  <1>2. n \in NamesOf[k] /\ Ref(v, -1 + 1)[k][n] # Failure
    BY <1>1 DEF EntryRight
  <1>3. Ref(v, -1)[k][n] = Ref(v, -1 + 1)[k][n]
    BY <1>1, <1>2, ReferenceUp
  <1>4. Evaluation(v, k, n) = r
    BY <1>1, <1>3 DEF Evaluation
  <1>5. Blank(r)
    BY <1>1, <1>2, FetchedSaysNothing
  <1>6. Agrees(e.result, r)
    BY <1>4, CleanedAgrees DEF EntryRight
  <1>7. r.fetch => SaysNothing(e.result)
    <2> HIDE DEF r
    <2>1. r # Failure
      BY DEF r
    <2>2. QED
      BY <1>5, <1>6, <2>1 DEF Blank, Agrees, SaysNothing
  <1>8. QED
    BY <1>4, <1>6, <1>7 DEF EntryRight, EntryFits

(***************************************************************************)
(* For any specs, however nested: a response of                            *)
(* GetClientInitializeResponse during which neither the specs nor the      *)
(* overrides nor the ID list changed says of each name what the reference  *)
(* does, although it evaluates one level higher and drops repeated         *)
(* exposures.  So it says what CheckGate, GetConfig or GetLayer would, but *)
(* of a name that has to be fetched it says nothing where they ask the     *)
(* server, and of an experiment that shares its layer's parameters it      *)
(* merges in the layer's defaults.  Layers are allocated to the experiment *)
(* they delegate to.  It is empty only if an evaluation panics or an       *)
(* experiment with a value is in a layer whose default value is null.      *)
(***************************************************************************)
THEOREM QuietCorrect == RespSpec => []QuietResponseAgrees
  <1>1. Whole => QuietResponseAgrees
    <2> SUFFICES ASSUME Whole, resp.quiet PROVE QuietResponseAgrees
      BY DEF QuietResponseAgrees
    <2> DEFINE v == View
               ref == Reference(store, overrides, idList)
    <2>1. v.store = store /\ IsGeneration(v.store) /\ \A d : Ref(v, d) = ref[d]
      BY ViewFacts, WorldFacts DEF Whole, KnownInv, Ref
    <2>2. QuietOK(v, resp)
      BY DEF Whole, QuietInv
    <2> HIDE DEF v, ref
    <2>3. ASSUME NEW k \in Kinds, NEW n \in DOMAIN resp.out[k]
          PROVE  \/ ref[0][k][n] = Failure
                 \/ /\ Agrees(resp.out[k][n].result, ref[0][k][n])
                    /\ ref[0][k][n].fetch => SaysNothing(resp.out[k][n].result)
                    /\ resp.out[k][n].layer = MergedLayer(store, k, n)
                    /\ resp.out[k][n].allocated = IF k = "layer" THEN ref[0][k][n].delegate ELSE None
      <3>1. EntryRight(v, k, n, resp.out[k][n])
        BY <2>2 DEF QuietOK
      <3>2. QED
        BY <2>1, <3>1, EntryAgrees DEF EntryFits
    <2>4. resp.at = "failed" =>
            \/ \E k \in Kinds : \E n \in NamesOf[k] : ref[-1][k][n] = Failure
            \/ \E n \in Configs :
                  LET layer == MergedLayer(store, "config", n) IN
                  /\ store.config[n] # None /\ ref[-1].config[n].value # None
                  /\ layer # None /\ store.layer[layer].default = "null"
      BY <2>1, <2>2 DEF QuietOK, Cause, NullMerged, Evaluation
    <2>5. QED
      BY <2>3, <2>4 DEF ref, QuietResponseAgrees
  <1>2. RespInit => Whole
    BY InitResp, InitWhole DEF Whole
  <1>3. QED
    BY <1>1, <1>2, StepWhole, PTL DEF RespSpec
=============================================================================
