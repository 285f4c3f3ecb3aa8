-------------------------- MODULE EvaluatorProofs --------------------------
(***************************************************************************)
(* Proofs about the evaluator: for any gates, configs and layers, however  *)
(* they refer to each other, any number of threads, and syncs, overrides   *)
(* and ID list changes at any point.                                       *)
(*                                                                         *)
(* The first half keeps types and depths (IInv); the second shows that a   *)
(* quiet evaluation follows the reference (RightInv).                      *)
(***************************************************************************)
EXTENDS Evaluator, SequenceTheorems, WellFoundedInduction, TLAPS

Names == Gates \cup Configs \cup Layers

Places ==
    {"idle", "override", "lookup", "eval", "delegate", "return", "done", "panicked"}

Evs ==
    [at : Places, kind : Kinds, name : Names \cup {None}, depth : Nat, stack : Seq(Frames),
     result : Results, call : Kinds \X (Names \cup {None}), quiet : BOOLEAN]

(***************************************************************************)
(* The inductive invariant.  A frame that is not on top, or whose callee   *)
(* has not returned yet, waits for a gate condition or for a delegate; and *)
(* each frame is at least two levels deeper than the one under it.         *)
(***************************************************************************)
InRule(f) == f.rule \in DOMAIN f.spec.rules

AtGate(f) ==
    /\ InRule(f) /\ f.cond \in DOMAIN RuleOf(f).conditions
    /\ RuleOf(f).conditions[f.cond].type \in {"pass_gate", "fail_gate"}

RuleEnded(f) == InRule(f) /\ f.cond > Len(RuleOf(f).conditions)

Waits(f) == AtGate(f) \/ (RuleEnded(f) /\ RuleOf(f).configDelegate # None)

\* The depth of the first eval: a name is asked for at depth 0, one level up;
\* without a name eval is called right away.
Base(e) == IF e.call[2] = None THEN 0 ELSE 1

FrameOK(f, j, base) ==
    f.rule > 0 /\ f.cond > 0 /\ f.depth >= 2 * (j - 1) + base /\ f.depth <= MaxDepth

StackOK(s, base) == \A j \in DOMAIN s : FrameOK(s[j], j, base)

\* All frames wait, or all but the one on top.
AllWait(s) == \A j \in DOMAIN s : Waits(s[j])
CallersWait(s) == \A j \in DOMAIN s : j < Len(s) => Waits(s[j])

EvOK(e) ==
    /\ e \in Evs /\ e.name \in NamesOf[e.kind] \cup {None}
    /\ StackOK(e.stack, Base(e))
    /\ e.at \in {"override", "lookup"} => e.name # None /\ e.depth + 1 >= 2 * Len(e.stack) + Base(e)
    /\ e.at \in {"override", "lookup", "return"} => AllWait(e.stack)
    /\ e.at \in {"eval", "delegate"} => e.stack # <<>> /\ CallersWait(e.stack)
    /\ e.at = "delegate" => RuleEnded(Top(e))
    /\ e.at \in {"idle", "done", "panicked"} => e.stack = <<>>

IInv ==
    /\ TypeOK
    /\ DOMAIN overrides = Kinds /\ overrides = [k \in Kinds |-> overrides[k]]
    /\ ev \in [Threads -> Evs]
    /\ \A t \in Threads : EvOK(ev[t])

-----------------------------------------------------------------------------
(***************************************************************************)
(* Stacks, and the fields of records.                                      *)
(***************************************************************************)
LEMMA NamesFacts ==
    /\ NamesOf["gate"] = Gates /\ NamesOf["config"] = Configs /\ NamesOf["layer"] = Layers
    /\ \A k \in Kinds : NamesOf[k] \subseteq Names
    /\ None \notin Names
  BY EvaluatorAssumption DEF NamesOf, Kinds, Names

LEMMA PushFacts ==
    ASSUME NEW s \in Seq(Frames), NEW f \in Frames
    PROVE  /\ Append(s, f) \in Seq(Frames) /\ Len(s) \in Nat /\ DOMAIN s = 1..Len(s)
           /\ Len(Append(s, f)) = Len(s) + 1 /\ DOMAIN Append(s, f) = 1..(Len(s) + 1)
           /\ \A j \in 1..Len(s) : Append(s, f)[j] = s[j]
           /\ Append(s, f)[Len(s) + 1] = f
  OBVIOUS

LEMMA TopFacts ==
    ASSUME NEW s \in Seq(Frames), s # <<>>
    PROVE  /\ Len(s) \in Nat /\ Len(s) > 0 /\ Len(s) \in DOMAIN s /\ DOMAIN s = 1..Len(s)
           /\ s[Len(s)] \in Frames
  OBVIOUS

LEMMA PopFacts ==
    ASSUME NEW s \in Seq(Frames), s # <<>>
    PROVE  /\ Front(s) \in Seq(Frames) /\ Len(Front(s)) = Len(s) - 1
           /\ DOMAIN Front(s) = 1..(Len(s) - 1)
           /\ \A j \in 1..(Len(s) - 1) : Front(s)[j] = s[j]
  <1> DEFINE n == Len(s) - 1
  <1>1. n \in Nat /\ 1 \in Int /\ n \in Int /\ \A j \in 1..n : s[j] \in Frames
    BY TopFacts
  <1>2. Front(s) = SubSeq(s, 1, n)
    BY DEF Front
  <1> HIDE DEF n
  <1>3. /\ SubSeq(s, 1, n) \in Seq(Frames)
        /\ Len(SubSeq(s, 1, n)) = IF 1 <= n THEN n - 1 + 1 ELSE 0
        /\ \A j \in 1..(n - 1 + 1) : SubSeq(s, 1, n)[j] = s[1 + j - 1]
    BY <1>1, SubSeqProperties
  <1>4. Len(SubSeq(s, 1, n)) = n /\ n - 1 + 1 = n
    BY <1>1, <1>3
  <1>5. DOMAIN SubSeq(s, 1, n) = 1..n /\ \A j \in 1..n : SubSeq(s, 1, n)[j] = s[j]
    BY <1>1, <1>3, <1>4
  <1>6. QED
    BY <1>2, <1>3, <1>4, <1>5 DEF n

LEMMA ReplaceFacts ==
    ASSUME NEW s \in Seq(Frames), s # <<>>, NEW f \in Frames
    PROVE  LET d == [s EXCEPT ![Len(s)] = f] IN
           /\ d \in Seq(Frames) /\ Len(d) = Len(s) /\ DOMAIN d = DOMAIN s /\ d # <<>>
           /\ d[Len(s)] = f /\ \A j \in DOMAIN s : j # Len(s) => d[j] = s[j]
  BY TopFacts

LEMMA FrameFields ==
    ASSUME NEW f \in Frames
    PROVE  /\ f.kind \in Kinds /\ f.spec \in Specs /\ f.depth \in Nat /\ f.rule \in Nat /\ f.cond \in Nat
           /\ f.pass \in BOOLEAN /\ f.fetch \in BOOLEAN
           /\ f.ruleExposures \in Seq(Exposures) /\ f.exposures \in Seq(Exposures)
           /\ f.spec.rules \in Seq(Rules) /\ f.spec.enabled \in BOOLEAN
  BY DEF Frames, Specs

LEMMA RuleFields ==
    ASSUME NEW f \in Frames, InRule(f)
    PROVE  /\ RuleOf(f) \in Rules /\ RuleOf(f).id \in STRING
           /\ RuleOf(f).conditions \in Seq(Conditions) /\ RuleOf(f).percent \in BOOLEAN
           /\ RuleOf(f).configDelegate \in Configs \cup {None}
  <1>1. f.spec.rules \in Seq(Rules)
    BY FrameFields
  <1>2. RuleOf(f) \in Rules
    BY <1>1 DEF InRule, RuleOf
  <1>3. QED
    BY <1>2 DEF Rules

LEMMA ConditionFields ==
    ASSUME NEW f \in Frames, InRule(f), f.cond \in DOMAIN RuleOf(f).conditions
    PROVE  LET c == RuleOf(f).conditions[f.cond] IN
           /\ c.type \in ConditionTypes
           /\ c.type \in {"pass_gate", "fail_gate"} => c.gate \in Gates
  <1>1. RuleOf(f).conditions[f.cond] \in Conditions
    BY RuleFields
  <1>2. QED
    BY <1>1 DEF Conditions

LEMMA EvFields ==
    ASSUME NEW e \in Evs
    PROVE  /\ e.at \in Places /\ e.kind \in Kinds /\ e.name \in Names \cup {None} /\ e.depth \in Nat
           /\ e.stack \in Seq(Frames) /\ e.result \in Results /\ e.quiet \in BOOLEAN
  BY DEF Evs

LEMMA ResultFields ==
    ASSUME NEW r \in Results
    PROVE  /\ r.pass \in BOOLEAN /\ r.id \in IDs /\ r.fetch \in BOOLEAN /\ r.value \in IDs
           /\ r.exposures \in Seq(Exposures) /\ r.undelegated \in Seq(Exposures)
  BY DEF Results

LEMMA StringIDs ==
    /\ None \in IDs /\ \A s \in STRING : s \in IDs
    /\ "override" \in IDs /\ "default" \in IDs /\ "disabled" \in IDs
  BY DEF IDs

LEMMA ValueIDs ==
    /\ \A spec : DefaultValue(spec) \in IDs
    /\ \A rule : rule.id \in IDs => ReturnValue(rule) \in IDs
  BY StringIDs DEF DefaultValue, ReturnValue

LEMMA NoResultOK == NoResult \in Results
  BY DEF NoResult, Results, IDs

\* d is e at another place, perhaps with another stack.
Like(d, e) ==
    /\ d \in Evs /\ d.kind = e.kind /\ d.name = e.name /\ d.depth = e.depth
    /\ d.call = e.call /\ d.quiet = e.quiet

LEMMA AtShape ==
    ASSUME NEW e \in Evs, NEW l \in Places
    PROVE  LET d == [e EXCEPT !.at = l] IN Like(d, e) /\ d.at = l /\ d.stack = e.stack
  BY DEF Evs, Like

LEMMA StackShape ==
    ASSUME NEW e \in Evs, NEW s \in Seq(Frames)
    PROVE  LET d == [e EXCEPT !.stack = s] IN Like(d, e) /\ d.at = e.at /\ d.stack = s /\ d.result = e.result
  BY DEF Evs, Like

LEMMA PanicShape ==
    ASSUME NEW e \in Evs
    PROVE  Like(Panic(e), e) /\ Panic(e).at = "panicked" /\ Panic(e).stack = <<>>
  <1> DEFINE d == [e EXCEPT !.at = "panicked"]
             s == <<>>
  <1>1. Panic(e) = [d EXCEPT !.stack = s]
    BY DEF Panic
  <1>2. Like(d, e) /\ d.at = "panicked" /\ s \in Seq(Frames)
    <2>1. "panicked" \in Places /\ s \in Seq(Frames)
      BY DEF Places
    <2>2. QED
      BY <2>1, AtShape
  <1> HIDE DEF d, s
  <1>3. Like(Panic(e), d) /\ Panic(e).at = d.at /\ Panic(e).stack = s
    BY <1>1, <1>2, StackShape DEF Like
  <1>4. QED
    BY <1>2, <1>3 DEF Like, s

LEMMA ReturnShape ==
    ASSUME NEW e \in Evs, NEW r \in Results
    PROVE  /\ Like(Return(e, r), e) /\ Return(e, r).at = "return" /\ Return(e, r).stack = e.stack
           /\ Return(e, r).result = r
  <1> DEFINE d == [[e EXCEPT !.at = "return"] EXCEPT !.result = r]
  <1>1. Return(e, r) = d
    BY DEF Return
  <1>2. Like(d, e) /\ d.at = "return" /\ d.stack = e.stack
    BY DEF Evs, Like, Places
  <1>3. QED
    BY <1>1, <1>2

LEMMA PopShape ==
    ASSUME NEW e \in Evs, e.stack # <<>>
    PROVE  Like(Pop(e), e) /\ Pop(e).at = e.at /\ Pop(e).stack = Front(e.stack)
  <1>1. Front(e.stack) \in Seq(Frames)
    BY EvFields, PopFacts
  <1>2. Pop(e) = [e EXCEPT !.stack = Front(e.stack)]
    BY DEF Pop
  <1>3. QED
    BY <1>1, <1>2, StackShape

LEMMA SetTopShape ==
    ASSUME NEW e \in Evs, e.stack # <<>>, NEW f \in Frames
    PROVE  LET d == SetTop(e, f) IN
           Like(d, e) /\ d.at = e.at /\ d.stack = [e.stack EXCEPT ![Len(e.stack)] = f]
  <1> DEFINE s == [e.stack EXCEPT ![Len(e.stack)] = f]
  <1>1. s \in Seq(Frames)
    BY EvFields, ReplaceFacts
  <1>2. SetTop(e, f) = [e EXCEPT !.stack = s]
    BY DEF SetTop
  <1> HIDE DEF s
  <1>3. Like(SetTop(e, f), e) /\ SetTop(e, f).at = e.at /\ SetTop(e, f).stack = s
    BY <1>1, <1>2, StackShape
  <1>4. QED
    BY <1>3 DEF s

LEMMA BeginShape ==
    ASSUME NEW e \in Evs, NEW k \in Kinds, NEW n \in Names, NEW m \in Nat
    PROVE  LET d == Begin(e, k, n, m) IN
           /\ d \in Evs /\ d.at = "override" /\ d.kind = k /\ d.name = n /\ d.depth = m
           /\ d.stack = e.stack /\ d.call = e.call /\ d.quiet = e.quiet
  <1> DEFINE d == [[[[e EXCEPT !.at = "override"] EXCEPT !.kind = k] EXCEPT !.name = n]
                      EXCEPT !.depth = m]
  <1>1. Begin(e, k, n, m) = d
    BY DEF Begin
  <1>2. /\ d \in Evs /\ d.at = "override" /\ d.kind = k /\ d.name = n /\ d.depth = m
        /\ d.stack = e.stack /\ d.call = e.call /\ d.quiet = e.quiet
    BY DEF Evs, Places
  <1>3. QED
    BY <1>1, <1>2

\* The frame that Enter pushes.
NewFrame(kind, spec, depth) ==
    [kind |-> kind, spec |-> spec, depth |-> depth, rule |-> 1, cond |-> 1, pass |-> TRUE,
     fetch |-> FALSE, ruleExposures |-> <<>>, exposures |-> <<>>]

LEMMA EnterShape ==
    ASSUME NEW e \in Evs, NEW k \in Kinds, NEW spec \in Specs, NEW m \in Nat, ~TooDeep(m)
    PROVE  LET d == Enter(e, k, spec, m)
               f == NewFrame(k, spec, m)
           IN  /\ Like(d, e) /\ d.at = "eval" /\ d.stack = Append(e.stack, f)
               /\ f \in Frames /\ f.rule = 1 /\ f.cond = 1 /\ f.depth = m
  <1> DEFINE f == NewFrame(k, spec, m)
             s == Append(e.stack, f)
             d == [[e EXCEPT !.at = "eval"] EXCEPT !.stack = s]
  <1>1. f \in Frames /\ f.rule = 1 /\ f.cond = 1 /\ f.depth = m
    BY DEF NewFrame, Frames
  <1>2. s \in Seq(Frames)
    BY <1>1, EvFields, PushFacts
  <1>3. Enter(e, k, spec, m) = d
    BY DEF Enter, NewFrame
  <1> HIDE DEF s
  <1>4. Like(d, e) /\ d.at = "eval" /\ d.stack = s
    BY <1>2 DEF Evs, Like, Places
  <1>5. QED
    BY <1>1, <1>3, <1>4 DEF s

-----------------------------------------------------------------------------
(***************************************************************************)
(* The steps of one evaluation keep EvOK.                                  *)
(***************************************************************************)
LEMMA EvParts ==
    ASSUME NEW e, EvOK(e)
    PROVE  /\ e \in Evs /\ e.stack \in Seq(Frames) /\ e.result \in Results /\ e.kind \in Kinds
           /\ e.depth \in Nat /\ Len(e.stack) \in Nat /\ DOMAIN e.stack = 1..Len(e.stack)
           /\ Base(e) \in Nat
           /\ e.name # None => e.name \in NamesOf[e.kind]
           /\ e.stack # <<>> => Top(e) \in Frames /\ FrameOK(Top(e), Len(e.stack), Base(e))
  <1>1. e \in Evs /\ e.stack \in Seq(Frames) /\ e.result \in Results /\ e.kind \in Kinds /\ e.depth \in Nat
    BY EvFields DEF EvOK
  <1>2. Len(e.stack) \in Nat /\ DOMAIN e.stack = 1..Len(e.stack)
    BY <1>1
  <1>3. e.stack # <<>> => Top(e) \in Frames /\ FrameOK(Top(e), Len(e.stack), Base(e))
    BY <1>1, TopFacts DEF Top, EvOK, StackOK
  <1>4. QED
    BY <1>1, <1>2, <1>3 DEF EvOK, Base

LEMMA PanicOK == ASSUME NEW e, EvOK(e) PROVE EvOK(Panic(e))
  <1>1. Like(Panic(e), e) /\ Panic(e).at = "panicked" /\ Panic(e).stack = <<>>
    BY EvParts, PanicShape
  <1>2. QED
    BY <1>1 DEF EvOK, Like, Base, StackOK

\* Return to callers that wait.
LEMMA ReturnOK ==
    ASSUME NEW e, EvOK(e), AllWait(e.stack), NEW r \in Results
    PROVE  EvOK(Return(e, r))
  <1>1. Like(Return(e, r), e) /\ Return(e, r).at = "return" /\ Return(e, r).stack = e.stack
    BY EvParts, ReturnShape
  <1>2. QED
    BY <1>1 DEF EvOK, Like, Base

LEMMA PopReturnOK ==
    ASSUME NEW e, EvOK(e), e.stack # <<>>, CallersWait(e.stack), NEW r \in Results
    PROVE  EvOK(Return(Pop(e), r))
  <1> DEFINE d == Pop(e)
             s == Front(e.stack)
  <1>1. Like(d, e) /\ d.stack = s /\ e.stack \in Seq(Frames)
    BY EvParts, PopShape
  <1>2. /\ DOMAIN s = 1..(Len(e.stack) - 1) /\ Len(e.stack) \in Nat
        /\ DOMAIN e.stack = 1..Len(e.stack) /\ \A j \in 1..(Len(e.stack) - 1) : s[j] = e.stack[j]
    <2>1. Len(e.stack) \in Nat /\ DOMAIN e.stack = 1..Len(e.stack)
      BY <1>1, TopFacts
    <2>2. DOMAIN s = 1..(Len(e.stack) - 1) /\ \A j \in 1..(Len(e.stack) - 1) : s[j] = e.stack[j]
      BY <1>1, PopFacts
    <2>3. QED
      BY <2>1, <2>2
  <1>3. AllWait(s) /\ StackOK(s, Base(e))
    BY <1>2, SMTT(30) DEF EvOK, StackOK, AllWait, CallersWait
  <1> HIDE DEF d, s
  <1>4. Like(Return(d, r), d) /\ Return(d, r).at = "return" /\ Return(d, r).stack = s
    BY <1>1, ReturnShape DEF Like
  <1>5. EvOK(Return(d, r))
    BY <1>1, <1>3, <1>4 DEF EvOK, Like, Base
  <1>6. QED
    BY <1>5 DEF d

\* The frame on top moves on within eval.
LEMMA SetTopOK ==
    ASSUME NEW e, EvOK(e), e.at \in {"eval", "return"}, e.stack # <<>>, NEW f \in Frames,
           FrameOK(f, Len(e.stack), Base(e)), NEW d, Like(d, e), d.at = "eval",
           d.stack = [e.stack EXCEPT ![Len(e.stack)] = f]
    PROVE  EvOK(d)
  <1>1. /\ d.stack \in Seq(Frames) /\ Len(d.stack) = Len(e.stack) /\ DOMAIN d.stack = DOMAIN e.stack
        /\ d.stack # <<>> /\ d.stack[Len(e.stack)] = f
        /\ \A j \in DOMAIN e.stack : j # Len(e.stack) => d.stack[j] = e.stack[j]
    BY EvParts, ReplaceFacts
  <1>2. StackOK(d.stack, Base(d))
    BY <1>1 DEF EvOK, StackOK, Base, Like
  <1>3. CallersWait(e.stack)
    BY DEF EvOK, CallersWait, AllWait
  <1>4. CallersWait(d.stack)
    BY <1>1, <1>3, EvParts DEF CallersWait
  <1>5. QED
    BY <1>1, <1>2, <1>4 DEF EvOK, Like, Base

\* eval is entered, by callers that wait.
LEMMA EnterOK ==
    ASSUME NEW e, EvOK(e), AllWait(e.stack), NEW k \in Kinds, NEW spec \in Specs, NEW m \in Nat,
           m >= 2 * Len(e.stack) + Base(e)
    PROVE  EvOK(Enter(e, k, spec, m))
  <1>1. CASE TooDeep(m)
    <2>1. Enter(e, k, spec, m) = Panic(e)
      BY <1>1 DEF Enter
    <2>2. QED
      BY <2>1, PanicOK
  <1>2. CASE ~TooDeep(m)
    <2> DEFINE d == Enter(e, k, spec, m)
               f == NewFrame(k, spec, m)
    <2>1. /\ Like(d, e) /\ d.at = "eval" /\ d.stack = Append(e.stack, f)
          /\ f \in Frames /\ f.rule = 1 /\ f.cond = 1 /\ f.depth = m
      BY <1>2, EvParts, EnterShape
    <2> HIDE DEF d, f
    <2>2. /\ e.stack \in Seq(Frames) /\ Len(e.stack) \in Nat /\ DOMAIN e.stack = 1..Len(e.stack)
          /\ Len(d.stack) = Len(e.stack) + 1 /\ DOMAIN d.stack = 1..(Len(e.stack) + 1)
          /\ \A j \in 1..Len(e.stack) : d.stack[j] = e.stack[j]
          /\ d.stack[Len(e.stack) + 1] = f
      BY <2>1, EvParts, PushFacts
    <2>3. FrameOK(f, Len(e.stack) + 1, Base(e))
      BY <1>2, <2>1, <2>2, EvaluatorAssumption DEF FrameOK, TooDeep
    <2>4. \A j \in DOMAIN d.stack : j \in DOMAIN e.stack \/ j = Len(e.stack) + 1
      BY <2>2
    <2>5. StackOK(d.stack, Base(d))
      BY <2>1, <2>2, <2>3, <2>4 DEF EvOK, StackOK, Base, Like
    <2>6. CallersWait(d.stack)
      BY <2>2, <2>4 DEF CallersWait, AllWait
    <2>7. d.stack # <<>>
      BY <2>2
    <2>8. EvOK(d)
      BY <2>1, <2>5, <2>6, <2>7 DEF EvOK, Like, Base
    <2>9. QED
      BY <2>8 DEF d
  <1>3. QED
    BY <1>1, <1>2

LEMMA OverrideResultOK ==
    ASSUME NEW kind \in Kinds, NEW o \in BOOLEAN
    PROVE  OverrideResult(kind, o) \in Results
  <1> DEFINE p == IF kind = "gate" THEN o ELSE TRUE
             v == IF kind = "gate" THEN None ELSE "override"
             r == [[[NoResult EXCEPT !.pass = p] EXCEPT !.id = "override"] EXCEPT !.value = v]
  <1>1. p \in BOOLEAN /\ v \in IDs /\ "override" \in IDs
    <2>1. "override" \in IDs /\ None \in IDs
      BY StringIDs
    <2>2. CASE kind = "gate"
      BY <2>1, <2>2
    <2>3. CASE kind # "gate"
      BY <2>1, <2>3
    <2>4. QED
      BY <2>2, <2>3
  <1>2. OverrideResult(kind, o) = r
    BY DEF OverrideResult
  <1> HIDE DEF p, v
  <1>3. r \in Results
    BY <1>1, NoResultOK DEF Results
  <1>4. QED
    BY <1>2, <1>3

LEMMA ReadOverrideOK ==
    ASSUME IInv, NEW e, EvOK(e), e.at = "override"
    PROVE  EvOK(ReadOverride(e))
  <1> DEFINE o == overrides[e.kind][e.name]
  <1>1. e.kind \in Kinds /\ e.name \in NamesOf[e.kind] /\ AllWait(e.stack)
    BY EvParts DEF EvOK
  <1>2. o \in BOOLEAN \cup {None}
    BY <1>1 DEF IInv, TypeOK, Overrides
  <1>3. CASE o # None
    <2>1. ReadOverride(e) = Return(e, OverrideResult(e.kind, o))
      BY <1>3 DEF ReadOverride
    <2>2. OverrideResult(e.kind, o) \in Results
      <3>1. o \in BOOLEAN
        BY <1>2, <1>3
      <3> HIDE DEF o
      <3>2. QED
        BY <1>1, <3>1, OverrideResultOK
    <2>3. QED
      BY <1>1, <2>1, <2>2, ReturnOK
  <1>4. CASE o = None
    <2> DEFINE d == [e EXCEPT !.at = "lookup"]
    <2>1. ReadOverride(e) = d
      BY <1>4 DEF ReadOverride
    <2>2. "lookup" \in Places /\ e \in Evs
      BY EvParts DEF Places
    <2>3. Like(d, e) /\ d.at = "lookup" /\ d.stack = e.stack
      BY <2>2, AtShape
    <2> HIDE DEF d
    <2>4. EvOK(d)
      BY <2>3 DEF EvOK, Like, Base
    <2>5. QED
      BY <2>1, <2>4
  <1>5. QED
    BY <1>3, <1>4

LEMMA SpecFacts ==
    ASSUME IInv, NEW k \in Kinds, NEW n \in NamesOf[k]
    PROVE  store[k][n] \in Specs \cup {None}
  <1>1. IsGeneration(store)
    BY EvaluatorAssumption DEF IInv, TypeOK
  <1>2. QED
    BY <1>1 DEF IsGeneration

LEMMA ReadSpecOK ==
    ASSUME IInv, NEW e, EvOK(e), e.at = "lookup"
    PROVE  EvOK(ReadSpec(e))
  <1> DEFINE spec == store[e.kind][e.name]
  <1>1. /\ e.kind \in Kinds /\ e.name \in NamesOf[e.kind] /\ AllWait(e.stack) /\ e.depth \in Nat
        /\ e.depth + 1 >= 2 * Len(e.stack) + Base(e) /\ Len(e.stack) \in Nat
    BY EvParts DEF EvOK
  <1>2. spec \in Specs \cup {None}
    BY <1>1, SpecFacts
  <1>3. CASE spec = None
    BY <1>1, <1>3, NoResultOK, ReturnOK DEF ReadSpec
  <1>4. CASE spec # None
    <2>1. ReadSpec(e) = Enter(e, e.kind, spec, e.depth + 1)
      BY <1>4 DEF ReadSpec
    <2>2. e.depth + 1 \in Nat /\ e.depth + 1 >= 2 * Len(e.stack) + Base(e) /\ spec \in Specs
      BY <1>1, <1>2, <1>4
    <2> HIDE DEF spec
    <2>3. QED
      BY <1>1, <2>1, <2>2, EnterOK
  <1>5. QED
    BY <1>3, <1>4

-----------------------------------------------------------------------------
(***************************************************************************)
(* The steps of eval in the frame on top.                                  *)
(***************************************************************************)
\* f has moved on within its spec.
Moved(g, f) ==
    g \in Frames /\ g.depth = f.depth /\ g.spec = f.spec /\ g.rule > 0 /\ g.cond > 0

LEMMA EndConditionMoves ==
    ASSUME NEW f \in Frames, f.rule > 0, NEW pass \in BOOLEAN, NEW fetch \in BOOLEAN,
           NEW x \in Seq(Exposures)
    PROVE  Moved(EndCondition(f, pass, fetch, x), f)
  <1> DEFINE p == f.pass /\ pass
             q == f.fetch \/ fetch
             y == f.ruleExposures \o x
             c == f.cond + 1
             g == [[[[f EXCEPT !.cond = c] EXCEPT !.pass = p] EXCEPT !.fetch = q]
                      EXCEPT !.ruleExposures = y]
  <1>1. p \in BOOLEAN /\ q \in BOOLEAN
    OBVIOUS
  <1>2. y \in Seq(Exposures) /\ c \in Nat /\ c > 0 /\ f.rule \in Nat
    BY FrameFields
  <1>3. EndCondition(f, pass, fetch, x) = g
    BY DEF EndCondition
  <1> HIDE DEF p, q, y, c
  <1>4. Moved(g, f)
    BY <1>1, <1>2 DEF Frames, Moved
  <1>5. QED
    BY <1>3, <1>4

\* The evaluation that a moved frame on top gives.
LEMMA MovedOK ==
    ASSUME NEW e, EvOK(e), e.at = "eval", e.stack # <<>>, NEW g, Moved(g, Top(e))
    PROVE  EvOK(SetTop(e, g))
  <1>1. e \in Evs /\ g \in Frames /\ FrameOK(Top(e), Len(e.stack), Base(e))
    BY EvParts DEF Moved
  <1>2. FrameOK(g, Len(e.stack), Base(e))
    BY <1>1 DEF FrameOK, Moved
  <1>3. /\ Like(SetTop(e, g), e) /\ SetTop(e, g).at = "eval"
        /\ SetTop(e, g).stack = [e.stack EXCEPT ![Len(e.stack)] = g]
    BY <1>1, SetTopShape
  <1>4. QED
    BY <1>1, <1>2, <1>3, SetTopOK

LEMMA EndsOK ==
    ASSUME NEW e, EvOK(e), e.at = "eval", e.stack # <<>>, NEW pass \in BOOLEAN,
           NEW fetch \in BOOLEAN
    PROVE  EvOK(SetTop(e, EndCondition(Top(e), pass, fetch, <<>>)))
  <1> DEFINE x == <<>>
             g == EndCondition(Top(e), pass, fetch, x)
  <1>1. Top(e) \in Frames /\ Top(e).rule > 0 /\ x \in Seq(Exposures)
    BY EvParts DEF FrameOK
  <1> HIDE DEF x
  <1>2. Moved(g, Top(e))
    BY <1>1, EndConditionMoves
  <1> HIDE DEF g
  <1>3. EvOK(SetTop(e, g))
    BY <1>2, MovedOK
  <1>4. QED
    BY <1>3 DEF g, x

\* All frames wait when the callers do and the frame on top does.
LEMMA TopWaits ==
    ASSUME NEW e, EvOK(e), e.at \in {"eval", "delegate"}, Waits(Top(e))
    PROVE  AllWait(e.stack)
  <1>1. CallersWait(e.stack) /\ Len(e.stack) \in Nat /\ DOMAIN e.stack = 1..Len(e.stack)
    BY EvParts DEF EvOK
  <1>2. \A j \in DOMAIN e.stack : j < Len(e.stack) \/ j = Len(e.stack)
    BY <1>1
  <1>3. QED
    BY <1>1, <1>2 DEF CallersWait, AllWait, Top

LEMMA EvalConditionOK ==
    ASSUME IInv, NEW e, EvOK(e), e.at = "eval", InRule(Top(e)),
           Top(e).cond \in DOMAIN RuleOf(Top(e)).conditions
    PROVE  EvOK(EvalCondition(e))
  <1> DEFINE f == Top(e)
             c == RuleOf(f).conditions[f.cond]
             yes == TRUE
             no == FALSE
             in == (idList = "in") = (c.type = "in_list")
  <1>1. e.stack # <<>> /\ f \in Frames /\ f.depth \in Nat /\ e \in Evs
    <2>1. e.stack # <<>>
      BY DEF EvOK
    <2>2. QED
      BY <2>1, EvParts, FrameFields
  <1>2. yes \in BOOLEAN /\ no \in BOOLEAN /\ in \in BOOLEAN
    OBVIOUS
  <1>3. c.type \in ConditionTypes /\ (c.type \in {"pass_gate", "fail_gate"} => c.gate \in Gates)
    BY <1>1, ConditionFields
  <1>4. CASE c.type \in {"public", "true"}
    <2>1. EvalCondition(e) = SetTop(e, EndCondition(f, yes, no, <<>>))
      BY <1>4 DEF EvalCondition
    <2> HIDE DEF yes, no
    <2>2. QED
      BY <1>1, <1>2, <2>1, EndsOK
  <1>5. CASE c.type \in {"false", "not_a_name"}
    <2>1. EvalCondition(e) = SetTop(e, EndCondition(f, no, no, <<>>))
      BY <1>5 DEF EvalCondition
    <2> HIDE DEF yes, no
    <2>2. QED
      BY <1>1, <1>2, <2>1, EndsOK
  <1>6. CASE c.type = "unsupported"
    <2>1. EvalCondition(e) = SetTop(e, EndCondition(f, no, yes, <<>>))
      BY <1>6 DEF EvalCondition
    <2> HIDE DEF yes, no
    <2>2. QED
      BY <1>1, <1>2, <2>1, EndsOK
  <1>7. CASE c.type \in {"pass_gate", "fail_gate"}
    <2> DEFINE d == Begin(e, "gate", c.gate, GateDepth(f))
    <2>1. EvalCondition(e) = d
      BY <1>7 DEF EvalCondition
    <2>2. "gate" \in Kinds /\ c.gate \in Names /\ GateDepth(f) \in Nat
      BY <1>1, <1>3, <1>7 DEF Kinds, Names, GateDepth
    <2>3. /\ d \in Evs /\ d.at = "override" /\ d.kind = "gate" /\ d.name = c.gate
          /\ d.depth = GateDepth(f) /\ d.stack = e.stack /\ d.call = e.call
      BY <1>1, <2>2, BeginShape
    <2>4. AllWait(e.stack)
      BY <1>7, TopWaits DEF Waits, AtGate
    <2>5. d.depth + 1 >= 2 * Len(d.stack) + Base(d) /\ Base(d) = Base(e)
      <3>1. Base(d) = Base(e)
        BY <2>3 DEF Base
      <3>2. QED
        BY <1>1, <2>3, <3>1, EvParts DEF FrameOK, GateDepth
    <2>6. d.name # None /\ d.name \in NamesOf[d.kind]
      BY <1>3, <1>7, <2>2, <2>3, NamesFacts
    <2> HIDE DEF d, c, f
    <2>7. EvOK(d)
      BY <2>3, <2>4, <2>5, <2>6 DEF EvOK
    <2>8. QED
      BY <2>1, <2>7
  <1>8. CASE c.type = "nil_in_list"
    <2>1. EvalCondition(e) = Panic(e)
      BY <1>8 DEF EvalCondition
    <2>2. QED
      BY <2>1, PanicOK
  <1>9. CASE c.type \in {"in_list", "not_in_list"} /\ idList = "nilIds"
    <2>1. EvalCondition(e) = Panic(e)
      BY <1>9 DEF EvalCondition
    <2>2. QED
      BY <2>1, PanicOK
  <1>10. CASE c.type \in {"in_list", "not_in_list"} /\ idList # "nilIds"
    <2>1. EvalCondition(e) = SetTop(e, EndCondition(f, in, no, <<>>))
      BY <1>10 DEF EvalCondition
    <2> HIDE DEF in, no
    <2>2. QED
      BY <1>1, <1>2, <2>1, EndsOK
  <1>11. QED
    BY <1>3, <1>4, <1>5, <1>6, <1>7, <1>8, <1>9, <1>10 DEF ConditionTypes

LEMMA EndRuleOK ==
    ASSUME NEW e, EvOK(e), e.at = "eval", RuleEnded(Top(e))
    PROVE  EvOK(EndRule(e))
  <1> DEFINE f == Top(e)
             x == f.exposures \o f.ruleExposures
             g == [f EXCEPT !.exposures = x]
  <1>1. e.stack # <<>> /\ f \in Frames /\ e \in Evs /\ CallersWait(e.stack)
    <2>1. e.stack # <<>> /\ CallersWait(e.stack)
      BY DEF EvOK
    <2>2. QED
      BY <2>1, EvParts
  <1>2. x \in Seq(Exposures) /\ f.ruleExposures \in Seq(Exposures) /\ f.fetch \in BOOLEAN
        /\ f.pass \in BOOLEAN /\ f.rule \in Nat /\ f.cond \in Nat
    BY <1>1, FrameFields
  <1>3. f.rule > 0 /\ f.cond > 0 /\ FrameOK(f, Len(e.stack), Base(e))
    BY <1>1, EvParts DEF FrameOK
  <1>4. g = [f EXCEPT !.exposures = @ \o f.ruleExposures]
    OBVIOUS
  <1>5. Moved(g, f) /\ g.rule = f.rule /\ g.cond = f.cond
    <2> HIDE DEF x
    <2>1. QED
      BY <1>1, <1>2, <1>3 DEF Moved, Frames
  <1>6. CASE f.fetch
    <2> DEFINE yes == TRUE
               r == [[NoResult EXCEPT !.fetch = yes] EXCEPT !.exposures = f.ruleExposures]
    <2>1. EndRule(e) = Return(Pop(e), r)
      BY <1>6 DEF EndRule
    <2>2. yes \in BOOLEAN
      OBVIOUS
    <2> HIDE DEF yes
    <2>3. r \in Results
      BY <1>2, <2>2, NoResultOK DEF Results
    <2> HIDE DEF r
    <2>4. QED
      BY <1>1, <2>1, <2>3, PopReturnOK
  <1>7. CASE ~f.fetch /\ f.pass
    <2> DEFINE s == SetTop(e, g)
               d == [s EXCEPT !.at = "delegate"]
    <2>1. EndRule(e) = d
      BY <1>4, <1>7 DEF EndRule
    <2>2. EvOK(s) /\ Like(s, e) /\ s.stack = [e.stack EXCEPT ![Len(e.stack)] = g] /\ s.at = "eval"
      <3> HIDE DEF g
      <3>1. g \in Frames
        BY <1>5 DEF Moved
      <3>2. QED
        BY <1>1, <1>5, <3>1, MovedOK, SetTopShape
    <2>3. s \in Evs /\ "delegate" \in Places
      BY <2>2 DEF Like, Places
    <2> HIDE DEF s
    <2>4. Like(d, s) /\ d.at = "delegate" /\ d.stack = s.stack
      BY <2>3, AtShape
    <2> HIDE DEF d
    <2>5. Top(d) = g /\ d.stack # <<>>
      <3> HIDE DEF g
      <3>1. g \in Frames /\ e.stack \in Seq(Frames)
        BY <1>1, <1>5, EvParts DEF Moved
      <3>2. Len(s.stack) = Len(e.stack) /\ s.stack # <<>> /\ s.stack[Len(e.stack)] = g
        BY <1>1, <2>2, <3>1, ReplaceFacts
      <3>3. QED
        BY <2>4, <3>2 DEF Top
    <2>6. RuleEnded(g)
      <3> HIDE DEF g
      <3>1. QED
        BY <1>5 DEF RuleEnded, InRule, RuleOf, Moved
    <2> HIDE DEF g, f
    <2>7. EvOK(d)
      BY <2>2, <2>4, <2>5, <2>6 DEF EvOK, Like, Base
    <2>8. QED
      BY <2>1, <2>7
  <1>8. CASE ~f.fetch /\ ~f.pass
    <2> DEFINE yes == TRUE
               none == <<>>
               n == g.rule + 1
               h == [[[[g EXCEPT !.rule = n] EXCEPT !.cond = 1] EXCEPT !.pass = yes]
                        EXCEPT !.ruleExposures = none]
    <2>1. EndRule(e) = SetTop(e, h)
      <3>1. EndRule(e) = SetTop(e, [g EXCEPT !.rule = @ + 1, !.cond = 1, !.pass = TRUE,
                                             !.ruleExposures = <<>>])
        BY <1>4, <1>8 DEF EndRule
      <3> HIDE DEF g
      <3>2. QED
        BY <3>1
    <2>2. /\ yes \in BOOLEAN /\ none \in Seq(Exposures)
          /\ g \in Frames /\ g.rule \in Nat /\ g.depth = f.depth /\ g.spec = f.spec
      BY <1>2, <1>5 DEF Moved
    <2> HIDE DEF yes, none, g
    <2>3. Moved(h, f)
      <3>1. n \in Nat /\ n > 0
        BY <2>2
      <3> HIDE DEF n
      <3>2. h \in Frames
        BY <2>2, <3>1 DEF Frames
      <3>3. h.depth = f.depth /\ h.spec = f.spec /\ h.rule = n /\ h.cond = 1
        BY <2>2 DEF Frames
      <3>4. QED
        BY <3>1, <3>2, <3>3 DEF Moved
    <2> HIDE DEF h
    <2>4. QED
      BY <1>1, <2>1, <2>3, MovedOK
  <1>9. QED
    BY <1>2, <1>6, <1>7, <1>8

LEMMA ResultOK ==
    ASSUME NEW f \in Frames, NEW pass \in BOOLEAN, NEW id \in IDs, NEW value \in IDs
    PROVE  Result(f, pass, id, value) \in Results
  <1> DEFINE v == IF f.kind = "gate" THEN None ELSE value
             u == IF f.kind = "gate" THEN <<>> ELSE f.exposures
             r == [[[[[NoResult EXCEPT !.pass = pass] EXCEPT !.id = id]
                       EXCEPT !.exposures = f.exposures] EXCEPT !.value = v]
                       EXCEPT !.undelegated = u]
  <1>1. f.exposures \in Seq(Exposures)
    BY FrameFields
  <1>2. v \in IDs /\ u \in Seq(Exposures)
    <2>1. None \in IDs /\ <<>> \in Seq(Exposures)
      BY DEF IDs
    <2>2. CASE f.kind = "gate"
      BY <2>1, <2>2
    <2>3. CASE f.kind # "gate"
      BY <1>1, <2>3
    <2>4. QED
      BY <2>2, <2>3
  <1>3. Result(f, pass, id, value) = r
    BY DEF Result
  <1> HIDE DEF v, u
  <1>4. r \in Results
    BY <1>1, <1>2, NoResultOK DEF Results
  <1>5. QED
    BY <1>3, <1>4

LEMMA EndRulesOK ==
    ASSUME NEW e, EvOK(e), e.at = "eval"
    PROVE  EvOK(EndRules(e))
  <1> DEFINE f == Top(e)
             no == FALSE
             id == IF f.spec.enabled THEN "default" ELSE "disabled"
             default == DefaultValue(f.spec)
             r == Result(f, no, id, default)
  <1>1. e.stack # <<>> /\ f \in Frames /\ CallersWait(e.stack)
    <2>1. e.stack # <<>> /\ CallersWait(e.stack)
      BY DEF EvOK
    <2>2. QED
      BY <2>1, EvParts
  <1>2. id \in IDs /\ default \in IDs
    <2>1. "default" \in IDs /\ "disabled" \in IDs /\ default \in IDs
      BY StringIDs, ValueIDs
    <2>2. CASE f.spec.enabled
      BY <2>1, <2>2
    <2>3. CASE ~f.spec.enabled
      BY <2>1, <2>3
    <2>4. QED
      BY <2>1, <2>2, <2>3
  <1>3. no \in BOOLEAN
    OBVIOUS
  <1>4. EndRules(e) = Return(Pop(e), r)
    BY DEF EndRules
  <1> HIDE DEF no, id, default
  <1>5. r \in Results
    BY <1>1, <1>2, <1>3, ResultOK
  <1> HIDE DEF r
  <1>6. QED
    BY <1>1, <1>4, <1>5, PopReturnOK

LEMMA EvalStepOK ==
    ASSUME IInv, NEW e, EvOK(e), e.at = "eval"
    PROVE  EvOK(EvalStep(e))
  <1> DEFINE f == Top(e)
  <1>1. e.stack # <<>> /\ f \in Frames /\ f.rule > 0 /\ f.cond > 0
    <2>1. e.stack # <<>>
      BY DEF EvOK
    <2>2. QED
      BY <2>1, EvParts DEF FrameOK
  <1>2. f.rule \in Nat /\ f.cond \in Nat /\ f.spec.rules \in Seq(Rules) /\ f.spec.enabled \in BOOLEAN
    BY <1>1, FrameFields
  <1>3. CASE ~f.spec.enabled \/ f.rule > Len(f.spec.rules)
    <2>1. EvalStep(e) = EndRules(e)
      BY <1>3 DEF EvalStep
    <2>2. QED
      BY <2>1, EndRulesOK
  <1>4. CASE f.spec.enabled /\ ~(f.rule > Len(f.spec.rules))
    <2>1. InRule(f)
      BY <1>1, <1>2, <1>4 DEF InRule
    <2>2. RuleOf(f).conditions \in Seq(Conditions)
      BY <1>1, <2>1, RuleFields
    <2>3. CASE f.cond <= Len(RuleOf(f).conditions)
      <3>1. EvalStep(e) = EvalCondition(e)
        BY <1>4, <2>3 DEF EvalStep
      <3>2. f.cond \in DOMAIN RuleOf(f).conditions
        BY <1>1, <1>2, <2>2, <2>3
      <3>3. QED
        BY <2>1, <3>1, <3>2, EvalConditionOK
    <2>4. CASE ~(f.cond <= Len(RuleOf(f).conditions))
      <3>1. EvalStep(e) = EndRule(e)
        BY <1>4, <2>4 DEF EvalStep
      <3>2. RuleEnded(f)
        BY <1>2, <2>1, <2>2, <2>4 DEF RuleEnded
      <3>3. QED
        BY <3>1, <3>2, EndRuleOK
    <2>5. QED
      BY <2>3, <2>4
  <1>5. QED
    BY <1>2, <1>3, <1>4

LEMMA ReadDelegateOK ==
    ASSUME IInv, NEW e, EvOK(e), e.at = "delegate"
    PROVE  EvOK(ReadDelegate(e))
  <1> DEFINE f == Top(e)
             r == RuleOf(f)
             config == IF r.configDelegate = None THEN None ELSE store["config"][r.configDelegate]
  <1>1. e.stack # <<>> /\ f \in Frames /\ CallersWait(e.stack) /\ RuleEnded(f)
    <2>1. e.stack # <<>> /\ CallersWait(e.stack) /\ RuleEnded(f)
      BY DEF EvOK
    <2>2. QED
      BY <2>1, EvParts
  <1>2. r.id \in STRING /\ r.percent \in BOOLEAN /\ r.configDelegate \in Configs \cup {None}
        /\ f.depth \in Nat
    BY <1>1, RuleFields, FrameFields DEF RuleEnded
  <1>3. CASE config # None
    <2>1. ReadDelegate(e) = Enter(e, "config", config, DelegateDepth(f))
      BY <1>3 DEF ReadDelegate
    <2>2. r.configDelegate # None /\ r.configDelegate \in NamesOf["config"] /\ "config" \in Kinds
      BY <1>2, <1>3, NamesFacts DEF Kinds
    <2>3. config \in Specs
      <3>1. config = store["config"][r.configDelegate]
        BY <2>2
      <3>2. QED
        BY <1>3, <2>2, <3>1, SpecFacts
    <2>4. AllWait(e.stack)
      BY <1>1, <2>2, TopWaits DEF Waits
    <2>5. DelegateDepth(f) \in Nat /\ DelegateDepth(f) >= 2 * Len(e.stack) + Base(e)
      BY <1>1, <1>2, EvParts DEF FrameOK, DelegateDepth
    <2> HIDE DEF config, f
    <2>6. QED
      BY <2>1, <2>2, <2>3, <2>4, <2>5, EnterOK
  <1>4. CASE config = None
    <2> DEFINE p == r.percent
               v == IF p THEN ReturnValue(r) ELSE DefaultValue(f.spec)
               res == Result(f, p, r.id, v)
    <2>1. ReadDelegate(e) = Return(Pop(e), res)
      BY <1>4 DEF ReadDelegate, evalPassPercent
    <2>2. p \in BOOLEAN /\ r.id \in IDs /\ v \in IDs
      <3>1. r.id \in IDs /\ ReturnValue(r) \in IDs /\ DefaultValue(f.spec) \in IDs
        BY <1>2, StringIDs, ValueIDs
      <3>2. CASE p
        BY <1>2, <3>1, <3>2
      <3>3. CASE ~p
        BY <1>2, <3>1, <3>3
      <3>4. QED
        BY <1>2, <3>1, <3>2, <3>3
    <2> HIDE DEF p, v, r
    <2>3. res \in Results
      BY <1>1, <2>2, ResultOK
    <2> HIDE DEF res
    <2>4. QED
      BY <1>1, <2>1, <2>3, PopReturnOK
  <1>5. QED
    BY <1>3, <1>4

-----------------------------------------------------------------------------
(***************************************************************************)
(* A call returns.                                                         *)
(***************************************************************************)
LEMMA EndGateConditionMoves ==
    ASSUME NEW f \in Frames, AtGate(f), f.rule > 0, NEW res \in Results
    PROVE  Moved(EndGateCondition(f, res), f)
  <1> DEFINE c == RuleOf(f).conditions[f.cond]
             yes == TRUE
             no == FALSE
             p == res.pass = (c.type = "pass_gate")
             none == <<>>
             x == [gate |-> c.gate, value |-> res.pass, ruleID |-> res.id]
             y == Append(res.exposures, x)
  <1>1. yes \in BOOLEAN /\ no \in BOOLEAN /\ p \in BOOLEAN
    OBVIOUS
  <1>2. none \in Seq(Exposures)
    OBVIOUS
  <1>3. y \in Seq(Exposures)
    <2>1. c.gate \in Gates
      BY ConditionFields DEF AtGate
    <2>2. x \in Exposures
      <3> HIDE DEF c
      <3>1. QED
        BY <2>1, ResultFields DEF Exposures
    <2> HIDE DEF x
    <2>3. QED
      BY <2>2, ResultFields
  <1>4. CASE res.fetch
    <2>1. EndGateCondition(f, res) = EndCondition(f, no, yes, none)
      BY <1>4 DEF EndGateCondition
    <2> HIDE DEF yes, no, none
    <2>2. QED
      BY <1>1, <1>2, <2>1, EndConditionMoves
  <1>5. CASE ~res.fetch
    <2>1. EndGateCondition(f, res) = EndCondition(f, p, no, y)
      BY <1>5 DEF EndGateCondition
    <2> HIDE DEF p, no, y
    <2>2. QED
      BY <1>1, <1>3, <2>1, EndConditionMoves
  <1>6. QED
    BY <1>4, <1>5

LEMMA EndDelegateOK ==
    ASSUME NEW f \in Frames, InRule(f), NEW res \in Results
    PROVE  EndDelegate(f, res) \in Results
  <1> DEFINE n == RuleOf(f).configDelegate
             x == f.exposures \o res.exposures
             r == [[[res EXCEPT !.delegate = n] EXCEPT !.exposures = x]
                      EXCEPT !.undelegated = f.exposures]
  <1>1. n \in Configs \cup {None} /\ x \in Seq(Exposures) /\ f.exposures \in Seq(Exposures)
    BY RuleFields, FrameFields, ResultFields
  <1>2. EndDelegate(f, res) = r
    BY DEF EndDelegate
  <1> HIDE DEF n, x
  <1>3. r \in Results
    BY <1>1 DEF Results
  <1>4. QED
    BY <1>2, <1>3

LEMMA ResumeOK ==
    ASSUME NEW e, EvOK(e), e.at = "return"
    PROVE  EvOK(Resume(e))
  <1> DEFINE f == Top(e)
  <1>0. e \in Evs /\ e.result \in Results /\ AllWait(e.stack)
    BY EvParts DEF EvOK
  <1>1. CASE e.stack = <<>>
    <2> DEFINE d == [e EXCEPT !.at = "done"]
    <2>1. Resume(e) = d
      BY <1>1 DEF Resume
    <2>2. "done" \in Places
      BY DEF Places
    <2>3. Like(d, e) /\ d.at = "done" /\ d.stack = e.stack
      BY <1>0, <2>2, AtShape
    <2> HIDE DEF d
    <2>4. EvOK(d)
      BY <1>1, <2>3 DEF EvOK, Like, Base
    <2>5. QED
      BY <2>1, <2>4
  <1>2. CASE e.stack # <<>>
    <2>1. f \in Frames /\ FrameOK(f, Len(e.stack), Base(e)) /\ Waits(f)
      <3>1. Len(e.stack) \in DOMAIN e.stack
        BY <1>2, EvParts, TopFacts
      <3>2. QED
        BY <1>0, <1>2, <3>1, EvParts DEF AllWait, Top
    <2>2. InRule(f) /\ f.rule > 0 /\ f.cond \in Nat
      BY <2>1, FrameFields DEF Waits, AtGate, RuleEnded, FrameOK
    <2>3. RuleOf(f).conditions \in Seq(Conditions)
      BY <2>1, <2>2, RuleFields
    <2>4. CASE f.cond <= Len(RuleOf(f).conditions)
      <3> DEFINE g == EndGateCondition(f, e.result)
                 s == SetTop(e, g)
                 d == [[s EXCEPT !.at = "eval"] EXCEPT !.result = NoResult]
      <3>1. Resume(e) = d
        BY <1>2, <2>4 DEF Resume
      <3>2. AtGate(f)
        BY <2>1, <2>2, <2>3, <2>4 DEF Waits, RuleEnded
      <3>3. Moved(g, f)
        BY <1>0, <2>1, <2>2, <3>2, EndGateConditionMoves
      <3> HIDE DEF g
      <3>4. g \in Frames /\ FrameOK(g, Len(e.stack), Base(e))
        BY <2>1, <3>3 DEF FrameOK, Moved
      <3>5. Like(s, e) /\ s.stack = [e.stack EXCEPT ![Len(e.stack)] = g]
        BY <1>0, <1>2, <3>4, SetTopShape
      <3> HIDE DEF s
      <3>6. Like(d, s) /\ d.at = "eval" /\ d.stack = s.stack
        <4>1. s \in Evs /\ "eval" \in Places
          BY <3>5 DEF Like, Places
        <4>2. QED
          BY <4>1, NoResultOK DEF Like, Evs
      <3> HIDE DEF d
      <3>7. Like(d, e) /\ d.stack = [e.stack EXCEPT ![Len(e.stack)] = g]
        BY <3>5, <3>6 DEF Like
      <3>8. EvOK(d)
        BY <1>2, <3>4, <3>6, <3>7, SetTopOK
      <3>9. QED
        BY <3>1, <3>8
    <2>5. CASE ~(f.cond <= Len(RuleOf(f).conditions))
      <3>1. Resume(e) = Return(Pop(e), EndDelegate(f, e.result))
        BY <1>2, <2>5 DEF Resume
      <3>2. EndDelegate(f, e.result) \in Results
        BY <1>0, <2>1, <2>2, EndDelegateOK
      <3>3. CallersWait(e.stack)
        BY <1>0 DEF AllWait, CallersWait
      <3>4. QED
        BY <1>2, <3>1, <3>2, <3>3, PopReturnOK
    <2>6. QED
      BY <2>4, <2>5
  <1>3. QED
    BY <1>1, <1>2

-----------------------------------------------------------------------------
(***************************************************************************)
(* No step changes what was asked for or makes an evaluation quiet again.  *)
(***************************************************************************)
SameCall(d, e) == d.call = e.call /\ d.quiet = e.quiet

LEMMA SameCallShapes ==
    ASSUME NEW e \in Evs
    PROVE  /\ SameCall(Panic(e), e)
           /\ \A r : SameCall(Return(e, r), e) /\ SameCall(Return(Pop(e), r), e)
           /\ \A f : SameCall(SetTop(e, f), e)
           /\ \A k, n, m : SameCall(Begin(e, k, n, m), e)
           /\ \A k, s, m : SameCall(Enter(e, k, s, m), e)
  <1>1. SameCall(Panic(e), e)
    BY DEF SameCall, Evs, Panic
  <1>2. ASSUME NEW r PROVE SameCall(Return(e, r), e) /\ SameCall(Return(Pop(e), r), e)
    BY DEF SameCall, Evs, Return, Pop
  <1>3. ASSUME NEW f PROVE SameCall(SetTop(e, f), e)
    BY DEF SameCall, Evs, SetTop
  <1>4. ASSUME NEW k, NEW n, NEW m PROVE SameCall(Begin(e, k, n, m), e)
    BY DEF SameCall, Evs, Begin
  <1>5. ASSUME NEW k, NEW s, NEW m PROVE SameCall(Enter(e, k, s, m), e)
    <2> DEFINE d == [e EXCEPT !.at = "eval", !.stack = Append(@, NewFrame(k, s, m))]
    <2>1. SameCall(d, e)
      BY DEF SameCall, Evs
    <2>2. Enter(e, k, s, m) = IF TooDeep(m) THEN Panic(e) ELSE d
      BY DEF Enter, NewFrame
    <2> HIDE DEF d
    <2>3. QED
      BY <1>1, <2>1, <2>2
  <1>6. QED
    BY <1>1, <1>2, <1>3, <1>4, <1>5

LEMMA EvalConditionSameCall ==
    ASSUME NEW e \in Evs, RuleOf(Top(e)).conditions[Top(e).cond].type \in ConditionTypes
    PROVE  SameCall(EvalCondition(e), e)
  <1> DEFINE c == RuleOf(Top(e)).conditions[Top(e).cond]
             Ends(pass, fetch) == SetTop(e, EndCondition(Top(e), pass, fetch, <<>>))
  <1>1. \/ \E f : EvalCondition(e) = SetTop(e, f)
        \/ \E k, n, m : EvalCondition(e) = Begin(e, k, n, m)
        \/ EvalCondition(e) = Panic(e)
    <2>1. CASE c.type \in {"public", "true"}
      <3>1. EvalCondition(e) = Ends(TRUE, FALSE)
        BY <2>1 DEF EvalCondition
      <3>2. QED
        BY <3>1
    <2>2. CASE c.type \in {"false", "not_a_name"}
      <3>1. EvalCondition(e) = Ends(FALSE, FALSE)
        BY <2>2 DEF EvalCondition
      <3>2. QED
        BY <3>1
    <2>3. CASE c.type = "unsupported"
      <3>1. EvalCondition(e) = Ends(FALSE, TRUE)
        BY <2>3 DEF EvalCondition
      <3>2. QED
        BY <3>1
    <2>4. CASE c.type \in {"pass_gate", "fail_gate"}
      <3>1. EvalCondition(e) = Begin(e, "gate", c.gate, GateDepth(Top(e)))
        BY <2>4 DEF EvalCondition
      <3>2. QED
        BY <3>1
    <2>5. CASE c.type = "nil_in_list" \/ (c.type \in {"in_list", "not_in_list"} /\ idList = "nilIds")
      <3>1. EvalCondition(e) = Panic(e)
        BY <2>5 DEF EvalCondition
      <3>2. QED
        BY <3>1
    <2>6. CASE c.type \in {"in_list", "not_in_list"} /\ idList # "nilIds"
      <3>1. EvalCondition(e) = Ends((idList = "in") = (c.type = "in_list"), FALSE)
        BY <2>6 DEF EvalCondition
      <3>2. QED
        BY <3>1
    <2>7. QED
      BY <2>1, <2>2, <2>3, <2>4, <2>5, <2>6 DEF ConditionTypes
  <1>2. QED
    BY <1>1, SameCallShapes

LEMMA StepSameCall ==
    ASSUME IInv, NEW e, EvOK(e)
    PROVE  /\ SameCall(ReadOverride(e), e) /\ SameCall(ReadSpec(e), e)
           /\ e.at = "eval" => SameCall(EvalStep(e), e)
           /\ SameCall(ReadDelegate(e), e) /\ SameCall(Resume(e), e)
  <1>1. e \in Evs
    BY EvParts
  <1>2. SameCall(ReadOverride(e), e)
    <2> DEFINE d == [e EXCEPT !.at = "lookup"]
    <2>1. ReadOverride(e) = d \/ \E r : ReadOverride(e) = Return(e, r)
      BY DEF ReadOverride
    <2>2. SameCall(d, e)
      BY <1>1 DEF SameCall, Evs
    <2> HIDE DEF d
    <2>3. QED
      BY <1>1, <2>1, <2>2, SameCallShapes
  <1>3. SameCall(ReadSpec(e), e)
    <2>1. (\E r : ReadSpec(e) = Return(e, r)) \/ (\E k, s, m : ReadSpec(e) = Enter(e, k, s, m))
      BY DEF ReadSpec
    <2>2. QED
      BY <1>1, <2>1, SameCallShapes
  <1>4. SameCall(ReadDelegate(e), e)
    <2>1. \/ \E r : ReadDelegate(e) = Return(Pop(e), r)
          \/ \E k, s, m : ReadDelegate(e) = Enter(e, k, s, m)
      BY DEF ReadDelegate
    <2>2. QED
      BY <1>1, <2>1, SameCallShapes
  <1>5. SameCall(Resume(e), e)
    <2> DEFINE d == [e EXCEPT !.at = "done"]
               g(f) == [SetTop(e, f) EXCEPT !.at = "eval", !.result = NoResult]
    <2>1. Resume(e) = d \/ (\E f : Resume(e) = g(f)) \/ (\E r : Resume(e) = Return(Pop(e), r))
      BY Zenon DEF Resume
    <2>2. SameCall(d, e)
      BY <1>1 DEF SameCall, Evs
    <2>3. \A f : SameCall(g(f), e)
      BY <1>1 DEF SameCall, Evs, SetTop
    <2> HIDE DEF d, g
    <2>4. QED
      BY <1>1, <2>1, <2>2, <2>3, SameCallShapes
  <1>6. ASSUME e.at = "eval" PROVE SameCall(EvalStep(e), e)
    <2> DEFINE f == Top(e)
    <2>1. SameCall(EndRules(e), e)
      BY <1>1, SameCallShapes DEF EndRules
    <2>2. SameCall(EndRule(e), e)
      <3> DEFINE d(g) == [SetTop(e, g) EXCEPT !.at = "delegate"]
      <3>1. \/ \E r : EndRule(e) = Return(Pop(e), r)
            \/ \E g : EndRule(e) = d(g)
            \/ \E g : EndRule(e) = SetTop(e, g)
        BY DEF EndRule
      <3>2. \A g : SameCall(d(g), e)
        BY <1>1 DEF SameCall, Evs, SetTop
      <3> HIDE DEF d
      <3>3. QED
        BY <1>1, <3>1, <3>2, SameCallShapes
    <2>3. ASSUME f.spec.enabled, ~(f.rule > Len(f.spec.rules)), f.cond <= Len(RuleOf(f).conditions)
          PROVE  SameCall(EvalCondition(e), e)
      <3>1. f \in Frames /\ f.rule > 0 /\ f.cond > 0
        <4>1. e.stack # <<>>
          BY <1>6 DEF EvOK
        <4>2. QED
          BY <4>1, EvParts DEF FrameOK
      <3>2. f.rule \in Nat /\ f.cond \in Nat /\ f.spec.rules \in Seq(Rules)
        BY <3>1, FrameFields
      <3>3. InRule(f)
        BY <2>3, <3>1, <3>2 DEF InRule
      <3>4. RuleOf(f).conditions \in Seq(Conditions)
        BY <3>1, <3>3, RuleFields
      <3>5. f.cond \in DOMAIN RuleOf(f).conditions
        BY <2>3, <3>1, <3>2, <3>4
      <3>6. QED
        BY <1>1, <3>1, <3>3, <3>5, ConditionFields, EvalConditionSameCall
    <2>4. QED
      BY <2>1, <2>2, <2>3 DEF EvalStep
  <1>7. QED
    BY <1>2, <1>3, <1>4, <1>5, <1>6

-----------------------------------------------------------------------------
(***************************************************************************)
(* IInv is inductive.                                                      *)
(***************************************************************************)
LEMMA IdleOK == EvOK(Idle) /\ \A c \in Kinds \X (Names \cup {None}) : EvOK([Idle EXCEPT !.call = c])
  <1> DEFINE none == <<>>
             yes == TRUE
  <1>1. none \in Seq(Frames) /\ yes \in BOOLEAN /\ "gate" \in Kinds /\ "idle" \in Places
    BY DEF Kinds, Places
  <1>2. <<"gate", None>> \in Kinds \X (Names \cup {None})
    BY <1>1
  <1>3. /\ Idle.at = "idle" /\ Idle.kind = "gate" /\ Idle.name = None /\ Idle.depth = 0
        /\ Idle.stack = none
    BY DEF Idle
  <1>4. Idle = [at |-> "idle", kind |-> "gate", name |-> None, depth |-> 0, stack |-> none,
                result |-> NoResult, call |-> <<"gate", None>>, quiet |-> yes]
    BY DEF Idle
  <1> HIDE DEF none, yes
  <1>5. Idle \in Evs
    BY <1>1, <1>2, <1>4, NoResultOK DEF Evs
  <1>6. (\A b : StackOK(none, b)) /\ none = <<>>
    BY DEF StackOK, none
  <1>7. EvOK(Idle)
    BY <1>3, <1>5, <1>6 DEF EvOK
  <1>8. ASSUME NEW c \in Kinds \X (Names \cup {None}) PROVE EvOK([Idle EXCEPT !.call = c])
    <2> DEFINE d == [Idle EXCEPT !.call = c]
    <2>1. /\ d \in Evs /\ d.at = "idle" /\ d.kind = "gate" /\ d.name = None /\ d.depth = 0
          /\ d.stack = none
      BY <1>3, <1>5 DEF Evs
    <2> HIDE DEF d
    <2>2. EvOK(d)
      BY <1>6, <2>1 DEF EvOK
    <2>3. QED
      BY <2>2 DEF d
  <1>9. QED
    BY <1>7, <1>8

\* What TypeOK says of one evaluation.
LEMMA EvOKType ==
    ASSUME NEW e, EvOK(e)
    PROVE  /\ e.at \in {"idle", "override", "lookup", "eval", "delegate", "return",
                        "done", "panicked"}
           /\ e.result \in Results /\ e.stack \in Seq(Frames) /\ e.quiet \in BOOLEAN
           /\ e.kind \in Kinds /\ e.name \in NamesOf[e.kind] \cup {None}
  BY EvFields DEF EvOK, Places

LEMMA InitIInv == Init => IInv
  <1> SUFFICES ASSUME Init PROVE IInv
    OBVIOUS
  <1>1. \A t \in Threads : ev[t] = Idle
    BY DEF Init
  <1>2. \A t \in Threads : EvOK(ev[t])
    BY <1>1, IdleOK
  <1>3. ev \in [Threads -> Evs]
    BY IdleOK DEF Init, EvOK
  <1>4. /\ DOMAIN overrides = Kinds /\ overrides = [k \in Kinds |-> overrides[k]]
        /\ \A k \in Kinds : overrides[k] \in [NamesOf[k] -> Overrides]
    BY DEF Init, Overrides
  <1>5. world \in Worlds /\ store \in world /\ idList \in IdListStates /\ changes \in 0..MaxChanges(world)
    BY EvaluatorAssumption DEF Init
  <1>6. TypeOK
    BY <1>2, <1>4, <1>5, EvOKType DEF TypeOK
  <1>7. QED
    BY <1>2, <1>3, <1>4, <1>6 DEF IInv

\* A step of one evaluation that keeps EvOK keeps IInv.
LEMMA OneEvaluation ==
    ASSUME IInv, NEW t \in Threads, NEW e, EvOK(e), ev' = [ev EXCEPT ![t] = e],
           UNCHANGED sharedVars
    PROVE  IInv'
  <1>1. ev' \in [Threads -> Evs]
    BY DEF IInv, EvOK
  <1>2. \A u \in Threads : ev'[u] = IF u = t THEN e ELSE ev[u]
    BY DEF IInv
  <1>3. \A u \in Threads : EvOK(ev'[u])
    BY <1>2 DEF IInv
  <1>4. TypeOK'
    <2>1. UNCHANGED <<world, store, overrides, idList, changes>>
      BY DEF sharedVars
    <2>2. \A u \in Threads :
            /\ ev'[u].at \in {"idle", "override", "lookup", "eval", "delegate", "return",
                              "done", "panicked"}
            /\ ev'[u].result \in Results /\ ev'[u].stack \in Seq(Frames) /\ ev'[u].quiet \in BOOLEAN
            /\ ev'[u].kind \in Kinds /\ ev'[u].name \in NamesOf[ev'[u].kind] \cup {None}
      BY <1>3, EvOKType
    <2>3. QED
      BY <2>1, <2>2 DEF IInv, TypeOK
  <1>5. QED
    BY <1>1, <1>3, <1>4 DEF IInv, sharedVars

LEMMA CallIInv ==
    ASSUME IInv, NEW t \in Threads, NEW kind \in Kinds, NEW name \in NamesOf[kind],
           Call(t, kind, name)
    PROVE  IInv'
  <1> DEFINE b == [Idle EXCEPT !.call = <<kind, name>>]
             e == Begin(b, kind, name, 0)
  <1>1. name \in Names /\ name # None /\ <<kind, name>> \in Kinds \X (Names \cup {None})
    BY NamesFacts
  <1>2. EvOK(b) /\ b.stack = <<>>
    <2>1. EvOK(b)
      BY <1>1, IdleOK
    <2>2. b.stack = <<>>
      BY DEF Idle
    <2>3. QED
      BY <2>1, <2>2
  <1> HIDE DEF b
  <1>3. /\ e \in Evs /\ e.at = "override" /\ e.kind = kind /\ e.name = name /\ e.depth = 0
        /\ e.stack = <<>> /\ Base(e) <= 1
    BY <1>1, <1>2, EvParts, BeginShape DEF Base
  <1>4. ev' = [ev EXCEPT ![t] = e] /\ UNCHANGED sharedVars
    BY DEF Call, b
  <1> HIDE DEF e
  <1>5. EvOK(e)
    <2>1. e.depth + 1 >= 2 * Len(e.stack) + Base(e)
      BY <1>3 DEF Base
    <2>2. QED
      BY <1>1, <1>3, <2>1 DEF EvOK, StackOK, AllWait
  <1>6. QED
    BY <1>4, <1>5, OneEvaluation

\* What a step makes of e.
Stepped(e) ==
    CASE e.at = "override" -> ReadOverride(e)
      [] e.at = "lookup"   -> ReadSpec(e)
      [] e.at = "eval"     -> EvalStep(e)
      [] e.at = "delegate" -> ReadDelegate(e)
      [] e.at = "return"   -> Resume(e)

RunningAt == {"override", "lookup", "eval", "delegate", "return"}

LEMMA StepIs ==
    ASSUME IInv, NEW t \in Threads, Step(t)
    PROVE  /\ ev[t].at \in RunningAt /\ ev' = [ev EXCEPT ![t] = Stepped(ev[t])]
           /\ UNCHANGED sharedVars
  BY DEF Step, Running, RunningAt, Stepped, IInv

LEMMA StepIInv ==
    ASSUME IInv, NEW t \in Threads, Step(t)
    PROVE  IInv' /\ SameCall(Stepped(ev[t]), ev[t]) /\ EvOK(Stepped(ev[t]))
  <1> DEFINE e == ev[t]
             d == Stepped(e)
  <1>1. EvOK(e)
    BY DEF IInv
  <1>2. ev' = [ev EXCEPT ![t] = d] /\ UNCHANGED sharedVars /\ e.at \in RunningAt
    BY StepIs
  <1>3. EvOK(d) /\ SameCall(d, e)
    <2>1. CASE e.at = "override"
      BY <1>1, <2>1, ReadOverrideOK, StepSameCall DEF Stepped
    <2>2. CASE e.at = "lookup"
      BY <1>1, <2>2, ReadSpecOK, StepSameCall DEF Stepped
    <2>3. CASE e.at = "eval"
      BY <1>1, <2>3, EvalStepOK, StepSameCall DEF Stepped
    <2>4. CASE e.at = "delegate"
      BY <1>1, <2>4, ReadDelegateOK, StepSameCall DEF Stepped
    <2>5. CASE e.at = "return"
      BY <1>1, <2>5, ResumeOK, StepSameCall DEF Stepped
    <2>6. QED
      BY <1>2, <2>1, <2>2, <2>3, <2>4, <2>5 DEF RunningAt
  <1> HIDE DEF d
  <1>4. IInv'
    BY <1>2, <1>3, OneEvaluation
  <1>5. QED
    BY <1>3, <1>4 DEF d

\* Evaluations in progress only lose their quiet.
LEMMA ChangeKeeps ==
    ASSUME IInv, Change, world' = world
    PROVE  /\ ev' \in [Threads -> Evs] /\ changes' \in 0..MaxChanges(world')
           /\ \A t \in Threads : EvOK(ev'[t])
  <1> DEFINE no == FALSE
             Loud(e) == [e EXCEPT !.quiet = no]
  <1>1. no \in BOOLEAN
    OBVIOUS
  <1>2. ev' = [t \in Threads |-> Loud(ev[t])]
    BY DEF Change
  <1> HIDE DEF no
  <1>3. ASSUME NEW e, EvOK(e) PROVE EvOK(Loud(e))
    <2> DEFINE d == Loud(e)
    <2>1. /\ d \in Evs /\ d.kind = e.kind /\ d.name = e.name /\ d.depth = e.depth
          /\ d.at = e.at /\ d.stack = e.stack /\ d.call = e.call
      BY <1>1, <1>3, EvParts DEF Evs
    <2> HIDE DEF d
    <2>2. Top(d) = Top(e) /\ Base(d) = Base(e)
      BY <2>1 DEF Top, Base
    <2>3. EvOK(d)
      BY <1>3, <2>1, <2>2 DEF EvOK
    <2>4. QED
      BY <2>3 DEF d
  <1>4. \A t \in Threads : EvOK(Loud(ev[t]))
    BY <1>3 DEF IInv
  <1> HIDE DEF Loud
  <1>5. \A t \in Threads : ev'[t] = Loud(ev[t])
    BY <1>2
  <1>6. \A t \in Threads : EvOK(ev'[t])
    BY <1>4, <1>5
  <1>7. ev' \in [Threads -> Evs]
    BY <1>2, <1>4 DEF EvOK
  <1>8. changes' \in 0..MaxChanges(world')
    BY EvaluatorAssumption DEF Change, IInv, TypeOK
  <1>9. QED
    BY <1>6, <1>7, <1>8

LEMMA SharedIInv ==
    ASSUME IInv, Change, world' = world, store' \in world', idList' \in IdListStates,
           DOMAIN overrides' = Kinds, overrides' = [k \in Kinds |-> overrides'[k]],
           \A k \in Kinds : overrides'[k] \in [NamesOf[k] -> Overrides]
    PROVE  IInv'
  <1>1. /\ ev' \in [Threads -> Evs] /\ changes' \in 0..MaxChanges(world')
        /\ \A t \in Threads : EvOK(ev'[t])
    BY ChangeKeeps
  <1>2. \A u \in Threads :
            /\ ev'[u].at \in {"idle", "override", "lookup", "eval", "delegate", "return",
                              "done", "panicked"}
            /\ ev'[u].result \in Results /\ ev'[u].stack \in Seq(Frames) /\ ev'[u].quiet \in BOOLEAN
            /\ ev'[u].kind \in Kinds /\ ev'[u].name \in NamesOf[ev'[u].kind] \cup {None}
    BY <1>1, EvOKType
  <1>3. world' \in Worlds
    BY DEF IInv, TypeOK
  <1>4. TypeOK'
    BY <1>1, <1>2, <1>3 DEF TypeOK
  <1>5. QED
    BY <1>1, <1>4 DEF IInv

LEMMA ChangesIInv == ASSUME IInv, Changes PROVE IInv'
  <1>1. /\ Change /\ world' = world
        /\ store' \in world' /\ idList' \in IdListStates
        /\ DOMAIN overrides' = Kinds /\ overrides' = [k \in Kinds |-> overrides'[k]]
        /\ \A k \in Kinds : overrides'[k] \in [NamesOf[k] -> Overrides]
    <2>1. CASE \E g \in world : setConfigSpecs(g)
      BY <2>1 DEF setConfigSpecs, IInv, TypeOK
    <2>2. ASSUME NEW kind \in Kinds, NEW o \in BOOLEAN, NEW name \in NamesOf[kind],
                 Override(kind, name, o)
          PROVE  <1>1
      <3>1. Change /\ UNCHANGED <<world, store, idList>>
        BY <2>2 DEF Override
      <3>2. o \in Overrides
        BY DEF Overrides
      <3>3. overrides' = [overrides EXCEPT ![kind] = [overrides[kind] EXCEPT ![name] = o]]
        BY <2>2 DEF Override
      <3>4. [overrides[kind] EXCEPT ![name] = o] \in [NamesOf[kind] -> Overrides]
        BY <3>2 DEF IInv, TypeOK
      <3>5. DOMAIN overrides' = Kinds
        BY <3>3 DEF IInv
      <3>6. \A k \in Kinds : overrides'[k] = IF k = kind THEN [overrides[kind] EXCEPT ![name] = o]
                                             ELSE overrides[k]
        BY <3>3 DEF IInv
      <3>7. \A k \in Kinds : overrides'[k] \in [NamesOf[k] -> Overrides]
        BY <3>4, <3>6 DEF IInv, TypeOK
      <3>8. overrides' = [k \in Kinds |-> overrides'[k]]
        BY <3>3 DEF IInv
      <3>9. QED
        BY <3>1, <3>5, <3>7, <3>8 DEF IInv, TypeOK
    <2>3. CASE \E state \in IdListStates : SyncIDList(state)
      BY <2>3 DEF SyncIDList, IInv, TypeOK
    <2>4. QED
      BY <2>1, <2>2, <2>3 DEF Changes
  <1>2. QED
    BY <1>1, SharedIInv

LEMMA NextIInv == IInv /\ [Next]_vars => IInv'
  <1> SUFFICES ASSUME IInv, [Next]_vars PROVE IInv'
    OBVIOUS
  <1>1. CASE \E t \in Threads :
                Step(t) \/ \E kind \in Kinds : \E name \in NamesOf[kind] : Call(t, kind, name)
    BY <1>1, StepIInv, CallIInv
  <1>2. CASE Changes
    BY <1>2, ChangesIInv
  <1>3. CASE UNCHANGED vars
    BY <1>3 DEF vars, sharedVars, IInv, TypeOK
  <1>4. QED
    BY <1>1, <1>2, <1>3 DEF Next

LEMMA InvCorrect == Spec => []IInv
  BY InitIInv, NextIInv, PTL DEF Spec

-----------------------------------------------------------------------------
(***************************************************************************)
(* Evaluations keep their types: in particular no rule, condition or       *)
(* caller is looked for where there is none.                               *)
(***************************************************************************)
THEOREM TypeCorrect == Spec => []TypeOK
  <1>1. IInv => TypeOK
    BY DEF IInv
  <1>2. QED
    BY <1>1, InvCorrect, PTL

\* In Spec evaluations are asked for by name.
NamedInv == \A t \in Threads : ev[t].at = "idle" \/ ev[t].call[2] # None

LEMMA NamedKept ==
    ASSUME IInv, NamedInv, [Next]_vars
    PROVE  NamedInv'
  <1>1. ASSUME NEW t \in Threads, Step(t) PROVE NamedInv'
    <2>1. ev[t].call[2] # None /\ ev' = [ev EXCEPT ![t] = Stepped(ev[t])]
      BY <1>1, StepIs DEF NamedInv, RunningAt
    <2>2. Stepped(ev[t]).call = ev[t].call
      BY <1>1, StepIInv DEF SameCall
    <2>3. QED
      BY <2>1, <2>2 DEF NamedInv, IInv
  <1>2. ASSUME NEW t \in Threads, NEW kind \in Kinds, NEW name \in NamesOf[kind], Call(t, kind, name)
        PROVE  NamedInv'
    <2> DEFINE b == [Idle EXCEPT !.call = <<kind, name>>]
               e == Begin(b, kind, name, 0)
    <2>1. ev' = [ev EXCEPT ![t] = e]
      BY <1>2 DEF Call
    <2>2. name # None
      BY NamesFacts
    <2>3. e.call[2] = name
      BY DEF Begin, Idle
    <2> HIDE DEF e
    <2>4. QED
      BY <2>1, <2>2, <2>3 DEF NamedInv, IInv
  <1>3. CASE Changes
    <2>1. ev' = [t \in Threads |-> [ev[t] EXCEPT !.quiet = FALSE]]
      BY <1>3 DEF Changes, setConfigSpecs, Override, SyncIDList, Change
    <2>2. ASSUME NEW t \in Threads PROVE ev'[t].at = ev[t].at /\ ev'[t].call = ev[t].call
      <3>1. ev[t] \in Evs
        BY DEF IInv
      <3>2. QED
        BY <2>1, <3>1 DEF Evs
    <2>3. QED
      BY <2>2 DEF NamedInv
  <1>4. CASE UNCHANGED vars
    BY <1>4 DEF NamedInv, vars
  <1>5. QED
    BY <1>1, <1>2, <1>3, <1>4 DEF Next

(***************************************************************************)
(* maxRecursiveDepth bounds the stack of every evaluation, for all specs,  *)
(* cycles among them included, and whatever syncs, overrides and ID list   *)
(* changes come between its steps: the n-th frame of eval is at depth      *)
(* 2n - 1 or more, and no frame is deeper than the limit.                  *)
(***************************************************************************)
THEOREM NestingCorrect == Spec => []NestingBounded
  <1>1. Init => NamedInv
    BY DEF Init, NamedInv, Idle
  <1>2. IInv /\ NamedInv /\ [Next]_vars => NamedInv'
    BY NamedKept
  <1>3. IInv /\ NamedInv => NestingBounded
    <2> SUFFICES ASSUME IInv, NamedInv, NEW t \in Threads
                 PROVE  2 * (Len(ev[t].stack) - 1) < MaxDepth
      BY DEF NestingBounded
    <2>1. EvOK(ev[t]) /\ MaxDepth \in Nat
      BY EvaluatorAssumption DEF IInv
    <2>2. CASE ev[t].stack = <<>>
      BY <2>1, <2>2
    <2>3. CASE ev[t].stack # <<>>
      <3>1. /\ FrameOK(Top(ev[t]), Len(ev[t].stack), Base(ev[t])) /\ Len(ev[t].stack) \in Nat
            /\ Top(ev[t]).depth \in Nat
        BY <2>1, <2>3, EvParts, FrameFields
      <3>2. Base(ev[t]) = 1
        BY <2>1, <2>3 DEF NamedInv, Base, EvOK
      <3>3. QED
        BY <2>1, <3>1, <3>2 DEF FrameOK
    <2>4. QED
      BY <2>2, <2>3
  <1>4. QED
    BY <1>1, <1>2, <1>3, InvCorrect, PTL DEF Spec

-----------------------------------------------------------------------------
(***************************************************************************)
(* From here on: a quiet evaluation comes to the reference.  What is       *)
(* defined by recursion (FlattenSeq, Reference) is reasoned about by a     *)
(* least counterexample.                                                   *)
(***************************************************************************)
LEMMA Least ==
    ASSUME NEW T, T \subseteq Nat, T # {}
    PROVE  \E x \in T : \A y \in T : x <= y
  <1>1. IsWellFoundedOn(OpToRel(<, Nat), Nat)
    BY NatLessThanWellFounded, Zenon
  <1>2. PICK x \in T : \A y \in T : ~ (<<y, x>> \in OpToRel(<, Nat))
    BY <1>1, WFMin, Zenon
  <1>3. \A y \in T : ~ (y < x)
    BY <1>2, Zenon DEF OpToRel
  <1>4. QED
    BY <1>3

-----------------------------------------------------------------------------
(***************************************************************************)
(* Concatenation.  FlattenSeq is a function with h = [i \in 1..n |->       *)
(* Join(F, h, i)]; there is one for each n, and they agree.                *)
(***************************************************************************)
Join(F, h, i) == IF i = 1 THEN F[i] ELSE h[i - 1] \o F[i]

IsJoin(F, n, h) == h = [i \in 1..n |-> Join(F, h, i)]

LEMMA JoinAt ==
    ASSUME NEW F, NEW n \in Nat, NEW h, IsJoin(F, n, h), NEW i \in 1..n
    PROVE  h[i] = Join(F, h, i)
  <1> DEFINE J(k) == Join(F, h, k)
  <1>1. h = [k \in 1..n |-> J(k)]
    BY DEF IsJoin
  <1> HIDE DEF J
  <1>2. h[i] = J(i)
    BY <1>1
  <1>3. QED
    BY <1>2 DEF J

LEMMA JoinExists ==
    ASSUME NEW F, NEW n \in Nat PROVE \E h : IsJoin(F, n, h)
  <1> DEFINE Bad == {m \in Nat : ~\E h : IsJoin(F, m, h)}
  <1>1. SUFFICES ASSUME Bad # {} PROVE FALSE
    OBVIOUS
  <1>2. PICK m \in Bad : \A k \in Bad : m <= k
    BY <1>1, Least
  <1>3. CASE m = 0
    <2> DEFINE h == [i \in 1..0 |-> 0]
    <2>1. h = [i \in 1..0 |-> Join(F, h, i)]
      OBVIOUS
    <2>2. IsJoin(F, 0, h)
      BY <2>1 DEF IsJoin
    <2> HIDE DEF h
    <2>3. QED
      BY <1>3, <2>2
  <1>4. CASE m # 0
    <2>1. m - 1 \in Nat /\ m - 1 \notin Bad
      BY <1>2, <1>4
    <2>2. PICK h : IsJoin(F, m - 1, h)
      BY <2>1
    <2> DEFINE J(i) == Join(F, h, i)
               d == [i \in 1..m |-> J(i)]
    <2>3. \A i \in 1..(m - 1) : h[i] = J(i)
      BY <2>1, <2>2, JoinAt
    <2>4. ASSUME NEW i \in 1..m PROVE Join(F, d, i) = J(i)
      <3>1. CASE i = 1
        BY <3>1 DEF Join
      <3>2. CASE i # 1
        <4>1. i - 1 \in 1..(m - 1) /\ i - 1 \in 1..m
          BY <1>4, <3>2
        <4>2. d[i - 1] = J(i - 1)
          BY <4>1
        <4>3. d[i - 1] = h[i - 1]
          BY <2>3, <4>1, <4>2
        <4> HIDE DEF d
        <4>4. QED
          BY <3>2, <4>3 DEF Join
      <3>3. QED
        BY <3>1, <3>2
    <2> HIDE DEF J
    <2>5. d = [i \in 1..m |-> Join(F, d, i)]
      BY <2>4
    <2> HIDE DEF d
    <2>6. IsJoin(F, m, d)
      BY <2>5 DEF IsJoin
    <2>7. QED
      BY <2>6
  <1>5. QED
    BY <1>3, <1>4

LEMMA JoinsAgree ==
    ASSUME NEW F, NEW n \in Nat, NEW h, IsJoin(F, n, h), NEW d, IsJoin(F, n + 1, d)
    PROVE  \A i \in 1..n : d[i] = h[i]
  <1> DEFINE Bad == {i \in 1..n : d[i] # h[i]}
  <1>1. SUFFICES ASSUME Bad # {} PROVE FALSE
    OBVIOUS
  <1>2. PICK m \in Bad : \A k \in Bad : m <= k
    <2>1. Bad \subseteq Nat
      OBVIOUS
    <2> HIDE DEF Bad
    <2>2. QED
      BY <1>1, <2>1, Least
  <1>3. d[m] = Join(F, d, m) /\ h[m] = Join(F, h, m)
    BY JoinAt
  <1>4. m # 1 => m - 1 \in 1..n /\ m - 1 \notin Bad
    BY <1>2
  <1>5. QED
    BY <1>3, <1>4 DEF Join

LEMMA FlattenIsJoin ==
    ASSUME NEW s, Len(s) \in Nat, Len(s) # 0
    PROVE  \E h : IsJoin(s, Len(s), h) /\ FlattenSeq(s) = h[Len(s)]
  <1> DEFINE C == CHOOSE h : IsJoin(s, Len(s), h)
  <1>1. FlattenSeq(s) = C[Len(s)]
    BY DEF FlattenSeq, IsJoin, Join
  <1>2. IsJoin(s, Len(s), C)
    BY JoinExists
  <1> HIDE DEF C
  <1>3. QED
    BY <1>1, <1>2

Prefix(F, n) == [i \in 1..n |-> F[i]]

LEMMA PrefixFacts ==
    ASSUME NEW F, NEW n \in Nat
    PROVE  /\ Len(Prefix(F, n)) = n /\ \A i \in 1..n : Prefix(F, n)[i] = F[i]
  <1> DEFINE S == {F[i] : i \in 1..n}
             s == [i \in 1..n |-> F[i]]
  <1>1. s \in [1..n -> S]
    OBVIOUS
  <1> HIDE DEF S
  <1>2. s \in Seq(S) /\ Len(s) = n
    BY <1>1
  <1>3. QED
    BY <1>2 DEF Prefix

LEMMA FlattenMore ==
    ASSUME NEW F, NEW n \in Nat
    PROVE  /\ FlattenSeq(Prefix(F, 0)) = <<>>
           /\ n = 0 => FlattenSeq(Prefix(F, n + 1)) = F[n + 1]
           /\ n # 0 => FlattenSeq(Prefix(F, n + 1)) = FlattenSeq(Prefix(F, n)) \o F[n + 1]
  <1> DEFINE s == Prefix(F, n)
             t == Prefix(F, n + 1)
  <1>1. FlattenSeq(Prefix(F, 0)) = <<>>
    BY PrefixFacts DEF FlattenSeq, Prefix
  <1>2. /\ Len(s) = n /\ \A i \in 1..n : s[i] = F[i]
        /\ Len(t) = n + 1 /\ \A i \in 1..(n + 1) : t[i] = F[i]
    BY PrefixFacts
  <1> HIDE DEF s, t
  <1>3. PICK d : IsJoin(t, n + 1, d) /\ FlattenSeq(t) = d[n + 1]
    BY <1>2, FlattenIsJoin
  <1>4. /\ n = 0 => d[n + 1] = t[n + 1]
        /\ n # 0 => d[n + 1] = d[n] \o t[n + 1]
    <2>1. d[n + 1] = Join(t, d, n + 1)
      BY <1>3, JoinAt
    <2>2. (n + 1) - 1 = n /\ (n # 0 => n + 1 # 1)
      OBVIOUS
    <2>3. Join(t, d, n + 1) = IF n + 1 = 1 THEN t[n + 1] ELSE d[(n + 1) - 1] \o t[n + 1]
      BY Zenon DEF Join
    <2>4. CASE n = 0
      BY <2>1, <2>3, <2>4
    <2>5. CASE n # 0
      <3>1. d[n + 1] = d[(n + 1) - 1] \o t[n + 1]
        BY <2>1, <2>2, <2>3, <2>5, Zenon
      <3>2. QED
        BY <2>2, <2>5, <3>1, Zenon
    <2>6. QED
      BY <2>4, <2>5
  <1>5. CASE n = 0
    BY <1>1, <1>2, <1>3, <1>4, <1>5 DEF t
  <1>6. CASE n # 0
    <2>1. PICK h : IsJoin(s, n, h) /\ FlattenSeq(s) = h[n]
      BY <1>2, <1>6, FlattenIsJoin
    <2>2. \A i \in 1..n : Join(s, h, i) = Join(t, h, i)
      BY <1>2 DEF Join
    <2>3. IsJoin(t, n, h)
      <3> DEFINE A(i) == Join(s, h, i)
                 B(i) == Join(t, h, i)
      <3>1. h = [i \in 1..n |-> A(i)] /\ \A i \in 1..n : A(i) = B(i)
        BY <2>1, <2>2 DEF IsJoin
      <3> HIDE DEF A, B
      <3>2. h = [i \in 1..n |-> B(i)]
        BY <3>1
      <3>3. QED
        BY <3>2 DEF B, IsJoin
    <2>4. d[n] = h[n]
      BY <1>3, <1>6, <2>3, JoinsAgree
    <2>5. FlattenSeq(t) = FlattenSeq(s) \o F[n + 1]
      <3>1. t[n + 1] = F[n + 1]
        BY <1>2
      <3>2. d[n + 1] = d[n] \o t[n + 1]
        BY <1>4, <1>6
      <3>3. QED
        BY <1>3, <2>1, <2>4, <3>1, <3>2
    <2>6. QED
      BY <1>1, <1>6, <2>5 DEF s, t
  <1>7. QED
    BY <1>5, <1>6

-----------------------------------------------------------------------------
(***************************************************************************)
(* The reference exists: for each depth there is a function from there on. *)
(***************************************************************************)
Deepest == MaxDepth + 4

At(g, ov, list, f, i) == Level(g, ov, list, i, f[i + 4], f[i + 2])

IsReference(g, ov, list, i, f) == f = [k \in i..Deepest |-> At(g, ov, list, f, k)]

\* What is too deep does not depend on what lies deeper.
LEMMA DeepLevel ==
    ASSUME NEW g, NEW ov, NEW list, NEW i \in Int, i + 1 > MaxDepth, NEW a, NEW b, NEW c, NEW d
    PROVE  Level(g, ov, list, i, a, b) = Level(g, ov, list, i, c, d)
  <1> DEFINE L == [kind \in Kinds |-> [name \in NamesOf[kind] |->
                      IF g[kind][name] = None THEN NoResult ELSE Failure]]
  <1>1. ASSUME NEW x, NEW y PROVE Level(g, ov, list, i, x, y) = L
    BY DEF Level
  <1>2. QED
    BY <1>1

LEMMA AtAgrees ==
    ASSUME NEW g, NEW ov, NEW list, NEW i \in Int, NEW f, NEW h,
           i + 1 <= MaxDepth => f[i + 4] = h[i + 4] /\ f[i + 2] = h[i + 2]
    PROVE  At(g, ov, list, f, i) = At(g, ov, list, h, i)
  <1>1. MaxDepth \in Int
    BY EvaluatorAssumption
  <1>2. CASE i + 1 <= MaxDepth
    BY <1>2 DEF At
  <1>3. CASE i + 1 > MaxDepth
    BY <1>3, DeepLevel DEF At
  <1>4. QED
    BY <1>1, <1>2, <1>3

LEMMA ReferenceExists ==
    ASSUME NEW g, NEW ov, NEW list
    PROVE  \E f : IsReference(g, ov, list, -1, f)
  <1> DEFINE There(m) == \E f : IsReference(g, ov, list, Deepest - m, f)
             Bad == {m \in Nat : ~There(m)}
  <1>0. MaxDepth \in Nat /\ Deepest \in Nat /\ Deepest = MaxDepth + 4
    BY EvaluatorAssumption DEF Deepest
  <1>1. ASSUME NEW m \in Nat, m # 0 => There(m - 1) PROVE There(m)
    <2> DEFINE i == Deepest - m
    <2>1. PICK f : m # 0 => IsReference(g, ov, list, i + 1, f)
      <3>1. m # 0 => Deepest - (m - 1) = i + 1
        BY <1>0
      <3>2. QED
        BY <1>1, <3>1
    <2> DEFINE A(k) == At(g, ov, list, f, k)
               d == [k \in i..Deepest |-> A(k)]
    <2>2. \A k \in (i + 1)..Deepest : f[k] = A(k)
      <3>1. CASE m = 0
        BY <1>0, <3>1
      <3>2. CASE m # 0
        <4>1. f = [k \in (i + 1)..Deepest |-> A(k)]
          BY <2>1, <3>2 DEF IsReference
        <4> HIDE DEF A
        <4>2. QED
          BY <4>1
      <3>3. QED
        BY <3>1, <3>2
    <2>3. ASSUME NEW k \in i..Deepest PROVE At(g, ov, list, d, k) = A(k)
      <3>1. i \in Int /\ k \in Int
        BY <1>0
      <3>2. ASSUME k + 1 <= MaxDepth, NEW j \in {k + 2, k + 4} PROVE d[j] = f[j]
        <4>1. j \in (i + 1)..Deepest /\ j \in i..Deepest
          BY <1>0, <3>1, <3>2
        <4>2. d[j] = A(j)
          BY <4>1
        <4>3. QED
          BY <2>2, <4>1, <4>2
      <3> HIDE DEF d
      <3>3. QED
        BY <3>1, <3>2, AtAgrees
    <2> HIDE DEF A
    <2>4. d = [k \in i..Deepest |-> At(g, ov, list, d, k)]
      BY <2>3
    <2> HIDE DEF d
    <2>5. IsReference(g, ov, list, i, d)
      BY <2>4 DEF IsReference
    <2>6. QED
      BY <2>5
  <1> HIDE DEF There
  <1>2. Bad = {}
    <2> SUFFICES ASSUME Bad # {} PROVE FALSE
      OBVIOUS
    <2>1. PICK m \in Bad : \A k \in Bad : m <= k
      <3>1. Bad \subseteq Nat
        OBVIOUS
      <3> HIDE DEF Bad
      <3>2. QED
        BY <3>1, Least
    <2>2. m # 0 => m - 1 \in Nat /\ m - 1 \notin Bad
      BY <2>1
    <2>3. QED
      BY <1>1, <2>2
  <1>3. Deepest + 1 \in Nat /\ Deepest - (Deepest + 1) = -1
    BY <1>0
  <1>4. There(Deepest + 1)
    BY <1>2, <1>3
  <1>5. QED
    BY <1>3, <1>4 DEF There

LEMMA ReferenceLevel ==
    ASSUME NEW g, NEW ov, NEW list, NEW i \in -1..Deepest
    PROVE  LET ref == Reference(g, ov, list) IN
           ref[i] = Level(g, ov, list, i, ref[i + 4], ref[i + 2])
  <1> DEFINE R == CHOOSE f : IsReference(g, ov, list, -1, f)
             A(k) == At(g, ov, list, R, k)
  <1>1. Reference(g, ov, list) = R
    BY DEF Reference, IsReference, At, Deepest
  <1>2. IsReference(g, ov, list, -1, R)
    BY ReferenceExists
  <1> HIDE DEF R
  <1>3. R = [k \in -1..Deepest |-> A(k)]
    BY <1>2 DEF IsReference
  <1> HIDE DEF A
  <1>4. R[i] = A(i)
    BY <1>3
  <1>5. QED
    BY <1>1, <1>4 DEF A, At

-----------------------------------------------------------------------------
(***************************************************************************)
(* What the reference says of a spec, by the first rule that decides.      *)
(***************************************************************************)
NoneDecides(spec, n, gates, list) == \A i \in 1..n : ~Decides(spec.rules[i], gates, list)

LEMMA MinIs ==
    ASSUME NEW S, NEW i \in S, S \subseteq Int, \A j \in S : i <= j
    PROVE  Min(S) = i
  <1> DEFINE First(k) == k \in S /\ \A j \in S : k <= j
  <1>1. Min(S) = CHOOSE k : First(k)
    BY DEF Min
  <1>2. First(i)
    OBVIOUS
  <1> HIDE DEF First
  <1>3. First(Min(S))
    BY <1>1, <1>2
  <1>4. Min(S) \in S /\ Min(S) <= i
    BY <1>3 DEF First
  <1>5. i <= Min(S) /\ Min(S) \in Int /\ i \in Int
    BY <1>4
  <1>6. QED
    BY <1>4, <1>5

LEMMA FirstRuleDecides ==
    ASSUME NEW kind, NEW spec \in Specs, NEW gates, NEW delegates, NEW list, spec.enabled,
           NEW i \in DOMAIN spec.rules, Decides(spec.rules[i], gates, list),
           NoneDecides(spec, i - 1, gates, list)
    PROVE  SpecReference(kind, spec, gates, delegates, list)
             = RuleReference(kind, spec, spec.rules[i], gates, delegates, list, SpecExposures(spec, i, gates))
  <1> DEFINE deciding == {j \in DOMAIN spec.rules : Decides(spec.rules[j], gates, list)}
  <1>1. spec.rules \in Seq(Rules)
    BY DEF Specs
  <1>2. i \in deciding /\ deciding \subseteq Int
    BY <1>1
  <1>3. \A j \in deciding : i <= j
    BY <1>1 DEF NoneDecides
  <1>4. deciding # {} /\ Min(deciding) = i
    <2> HIDE DEF deciding
    <2>1. QED
      BY <1>2, <1>3, MinIs
  <1>5. SpecReference(kind, spec, gates, delegates, list)
          = IF ~spec.enabled
            THEN OwnResult(kind, FALSE, "disabled", DefaultValue(spec), SpecExposures(spec, 0, gates))
            ELSE IF deciding = {}
            THEN OwnResult(kind, FALSE, "default", DefaultValue(spec),
                           SpecExposures(spec, Len(spec.rules), gates))
            ELSE RuleReference(kind, spec, spec.rules[Min(deciding)], gates, delegates, list,
                               SpecExposures(spec, Min(deciding), gates))
    BY DEF SpecReference
  <1> HIDE DEF deciding
  <1>6. QED
    BY <1>4, <1>5

LEMMA NoRuleDecides ==
    ASSUME NEW kind, NEW spec \in Specs, NEW gates, NEW delegates, NEW list,
           spec.enabled => NoneDecides(spec, Len(spec.rules), gates, list)
    PROVE  SpecReference(kind, spec, gates, delegates, list)
             = IF spec.enabled
               THEN OwnResult(kind, FALSE, "default", DefaultValue(spec),
                              SpecExposures(spec, Len(spec.rules), gates))
               ELSE OwnResult(kind, FALSE, "disabled", DefaultValue(spec), SpecExposures(spec, 0, gates))
  <1> DEFINE deciding == {j \in DOMAIN spec.rules : Decides(spec.rules[j], gates, list)}
  <1>1. spec.rules \in Seq(Rules)
    BY DEF Specs
  <1>2. spec.enabled => deciding = {}
    BY <1>1 DEF NoneDecides
  <1>3. SpecReference(kind, spec, gates, delegates, list)
          = IF ~spec.enabled
            THEN OwnResult(kind, FALSE, "disabled", DefaultValue(spec), SpecExposures(spec, 0, gates))
            ELSE IF deciding = {}
            THEN OwnResult(kind, FALSE, "default", DefaultValue(spec),
                           SpecExposures(spec, Len(spec.rules), gates))
            ELSE RuleReference(kind, spec, spec.rules[Min(deciding)], gates, delegates, list,
                               SpecExposures(spec, Min(deciding), gates))
    BY DEF SpecReference
  <1> HIDE DEF deciding
  <1>4. QED
    BY <1>2, <1>3

-----------------------------------------------------------------------------
(***************************************************************************)
(* How far a frame has come, in terms of the reference.                    *)
(***************************************************************************)
\* The exposures of the first n conditions.
CondExposures(cs, n, gates) == FlattenSeq([j \in 1..n |-> Exposed(cs[j], gates)])

\* The conditions of the rule that are behind f.
Through(f, gates, list) ==
    LET cs == RuleOf(f).conditions
        n == f.cond - 1
    IN  /\ n <= Len(cs)
        /\ \A j \in 1..n : ~Panics(cs[j], gates, list)
        /\ f.fetch <=> \E j \in 1..n : Fetches(cs[j], gates)
        /\ f.pass <=> \A j \in 1..n : Passes(cs[j], gates, list)
        /\ f.ruleExposures = CondExposures(cs, n, gates)

\* f looks for the rule that decides.
Looking(f, gates, list) ==
    /\ f.rule > 0 /\ f.cond > 0 /\ f.rule - 1 <= Len(f.spec.rules)
    /\ f.spec.enabled \/ f.rule = 1
    /\ NoneDecides(f.spec, f.rule - 1, gates, list)
    /\ f.exposures = SpecExposures(f.spec, f.rule - 1, gates)
    /\ InRule(f) => Through(f, gates, list)

\* f has found it: a rule all of whose conditions pass.
Delegating(f, gates, list) ==
    /\ f.rule > 0 /\ f.cond > 0 /\ f.spec.enabled /\ RuleEnded(f)
    /\ NoneDecides(f.spec, f.rule - 1, gates, list)
    /\ f.exposures = SpecExposures(f.spec, f.rule, gates)
    /\ Through(f, gates, list) /\ f.pass /\ ~f.fetch

LEMMA FlattenStep ==
    ASSUME NEW F, NEW n \in Nat, NEW T, F[n + 1] \in Seq(T)
    PROVE  FlattenSeq(Prefix(F, n + 1)) = FlattenSeq(Prefix(F, n)) \o F[n + 1]
  <1>1. CASE n = 0
    <2>1. FlattenSeq(Prefix(F, n + 1)) = F[n + 1] /\ FlattenSeq(Prefix(F, n)) = <<>>
      BY <1>1, FlattenMore
    <2>2. <<>> \o F[n + 1] = F[n + 1]
      OBVIOUS
    <2>3. QED
      BY <2>1, <2>2
  <1>2. CASE n # 0
    BY <1>2, FlattenMore
  <1>3. QED
    BY <1>1, <1>2

LEMMA CondExposuresMore ==
    ASSUME NEW cs, NEW gates, NEW n \in Nat, Exposed(cs[n + 1], gates) \in Seq(Exposures)
    PROVE  CondExposures(cs, n + 1, gates)
             = CondExposures(cs, n, gates) \o Exposed(cs[n + 1], gates)
  <1> DEFINE X(j) == Exposed(cs[j], gates)
             F == [j \in 1..(n + 1) |-> X(j)]
  <1>1. /\ [j \in 1..n |-> X(j)] = Prefix(F, n)
        /\ [j \in 1..(n + 1) |-> X(j)] = Prefix(F, n + 1)
        /\ F[n + 1] = X(n + 1)
    BY DEF Prefix
  <1> HIDE DEF F
  <1>2. /\ CondExposures(cs, n, gates) = FlattenSeq(Prefix(F, n))
        /\ CondExposures(cs, n + 1, gates) = FlattenSeq(Prefix(F, n + 1))
    BY <1>1 DEF CondExposures
  <1>3. F[n + 1] \in Seq(Exposures)
    BY <1>1
  <1> HIDE DEF X
  <1>4. FlattenSeq(Prefix(F, n + 1)) = FlattenSeq(Prefix(F, n)) \o F[n + 1]
    BY <1>3, FlattenStep
  <1>5. CondExposures(cs, n + 1, gates) = CondExposures(cs, n, gates) \o X(n + 1)
    BY <1>1, <1>2, <1>4, Zenon
  <1>6. QED
    BY <1>5 DEF X

LEMMA SpecExposuresMore ==
    ASSUME NEW spec, NEW gates, NEW n \in Nat, RuleExposures(spec.rules[n + 1], gates) \in Seq(Exposures)
    PROVE  SpecExposures(spec, n + 1, gates)
             = SpecExposures(spec, n, gates) \o RuleExposures(spec.rules[n + 1], gates)
  <1> DEFINE X(j) == RuleExposures(spec.rules[j], gates)
             F == [j \in 1..(n + 1) |-> X(j)]
  <1>1. /\ [j \in 1..n |-> X(j)] = Prefix(F, n)
        /\ [j \in 1..(n + 1) |-> X(j)] = Prefix(F, n + 1)
        /\ F[n + 1] = X(n + 1)
    BY DEF Prefix
  <1> HIDE DEF F
  <1>2. /\ SpecExposures(spec, n, gates) = FlattenSeq(Prefix(F, n))
        /\ SpecExposures(spec, n + 1, gates) = FlattenSeq(Prefix(F, n + 1))
    BY <1>1 DEF SpecExposures
  <1>3. F[n + 1] \in Seq(Exposures)
    BY <1>1
  <1> HIDE DEF X
  <1>4. FlattenSeq(Prefix(F, n + 1)) = FlattenSeq(Prefix(F, n)) \o F[n + 1]
    BY <1>3, FlattenStep
  <1>5. SpecExposures(spec, n + 1, gates) = SpecExposures(spec, n, gates) \o X(n + 1)
    BY <1>1, <1>2, <1>4, Zenon
  <1>6. QED
    BY <1>5 DEF X

\* Before the first condition, and after the last one.
LEMMA NoExposures ==
    ASSUME NEW cs, NEW spec, NEW gates
    PROVE  CondExposures(cs, 0, gates) = <<>> /\ SpecExposures(spec, 0, gates) = <<>>
  <1> DEFINE F == <<>>
  <1>1. FlattenSeq(Prefix(F, 0)) = <<>>
    BY FlattenMore
  <1>2. [j \in 1..0 |-> Exposed(cs[j], gates)] = Prefix(F, 0)
    BY DEF Prefix
  <1>3. [i \in 1..0 |-> RuleExposures(spec.rules[i], gates)] = Prefix(F, 0)
    BY DEF Prefix
  <1> HIDE DEF F
  <1>4. QED
    BY <1>1, <1>2, <1>3 DEF CondExposures, SpecExposures

LEMMA AllExposures ==
    ASSUME NEW r, NEW gates, r.conditions \in Seq(Conditions)
    PROVE  RuleExposures(r, gates) = CondExposures(r.conditions, Len(r.conditions), gates)
  <1>1. DOMAIN r.conditions = 1..Len(r.conditions)
    OBVIOUS
  <1>2. QED
    BY <1>1 DEF RuleExposures, CondExposures

\* One more condition is behind f.
LEMMA ThroughMore ==
    ASSUME NEW f \in Frames, NEW gates, NEW list, Looking(f, gates, list), InRule(f),
           f.cond \in DOMAIN RuleOf(f).conditions, NEW c, c = RuleOf(f).conditions[f.cond],
           NEW pass \in BOOLEAN, NEW fetch \in BOOLEAN, NEW x \in Seq(Exposures),
           ~Panics(c, gates, list), pass <=> Passes(c, gates, list), fetch <=> Fetches(c, gates),
           x = Exposed(c, gates)
    PROVE  LET g == EndCondition(f, pass, fetch, x) IN
           Looking(g, gates, list) /\ g.kind = f.kind /\ g.spec = f.spec /\ g.depth = f.depth
  <1> DEFINE cs == RuleOf(f).conditions
             n == f.cond - 1
             p == f.pass /\ pass
             q == f.fetch \/ fetch
             y == f.ruleExposures \o x
             m == f.cond + 1
             g == [[[[f EXCEPT !.cond = m] EXCEPT !.pass = p] EXCEPT !.fetch = q]
                      EXCEPT !.ruleExposures = y]
  <1>0. EndCondition(f, pass, fetch, x) = g
    BY DEF EndCondition
  <1> HIDE DEF p, q, y, m
  <1>1. /\ g.kind = f.kind /\ g.spec = f.spec /\ g.depth = f.depth /\ g.rule = f.rule
        /\ g.cond = m /\ g.exposures = f.exposures /\ g.pass = p /\ g.fetch = q
        /\ g.ruleExposures = y
    BY DEF Frames
  <1> HIDE DEF g
  <1>2. f.rule \in Nat /\ f.cond \in Nat /\ cs \in Seq(Conditions) /\ f.pass \in BOOLEAN
        /\ f.fetch \in BOOLEAN
    BY FrameFields, RuleFields
  <1>3. RuleOf(g) = RuleOf(f) /\ InRule(g)
    BY <1>1 DEF RuleOf, InRule
  <1>4. /\ n \in Nat /\ n + 1 = f.cond /\ g.cond - 1 = n + 1 /\ n + 1 <= Len(cs)
        /\ 1..(n + 1) = 1..n \cup {n + 1}
    BY <1>1, <1>2 DEF Looking, m
  <1>5. Through(f, gates, list)
    BY DEF Looking
  <1>6. /\ \A j \in 1..n : ~Panics(cs[j], gates, list)
        /\ f.fetch <=> \E j \in 1..n : Fetches(cs[j], gates)
        /\ f.pass <=> \A j \in 1..n : Passes(cs[j], gates, list)
        /\ f.ruleExposures = CondExposures(cs, n, gates)
    BY <1>5, Zenon DEF Through
  <1>7. cs[n + 1] = c
    BY <1>4
  <1> HIDE DEF n, cs
  <1>8. /\ \A j \in 1..(n + 1) : ~Panics(cs[j], gates, list)
        /\ g.fetch <=> \E j \in 1..(n + 1) : Fetches(cs[j], gates)
        /\ g.pass <=> \A j \in 1..(n + 1) : Passes(cs[j], gates, list)
    <2>1. \A j : j \in 1..(n + 1) <=> j \in 1..n \/ j = n + 1
      BY <1>4
    <2>2. \A j \in 1..(n + 1) : ~Panics(cs[j], gates, list)
      BY <1>6, <1>7, <2>1, Zenon
    <2>3. g.fetch <=> \E j \in 1..(n + 1) : Fetches(cs[j], gates)
      BY <1>1, <1>6, <1>7, <2>1, Zenon DEF p, q
    <2>4. g.pass <=> \A j \in 1..(n + 1) : Passes(cs[j], gates, list)
      BY <1>1, <1>6, <1>7, <2>1, Zenon DEF p, q
    <2>5. QED
      BY <2>2, <2>3, <2>4
  <1>9. g.ruleExposures = CondExposures(cs, n + 1, gates)
    BY <1>1, <1>4, <1>6, <1>7, CondExposuresMore DEF y
  <1>10. Through(g, gates, list)
    BY <1>3, <1>4, <1>8, <1>9, Zenon DEF Through, cs
  <1>11. /\ g.rule > 0 /\ g.cond > 0 /\ g.rule - 1 <= Len(g.spec.rules)
         /\ g.spec.enabled \/ g.rule = 1
         /\ NoneDecides(g.spec, g.rule - 1, gates, list)
         /\ g.exposures = SpecExposures(g.spec, g.rule - 1, gates)
    <2>1. g.cond > 0
      BY <1>1, <1>2 DEF m
    <2>2. QED
      BY <1>1, <2>1 DEF Looking
  <1>12. QED
    BY <1>0, <1>1, <1>3, <1>10, <1>11 DEF Looking

LEMMA NewLooking ==
    ASSUME NEW kind, NEW spec \in Specs, NEW depth, NEW gates, NEW list
    PROVE  Looking(NewFrame(kind, spec, depth), gates, list)
  <1> DEFINE f == NewFrame(kind, spec, depth)
  <1>1. /\ f.rule = 1 /\ f.cond = 1 /\ f.pass = TRUE /\ f.fetch = FALSE /\ f.ruleExposures = <<>>
        /\ f.exposures = <<>> /\ f.spec = spec
    BY DEF NewFrame
  <1> HIDE DEF f
  <1>2. f.rule - 1 = 0 /\ f.cond - 1 = 0 /\ 1..0 = {} /\ f.rule > 0 /\ f.cond > 0
    BY <1>1
  <1>3. spec.rules \in Seq(Rules) /\ Len(spec.rules) \in Nat
    BY DEF Specs
  <1>4. ASSUME InRule(f) PROVE Through(f, gates, list)
    <2> DEFINE cs == RuleOf(f).conditions
    <2>1. RuleOf(f) \in Rules
      BY <1>1, <1>3, <1>4 DEF RuleOf, InRule
    <2>2. cs \in Seq(Conditions)
      BY <2>1 DEF Rules
    <2>3. 0 <= Len(cs)
      BY <2>2
    <2>4. CondExposures(cs, 0, gates) = <<>>
      BY NoExposures
    <2> HIDE DEF cs
    <2>5. QED
      BY <1>1, <1>2, <2>3, <2>4, Zenon DEF Through, cs
  <1>5. SpecExposures(spec, 0, gates) = <<>>
    BY NoExposures
  <1>6. NoneDecides(spec, 0, gates, list)
    BY <1>2 DEF NoneDecides
  <1>7. QED
    BY <1>1, <1>2, <1>3, <1>4, <1>5, <1>6 DEF Looking, f

-----------------------------------------------------------------------------
(***************************************************************************)
(* Where a frame ends, the reference has what it returns.                  *)
(***************************************************************************)
Decided(f, gates, delegates, list) ==
    RuleReference(f.kind, f.spec, RuleOf(f), gates, delegates, list,
                  SpecExposures(f.spec, f.rule, gates))

\* A condition panics, after others or as the first.
LEMMA PanicDecides ==
    ASSUME NEW f \in Frames, NEW gates, NEW delegates, NEW list, Looking(f, gates, list),
           f.spec.enabled, InRule(f), f.cond \in DOMAIN RuleOf(f).conditions,
           Panics(RuleOf(f).conditions[f.cond], gates, list)
    PROVE  SpecReference(f.kind, f.spec, gates, delegates, list) = Failure
  <1> DEFINE c == RuleOf(f).conditions[f.cond]
  <1>1. c \in ToSet(RuleOf(f).conditions)
    BY DEF ToSet
  <1>2. Decides(RuleOf(f), gates, list)
    BY <1>1 DEF Decides
  <1>3. SpecReference(f.kind, f.spec, gates, delegates, list) = Decided(f, gates, delegates, list)
    BY <1>2, FrameFields, FirstRuleDecides DEF RuleOf, InRule, Looking, Decided
  <1>4. Decided(f, gates, delegates, list) = Failure
    BY <1>1 DEF Decided, RuleReference
  <1>5. QED
    BY <1>3, <1>4

\* All conditions of the rule are behind f.
LEMMA EndedFacts ==
    ASSUME NEW f \in Frames, NEW gates, NEW list, Through(f, gates, list), RuleEnded(f), f.cond > 0
    PROVE  LET cs == RuleOf(f).conditions IN
           /\ \A c \in ToSet(cs) : ~Panics(c, gates, list)
           /\ f.fetch <=> \E c \in ToSet(cs) : Fetches(c, gates)
           /\ f.pass <=> \A c \in ToSet(cs) : Passes(c, gates, list)
           /\ f.ruleExposures = RuleExposures(RuleOf(f), gates)
  <1> DEFINE cs == RuleOf(f).conditions
             n == f.cond - 1
  <1>1. cs \in Seq(Conditions) /\ f.cond \in Nat
    BY RuleFields, FrameFields DEF RuleEnded
  <1>2. /\ n <= Len(cs)
        /\ \A j \in 1..n : ~Panics(cs[j], gates, list)
        /\ f.fetch <=> \E j \in 1..n : Fetches(cs[j], gates)
        /\ f.pass <=> \A j \in 1..n : Passes(cs[j], gates, list)
        /\ f.ruleExposures = CondExposures(cs, n, gates)
    BY Zenon DEF Through
  <1>3. n = Len(cs)
    BY <1>1, <1>2 DEF RuleEnded
  <1>4. ToSet(cs) = {cs[j] : j \in 1..n}
    BY <1>1, <1>3 DEF ToSet
  <1>5. f.ruleExposures = RuleExposures(RuleOf(f), gates)
    BY <1>1, <1>2, <1>3, AllExposures
  <1> HIDE DEF cs, n
  <1>6. /\ \A c \in ToSet(cs) : ~Panics(c, gates, list)
        /\ f.fetch <=> \E c \in ToSet(cs) : Fetches(c, gates)
        /\ f.pass <=> \A c \in ToSet(cs) : Passes(c, gates, list)
    BY <1>2, <1>4, Zenon
  <1>7. QED
    BY <1>5, <1>6 DEF cs

\* What eval returns when the server has to be asked.
FetchResult(exposures) == [NoResult EXCEPT !.fetch = TRUE, !.exposures = exposures]

LEMMA FetchDecides ==
    ASSUME NEW f \in Frames, NEW gates, NEW delegates, NEW list, Looking(f, gates, list),
           f.spec.enabled, RuleEnded(f), f.fetch
    PROVE  SpecReference(f.kind, f.spec, gates, delegates, list) = FetchResult(f.ruleExposures)
  <1>1. InRule(f) /\ Through(f, gates, list)
    BY DEF Looking, RuleEnded
  <1>2. /\ \A c \in ToSet(RuleOf(f).conditions) : ~Panics(c, gates, list)
        /\ \E c \in ToSet(RuleOf(f).conditions) : Fetches(c, gates)
        /\ f.ruleExposures = RuleExposures(RuleOf(f), gates)
    BY <1>1, EndedFacts DEF Looking
  <1>3. Decides(RuleOf(f), gates, list)
    BY <1>2 DEF Decides
  <1>4. SpecReference(f.kind, f.spec, gates, delegates, list) = Decided(f, gates, delegates, list)
    BY <1>1, <1>3, FrameFields, FirstRuleDecides DEF RuleOf, InRule, Looking, Decided
  <1>5. Decided(f, gates, delegates, list) = FetchResult(RuleExposures(RuleOf(f), gates))
    BY <1>2 DEF Decided, RuleReference, FetchResult
  <1>6. QED
    BY <1>2, <1>4, <1>5

\* The rule does not decide: on to the next.
LEMMA LookOn ==
    ASSUME NEW f \in Frames, NEW gates, NEW list, Looking(f, gates, list), f.spec.enabled,
           RuleEnded(f), ~f.fetch, ~f.pass, NEW g,
           g.spec = f.spec, g.rule = f.rule + 1, g.cond = 1, g.pass = TRUE, g.fetch = FALSE,
           g.ruleExposures = <<>>, g.exposures = f.exposures \o f.ruleExposures
    PROVE  Looking(g, gates, list)
  <1> DEFINE i == f.rule
  <1>1. /\ i \in Nat /\ i > 0 /\ f.spec \in Specs /\ f.spec.rules \in Seq(Rules)
        /\ f.ruleExposures \in Seq(Exposures) /\ i - 1 \in Nat /\ (i - 1) + 1 = i
        /\ i \in DOMAIN f.spec.rules /\ InRule(f)
    BY FrameFields DEF Looking, RuleEnded, InRule
  <1>2. g.rule - 1 = i /\ g.cond - 1 = 0 /\ 1..0 = {} /\ g.rule > 0 /\ g.cond > 0
    BY <1>1
  <1>3. /\ \A c \in ToSet(RuleOf(f).conditions) : ~Panics(c, gates, list)
        /\ ~\E c \in ToSet(RuleOf(f).conditions) : Fetches(c, gates)
        /\ ~\A c \in ToSet(RuleOf(f).conditions) : Passes(c, gates, list)
        /\ f.ruleExposures = RuleExposures(RuleOf(f), gates)
    BY <1>1, EndedFacts DEF Looking
  <1>4. ~Decides(f.spec.rules[i], gates, list)
    BY <1>3 DEF Decides, RuleOf
  <1>5. NoneDecides(g.spec, i, gates, list)
    <2>1. \A j \in 1..i : j = i \/ j \in 1..(i - 1)
      BY <1>1
    <2>2. QED
      BY <1>4, <2>1 DEF NoneDecides, Looking
  <1>6. g.exposures = SpecExposures(g.spec, i, gates)
    <2>1. f.exposures = SpecExposures(f.spec, i - 1, gates)
      BY DEF Looking
    <2>2. f.ruleExposures = RuleExposures(f.spec.rules[i], gates)
      BY <1>3 DEF RuleOf
    <2> DEFINE m == i - 1
    <2>3. m \in Nat /\ m + 1 = i
      BY <1>1
    <2> HIDE DEF m
    <2>4. SpecExposures(f.spec, m + 1, gates)
            = SpecExposures(f.spec, m, gates) \o RuleExposures(f.spec.rules[m + 1], gates)
      BY <1>1, <2>2, <2>3, SpecExposuresMore
    <2>5. QED
      BY <2>1, <2>2, <2>3, <2>4, Zenon DEF m
  <1>7. ASSUME InRule(g) PROVE Through(g, gates, list)
    <2> DEFINE cs == RuleOf(g).conditions
    <2>1. RuleOf(g) \in Rules
      BY <1>1, <1>7 DEF RuleOf, InRule
    <2>2. cs \in Seq(Conditions)
      BY <2>1 DEF Rules
    <2>3. 0 <= Len(cs)
      BY <2>2
    <2>4. CondExposures(cs, 0, gates) = <<>>
      BY NoExposures
    <2> HIDE DEF cs
    <2>5. QED
      BY <1>2, <2>3, <2>4, Zenon DEF Through, cs
  <1>8. i <= Len(g.spec.rules)
    BY <1>1
  <1> HIDE DEF i
  <1>9. QED
    BY <1>2, <1>5, <1>6, <1>7, <1>8 DEF Looking

\* The rule passes: on to its delegate or percentage.
LEMMA PassDecides ==
    ASSUME NEW f \in Frames, NEW gates, NEW list, Looking(f, gates, list), f.spec.enabled,
           RuleEnded(f), ~f.fetch, f.pass, NEW g,
           g.spec = f.spec, g.rule = f.rule, g.cond = f.cond, g.pass = f.pass,
           g.fetch = f.fetch, g.ruleExposures = f.ruleExposures,
           g.exposures = f.exposures \o f.ruleExposures
    PROVE  Delegating(g, gates, list)
  <1> DEFINE m == f.rule - 1
  <1>1. m \in Nat /\ m + 1 = f.rule /\ f.ruleExposures \in Seq(Exposures) /\ InRule(f)
    BY FrameFields DEF Looking, RuleEnded
  <1>2. RuleOf(g) = RuleOf(f) /\ RuleEnded(g)
    BY DEF RuleOf, RuleEnded, InRule
  <1>3. Through(f, gates, list)
    BY <1>1 DEF Looking
  <1>4. Through(g, gates, list)
    BY <1>2, <1>3, Zenon DEF Through
  <1>5. f.ruleExposures = RuleExposures(f.spec.rules[f.rule], gates)
    BY <1>1, <1>3, EndedFacts DEF Looking, RuleOf
  <1>6. f.exposures = SpecExposures(f.spec, m, gates)
    BY DEF Looking
  <1> HIDE DEF m
  <1>7. SpecExposures(f.spec, m + 1, gates)
          = SpecExposures(f.spec, m, gates) \o RuleExposures(f.spec.rules[m + 1], gates)
    BY <1>1, <1>5, SpecExposuresMore
  <1>8. g.exposures = SpecExposures(g.spec, g.rule, gates)
    BY <1>1, <1>5, <1>6, <1>7, Zenon
  <1>9. QED
    BY <1>2, <1>4, <1>8 DEF Delegating, Looking

LEMMA DelegatingDecides ==
    ASSUME NEW f \in Frames, NEW gates, NEW delegates, NEW list, Delegating(f, gates, list)
    PROVE  LET r == RuleOf(f) IN
           SpecReference(f.kind, f.spec, gates, delegates, list)
             = IF r.configDelegate \in DOMAIN delegates
               THEN DelegatedResult(delegates[r.configDelegate], r.configDelegate, f.exposures)
               ELSE OwnResult(f.kind, r.percent, r.id,
                              IF r.percent THEN ReturnValue(r) ELSE DefaultValue(f.spec), f.exposures)
  <1>1. InRule(f) /\ Through(f, gates, list) /\ RuleEnded(f)
    BY DEF Delegating, RuleEnded
  <1>2. /\ \A c \in ToSet(RuleOf(f).conditions) : ~Panics(c, gates, list)
        /\ ~\E c \in ToSet(RuleOf(f).conditions) : Fetches(c, gates)
        /\ \A c \in ToSet(RuleOf(f).conditions) : Passes(c, gates, list)
    BY <1>1, EndedFacts DEF Delegating
  <1>3. Decides(RuleOf(f), gates, list)
    BY <1>2 DEF Decides
  <1>4. f.spec.enabled /\ NoneDecides(f.spec, f.rule - 1, gates, list)
    BY DEF Delegating
  <1>5. SpecReference(f.kind, f.spec, gates, delegates, list) = Decided(f, gates, delegates, list)
    BY <1>1, <1>3, <1>4, FrameFields, FirstRuleDecides DEF RuleOf, InRule, Decided
  <1>6. QED
    BY <1>2, <1>5 DEF Decided, RuleReference, Delegating

\* No rule is left, or the spec is not enabled.
LEMMA EndRulesResult ==
    ASSUME NEW f \in Frames, NEW gates, NEW delegates, NEW list, Looking(f, gates, list),
           ~f.spec.enabled \/ f.rule > Len(f.spec.rules)
    PROVE  SpecReference(f.kind, f.spec, gates, delegates, list)
             = Result(f, FALSE, IF f.spec.enabled THEN "default" ELSE "disabled", DefaultValue(f.spec))
  <1>1. f.spec \in Specs /\ f.spec.rules \in Seq(Rules) /\ f.rule \in Nat
    BY FrameFields
  <1>2. f.rule - 1 = IF f.spec.enabled THEN Len(f.spec.rules) ELSE 0
    BY <1>1 DEF Looking
  <1>3. f.spec.enabled => NoneDecides(f.spec, Len(f.spec.rules), gates, list)
    BY <1>2 DEF Looking
  <1>4. ASSUME NEW id
        PROVE  OwnResult(f.kind, FALSE, id, DefaultValue(f.spec), f.exposures)
                 = Result(f, FALSE, id, DefaultValue(f.spec))
    BY DEF OwnResult, Result
  <1>5. CASE f.spec.enabled
    <2>1. SpecReference(f.kind, f.spec, gates, delegates, list)
            = OwnResult(f.kind, FALSE, "default", DefaultValue(f.spec),
                        SpecExposures(f.spec, Len(f.spec.rules), gates))
      BY <1>1, <1>3, <1>5, NoRuleDecides
    <2>2. f.exposures = SpecExposures(f.spec, Len(f.spec.rules), gates)
      BY <1>2, <1>5 DEF Looking
    <2>3. QED
      BY <1>4, <1>5, <2>1, <2>2
  <1>6. CASE ~f.spec.enabled
    <2>1. SpecReference(f.kind, f.spec, gates, delegates, list)
            = OwnResult(f.kind, FALSE, "disabled", DefaultValue(f.spec),
                        SpecExposures(f.spec, 0, gates))
      BY <1>1, <1>3, <1>6, NoRuleDecides
    <2>2. f.exposures = SpecExposures(f.spec, 0, gates)
      BY <1>2, <1>6 DEF Looking
    <2>3. QED
      BY <1>4, <1>6, <2>1, <2>2
  <1>7. QED
    BY <1>5, <1>6

-----------------------------------------------------------------------------
(***************************************************************************)
(* The invariant of a quiet evaluation.  v is what it reads.  Every frame  *)
(* has a meaning, which is what the reference says of its spec at its      *)
(* depth, and waits for something, which is the meaning of the frame above *)
(* it; the application waits for what it has asked for.  So what the frame *)
(* on top comes to decides, frame by frame, what the application gets; in  *)
(* particular, when it panics, so does everything under it.                *)
(***************************************************************************)
View == [store |-> store, overrides |-> overrides, idList |-> idList]

Ref(v, d) == Reference(v.store, v.overrides, v.idList)[d]

Asked(v, d) == WithOverrides(v.overrides, Ref(v, d))

Delegates(v, d) == [n \in {m \in Configs : v.store["config"][m] # None} |-> Ref(v, d)["config"][n]]

\* What gates nested in f come to, and the configs f may delegate to.
GatesOf(v, f) == Asked(v, f.depth + 3)["gate"]
DelegatesOf(v, f) == Delegates(v, f.depth + 1)

\* What f will return.
Meaning(v, f) == SpecReference(f.kind, f.spec, GatesOf(v, f), DelegatesOf(v, f), v.idList)

\* What f waits for, at a gate condition or at its delegate.
Awaited(v, f) ==
    IF f.cond <= Len(RuleOf(f).conditions)
    THEN GatesOf(v, f)[RuleOf(f).conditions[f.cond].gate]
    ELSE DelegatesOf(v, f)[RuleOf(f).configDelegate]

WaitsRight(v, f) ==
    \/ AtGate(f) /\ f.spec.enabled /\ Looking(f, GatesOf(v, f), v.idList)
    \/ Delegating(f, GatesOf(v, f), v.idList) /\ RuleOf(f).configDelegate \in DOMAIN DelegatesOf(v, f)

\* What the j-th frame waits for; 0 is the caller, who wants asked.
Wanted(v, asked, s, j) == IF j = 0 THEN asked ELSE Awaited(v, s[j])

\* Each frame will return what the one under it waits for.
Chain(v, asked, s) == \A j \in DOMAIN s : Wanted(v, asked, s, j - 1) = Meaning(v, s[j])

AllRight(v, s) == \A j \in DOMAIN s : WaitsRight(v, s[j])
CallersRight(v, s) == \A j \in DOMAIN s : j < Len(s) => WaitsRight(v, s[j])

Right(v, asked, e) ==
    LET wanted == Wanted(v, asked, e.stack, Len(e.stack)) IN
    /\ Chain(v, asked, e.stack)
    /\ e.at \in {"override", "lookup", "return"} => AllRight(v, e.stack)
    /\ e.at \in {"eval", "delegate"} => CallersRight(v, e.stack)
    /\ e.at \in {"override", "lookup"} => e.depth <= Deepest
    /\ e.at = "override" => wanted = Asked(v, e.depth)[e.kind][e.name]
    /\ e.at = "lookup" => wanted = Ref(v, e.depth)[e.kind][e.name]
    /\ e.at = "eval" => Looking(Top(e), GatesOf(v, Top(e)), v.idList)
    /\ e.at = "delegate" => Delegating(Top(e), GatesOf(v, Top(e)), v.idList)
    /\ e.at \in {"return", "done"} => wanted = e.result
    /\ e.at = "panicked" => wanted = Failure

\* What the application asks for, by kind and name.
AskedFor(v, call) == Asked(v, 0)[call[1]][call[2]]

RightInv == \A t \in Threads : ev[t].quiet => Right(View, AskedFor(View, ev[t].call), ev[t])

-----------------------------------------------------------------------------
(***************************************************************************)
(* What the reference says of a name.                                      *)
(***************************************************************************)
LEMMA RefFacts ==
    ASSUME NEW v, NEW k \in Kinds, NEW n \in NamesOf[k], NEW d \in -1..Deepest
    PROVE  /\ v.store[k][n] = None => Ref(v, d)[k][n] = NoResult
           /\ v.store[k][n] # None /\ d + 1 > MaxDepth => Ref(v, d)[k][n] = Failure
           /\ v.store[k][n] # None /\ ~(d + 1 > MaxDepth) =>
                Ref(v, d)[k][n] = SpecReference(k, v.store[k][n], Asked(v, d + 4)["gate"],
                                                Delegates(v, d + 2), v.idList)
  <1> DEFINE g == v.store
             nested == Ref(v, d + 4)
             delegated == Ref(v, d + 2)
             gates == WithOverrides(v.overrides, nested)["gate"]
             delegates == [x \in {m \in Configs : g["config"][m] # None} |-> delegated["config"][x]]
             Entry(kind, name) ==
                IF g[kind][name] = None THEN NoResult
                ELSE IF d + 1 > MaxDepth THEN Failure
                ELSE SpecReference(kind, g[kind][name], gates, delegates, v.idList)
  <1>1. Ref(v, d) = Level(g, v.overrides, v.idList, d, nested, delegated)
    BY ReferenceLevel DEF Ref
  <1>2. gates = Asked(v, d + 4)["gate"] /\ delegates = Delegates(v, d + 2)
    BY DEF Asked, Delegates
  <1> HIDE DEF nested, delegated
  <1>3. Level(g, v.overrides, v.idList, d, nested, delegated)
          = [kind \in Kinds |-> [name \in NamesOf[kind] |-> Entry(kind, name)]]
    BY DEF Level
  <1> HIDE DEF Entry
  <1>4. Ref(v, d)[k][n] = Entry(k, n)
    BY <1>1, <1>3
  <1> HIDE DEF gates, delegates
  <1>5. QED
    BY <1>2, <1>4 DEF Entry

LEMMA AskedFacts ==
    ASSUME NEW v, NEW k \in Kinds, NEW n \in NamesOf[k], NEW d
    PROVE  Asked(v, d)[k][n] = IF v.overrides[k][n] # None THEN OverrideResult(k, v.overrides[k][n])
                               ELSE Ref(v, d)[k][n]
  BY DEF Asked, WithOverrides

LEMMA NoFailure == ASSUME NEW r \in Results PROVE r # Failure
  <1>1. DOMAIN r = {"pass", "id", "fetch", "value", "exposures", "undelegated", "delegate"}
    BY DEF Results
  <1>2. DOMAIN Failure = {"panicked"}
    BY DEF Failure
  <1>3. QED
    BY <1>1, <1>2

-----------------------------------------------------------------------------
(***************************************************************************)
(* The chain of frames when the stack changes.                             *)
(***************************************************************************)
LEMMA ChainPop ==
    ASSUME NEW v, NEW asked, NEW s \in Seq(Frames), s # <<>>, Chain(v, asked, s), CallersRight(v, s)
    PROVE  /\ Chain(v, asked, Front(s)) /\ AllRight(v, Front(s))
           /\ Wanted(v, asked, Front(s), Len(Front(s))) = Meaning(v, s[Len(s)])
  <1>1. /\ Len(s) \in Nat /\ Len(s) > 0 /\ DOMAIN s = 1..Len(s)
        /\ Len(Front(s)) = Len(s) - 1 /\ DOMAIN Front(s) = 1..(Len(s) - 1)
        /\ \A j \in 1..(Len(s) - 1) : Front(s)[j] = s[j]
    BY TopFacts, PopFacts
  <1> DEFINE p == Front(s)
             n == Len(s)
  <1> HIDE DEF p, n
  <1>2. \A j \in 0..(n - 1) : Wanted(v, asked, p, j) = Wanted(v, asked, s, j)
    BY <1>1 DEF Wanted, p, n
  <1>3. ASSUME NEW j \in 1..(n - 1) PROVE Wanted(v, asked, p, j - 1) = Meaning(v, p[j]) /\ WaitsRight(v, p[j])
    <2>1. j - 1 \in 0..(n - 1) /\ j \in 1..n /\ j < n /\ p[j] = s[j]
      BY <1>1 DEF p, n
    <2>2. QED
      BY <1>1, <1>2, <2>1 DEF Chain, CallersRight, n
  <1>4. n \in DOMAIN s /\ n - 1 \in 0..(n - 1)
    BY <1>1 DEF n
  <1>5. QED
    BY <1>1, <1>2, <1>3, <1>4 DEF Chain, AllRight, p, n

LEMMA ChainTop ==
    ASSUME NEW v, NEW asked, NEW s \in Seq(Frames), s # <<>>, Chain(v, asked, s), CallersRight(v, s),
           NEW f \in Frames, f.kind = s[Len(s)].kind, f.spec = s[Len(s)].spec,
           f.depth = s[Len(s)].depth
    PROVE  LET d == [s EXCEPT ![Len(s)] = f] IN Chain(v, asked, d) /\ CallersRight(v, d)
  <1> DEFINE d == [s EXCEPT ![Len(s)] = f]
             n == Len(s)
  <1>1. /\ n \in Nat /\ n > 0 /\ DOMAIN s = 1..n /\ DOMAIN d = 1..n /\ Len(d) = n
        /\ d[n] = f /\ \A j \in 1..n : j # n => d[j] = s[j]
    BY TopFacts, ReplaceFacts
  <1>2. Meaning(v, f) = Meaning(v, s[n])
    BY DEF Meaning, GatesOf, DelegatesOf
  <1> HIDE DEF d, n
  <1>3. ASSUME NEW j \in 1..n PROVE Wanted(v, asked, d, j - 1) = Meaning(v, d[j])
    <2>1. Wanted(v, asked, d, j - 1) = Wanted(v, asked, s, j - 1)
      BY <1>1 DEF Wanted
    <2>2. Meaning(v, d[j]) = Meaning(v, s[j])
      BY <1>1, <1>2
    <2>3. QED
      BY <1>1, <2>1, <2>2 DEF Chain
  <1>4. ASSUME NEW j \in 1..n, j < n PROVE WaitsRight(v, d[j])
    <2>1. d[j] = s[j] /\ j \in DOMAIN s
      BY <1>1, <1>4
    <2>2. WaitsRight(v, s[j])
      BY <1>4, <2>1 DEF CallersRight, n
    <2>3. QED
      BY <2>1, <2>2
  <1>5. QED
    BY <1>1, <1>3, <1>4 DEF Chain, CallersRight, d

LEMMA ChainPush ==
    ASSUME NEW v, NEW asked, NEW s \in Seq(Frames), Chain(v, asked, s), AllRight(v, s),
           NEW f \in Frames, Wanted(v, asked, s, Len(s)) = Meaning(v, f)
    PROVE  Chain(v, asked, Append(s, f)) /\ CallersRight(v, Append(s, f))
  <1> DEFINE d == Append(s, f)
             n == Len(s)
  <1>1. /\ n \in Nat /\ DOMAIN s = 1..n /\ DOMAIN d = 1..(n + 1) /\ Len(d) = n + 1
        /\ d[n + 1] = f /\ \A j \in 1..n : d[j] = s[j]
    BY PushFacts
  <1> HIDE DEF d, n
  <1>2. ASSUME NEW j \in 1..(n + 1) PROVE Wanted(v, asked, d, j - 1) = Meaning(v, d[j])
    <2>1. Wanted(v, asked, d, j - 1) = Wanted(v, asked, s, j - 1)
      BY <1>1 DEF Wanted
    <2>2. CASE j = n + 1
      BY <1>1, <2>1, <2>2 DEF n
    <2>3. CASE j # n + 1
      <3>1. j \in 1..n /\ d[j] = s[j]
        BY <1>1, <2>3
      <3>2. QED
        BY <1>1, <2>1, <3>1 DEF Chain
    <2>4. QED
      BY <2>2, <2>3
  <1>3. \A j \in 1..(n + 1) : j < n + 1 => WaitsRight(v, d[j])
    BY <1>1 DEF AllRight
  <1>4. QED
    BY <1>1, <1>2, <1>3 DEF Chain, CallersRight, d

\* A frame that waits for a panic panics.
LEMMA FramePanics ==
    ASSUME NEW v, NEW f \in Frames, WaitsRight(v, f), Awaited(v, f) = Failure
    PROVE  Meaning(v, f) = Failure
  <1>1. CASE AtGate(f) /\ f.spec.enabled /\ Looking(f, GatesOf(v, f), v.idList)
    <2>1. InRule(f) /\ f.cond \in DOMAIN RuleOf(f).conditions
      BY <1>1 DEF AtGate
    <2>2. f.cond <= Len(RuleOf(f).conditions)
      BY <2>1, RuleFields
    <2>3. Panics(RuleOf(f).conditions[f.cond], GatesOf(v, f), v.idList)
      BY <1>1, <2>2 DEF Panics, NestedGate, AtGate, Awaited
    <2>4. QED
      BY <1>1, <2>1, <2>3, PanicDecides DEF Meaning
  <1>2. CASE /\ Delegating(f, GatesOf(v, f), v.idList)
             /\ RuleOf(f).configDelegate \in DOMAIN DelegatesOf(v, f)
    <2>1. InRule(f) /\ f.cond > Len(RuleOf(f).conditions) /\ f.cond \in Nat
      BY <1>2, FrameFields DEF Delegating, RuleEnded
    <2>2. ~(f.cond <= Len(RuleOf(f).conditions))
      BY <2>1, RuleFields
    <2>3. DelegatesOf(v, f)[RuleOf(f).configDelegate] = Failure
      BY <2>2 DEF Awaited
    <2>4. QED
      BY <1>2, <2>3, DelegatingDecides DEF Meaning, DelegatedResult
  <1>3. QED
    BY <1>1, <1>2 DEF WaitsRight

\* And so do all frames under it: by the lowest one that waits for a panic.
LEMMA AllPanic ==
    ASSUME NEW v, NEW asked, NEW s \in Seq(Frames), Chain(v, asked, s), AllRight(v, s),
           Wanted(v, asked, s, Len(s)) = Failure
    PROVE  Wanted(v, asked, <<>>, 0) = Failure
  <1> DEFINE Panicking == {j \in 0..Len(s) : Wanted(v, asked, s, j) = Failure}
  <1>1. Len(s) \in Nat /\ DOMAIN s = 1..Len(s)
    OBVIOUS
  <1>2. Panicking \subseteq Nat /\ Len(s) \in Panicking
    BY <1>1
  <1>3. PICK j \in Panicking : \A k \in Panicking : j <= k
    <2> HIDE DEF Panicking
    <2>1. QED
      BY <1>2, Least
  <1>4. CASE j = 0
    BY <1>4 DEF Wanted
  <1>5. CASE j # 0
    <2>1. j \in DOMAIN s /\ s[j] \in Frames /\ j - 1 \in 0..Len(s)
      BY <1>1, <1>5
    <2>2. Awaited(v, s[j]) = Failure
      BY <1>5 DEF Wanted
    <2>3. WaitsRight(v, s[j])
      BY <2>1 DEF AllRight
    <2>4. Meaning(v, s[j]) = Failure
      BY <2>1, <2>2, <2>3, FramePanics
    <2>5. Wanted(v, asked, s, j - 1) = Failure
      BY <2>1, <2>4 DEF Chain
    <2>6. QED
      BY <1>3, <2>1, <2>5
  <1>6. QED
    BY <1>4, <1>5

-----------------------------------------------------------------------------
(***************************************************************************)
(* The ways a step can leave an evaluation, and what makes each right.     *)
(***************************************************************************)
LEMMA PanicRight ==
    ASSUME NEW v, NEW asked, NEW e, EvOK(e), Chain(v, asked, e.stack), AllRight(v, e.stack),
           Wanted(v, asked, e.stack, Len(e.stack)) = Failure
    PROVE  Right(v, asked, Panic(e))
  <1> DEFINE d == Panic(e)
  <1>1. d.at = "panicked" /\ d.stack = <<>> /\ d.call = e.call /\ e.stack \in Seq(Frames)
    BY EvParts, PanicShape DEF Like
  <1>2. Wanted(v, asked, <<>>, 0) = Failure
    BY <1>1, AllPanic
  <1>3. Len(d.stack) = 0 /\ Chain(v, asked, d.stack)
    BY <1>1 DEF Chain
  <1> HIDE DEF d
  <1>4. Right(v, asked, d)
    BY <1>1, <1>2, <1>3 DEF Right
  <1>5. QED
    BY <1>4 DEF d

LEMMA PanicTopRight ==
    ASSUME NEW v, NEW asked, NEW e, EvOK(e), e.stack # <<>>, Chain(v, asked, e.stack),
           CallersRight(v, e.stack), Meaning(v, Top(e)) = Failure
    PROVE  Right(v, asked, Panic(e))
  <1> DEFINE d == Panic(e)
             s == Front(e.stack)
  <1>1. d.at = "panicked" /\ d.stack = <<>> /\ d.call = e.call /\ e.stack \in Seq(Frames)
    BY EvParts, PanicShape DEF Like
  <1>2. /\ s \in Seq(Frames) /\ Chain(v, asked, s) /\ AllRight(v, s)
        /\ Wanted(v, asked, s, Len(s)) = Failure
    BY <1>1, PopFacts, ChainPop DEF Top
  <1> HIDE DEF s
  <1>3. Wanted(v, asked, <<>>, 0) = Failure
    BY <1>2, AllPanic
  <1>4. Len(d.stack) = 0 /\ Chain(v, asked, d.stack)
    BY <1>1 DEF Chain
  <1> HIDE DEF d
  <1>5. Right(v, asked, d)
    BY <1>1, <1>3, <1>4 DEF Right
  <1>6. QED
    BY <1>5 DEF d

LEMMA ReturnRight ==
    ASSUME NEW v, NEW asked, NEW e, EvOK(e), Chain(v, asked, e.stack), AllRight(v, e.stack),
           NEW r \in Results, Wanted(v, asked, e.stack, Len(e.stack)) = r
    PROVE  Right(v, asked, Return(e, r))
  <1> DEFINE d == Return(e, r)
  <1>1. d.at = "return" /\ d.stack = e.stack /\ d.call = e.call /\ d.result = r
    BY EvParts, ReturnShape DEF Like
  <1> HIDE DEF d
  <1>2. Right(v, asked, d)
    BY <1>1 DEF Right
  <1>3. QED
    BY <1>2 DEF d

LEMMA PopReturnRight ==
    ASSUME NEW v, NEW asked, NEW e, EvOK(e), e.stack # <<>>, Chain(v, asked, e.stack),
           CallersRight(v, e.stack), NEW r \in Results, Meaning(v, Top(e)) = r
    PROVE  Right(v, asked, Return(Pop(e), r))
  <1> DEFINE p == Pop(e)
             d == Return(p, r)
  <1>1. p \in Evs /\ p.stack = Front(e.stack) /\ p.call = e.call /\ e.stack \in Seq(Frames)
    BY EvParts, PopShape DEF Like
  <1> HIDE DEF p
  <1>2. d.at = "return" /\ d.stack = Front(e.stack) /\ d.call = e.call /\ d.result = r
    BY <1>1, ReturnShape DEF Like
  <1>3. /\ Chain(v, asked, Front(e.stack)) /\ AllRight(v, Front(e.stack))
        /\ Wanted(v, asked, Front(e.stack), Len(Front(e.stack))) = r
    BY <1>1, ChainPop DEF Top
  <1> HIDE DEF d
  <1>4. Right(v, asked, d)
    BY <1>2, <1>3 DEF Right
  <1>5. QED
    BY <1>4 DEF d, p

\* The frame on top moves on to g.
LEMMA SetTopRight ==
    ASSUME NEW v, NEW asked, NEW e, EvOK(e), e.stack # <<>>, Chain(v, asked, e.stack),
           CallersRight(v, e.stack), NEW g \in Frames, g.kind = Top(e).kind,
           g.spec = Top(e).spec, g.depth = Top(e).depth,
           NEW d, d.stack = [e.stack EXCEPT ![Len(e.stack)] = g],
           \/ d.at = "eval" /\ Looking(g, GatesOf(v, g), v.idList)
           \/ d.at = "delegate" /\ Delegating(g, GatesOf(v, g), v.idList)
    PROVE  Right(v, asked, d)
  <1>1. e.stack \in Seq(Frames)
    BY EvParts
  <1>2. Chain(v, asked, d.stack) /\ CallersRight(v, d.stack)
    BY <1>1, ChainTop DEF Top
  <1>3. Top(d) = g
    BY <1>1, ReplaceFacts DEF Top
  <1>4. QED
    BY <1>2, <1>3 DEF Right

\* eval is entered for a name at depth m, or for a delegate as if it were.
LEMMA EnterRight ==
    ASSUME NEW v, NEW asked, NEW e, EvOK(e), Chain(v, asked, e.stack), AllRight(v, e.stack),
           NEW k \in Kinds, NEW n \in NamesOf[k], NEW spec \in Specs, v.store[k][n] = spec, spec # None,
           NEW m \in Nat, m - 1 \in -1..Deepest,
           Wanted(v, asked, e.stack, Len(e.stack)) = Ref(v, m - 1)[k][n]
    PROVE  Right(v, asked, Enter(e, k, spec, m))
  <1> DEFINE d == Enter(e, k, spec, m)
             f == NewFrame(k, spec, m)
             l == m - 1
  <1>1. l + 1 = m /\ l + 4 = m + 3 /\ l + 2 = m + 1
    OBVIOUS
  <1>2. CASE TooDeep(m)
    <2>1. l + 1 > MaxDepth /\ l \in -1..Deepest
      BY <1>1, <1>2 DEF TooDeep
    <2> HIDE DEF l
    <2>2. Ref(v, l)[k][n] = Failure
      BY <2>1, RefFacts
    <2>3. Enter(e, k, spec, m) = Panic(e)
      BY <1>2 DEF Enter
    <2>4. QED
      BY <2>2, <2>3, PanicRight DEF l
  <1>3. CASE ~TooDeep(m)
    <2>1. ~(l + 1 > MaxDepth) /\ l \in -1..Deepest
      BY <1>1, <1>3 DEF TooDeep
    <2>2. /\ Like(d, e) /\ d.at = "eval" /\ d.stack = Append(e.stack, f)
          /\ f \in Frames /\ f.depth = m /\ e.stack \in Seq(Frames)
      BY <1>3, EvParts, EnterShape
    <2>3. f.kind = k /\ f.spec = spec
      BY DEF NewFrame
    <2>4. Looking(f, GatesOf(v, f), v.idList)
      BY NewLooking
    <2> HIDE DEF f, d
    <2> HIDE DEF l
    <2>5. Ref(v, l)[k][n] = SpecReference(k, spec, Asked(v, l + 4)["gate"], Delegates(v, l + 2), v.idList)
      BY <2>1, RefFacts
    <2>6. Meaning(v, f) = Ref(v, l)[k][n]
      BY <1>1, <2>2, <2>3, <2>5, Zenon DEF Meaning, GatesOf, DelegatesOf
    <2>7. Wanted(v, asked, e.stack, Len(e.stack)) = Meaning(v, f)
      BY <2>6 DEF l
    <2>8. Chain(v, asked, d.stack) /\ CallersRight(v, d.stack)
      BY <2>2, <2>7, ChainPush
    <2>9. Top(d) = f
      BY <2>2, PushFacts DEF Top
    <2>10. d.call = e.call
      BY <2>2 DEF Like
    <2>11. Right(v, asked, d)
      BY <2>2, <2>4, <2>8, <2>9, <2>10 DEF Right
    <2>12. QED
      BY <2>11 DEF d
  <1>4. QED
    BY <1>2, <1>3

-----------------------------------------------------------------------------
(***************************************************************************)
(* The steps of one evaluation keep it right.                              *)
(***************************************************************************)
LEMMA ViewFacts == View.store = store /\ View.overrides = overrides /\ View.idList = idList
  BY DEF View

LEMMA ReadOverrideRight ==
    ASSUME IInv, NEW asked, NEW e, EvOK(e), e.at = "override", Right(View, asked, e)
    PROVE  Right(View, asked, ReadOverride(e))
  <1> DEFINE v == View
             o == overrides[e.kind][e.name]
             wanted == Wanted(v, asked, e.stack, Len(e.stack))
  <1>1. e.kind \in Kinds /\ e.name \in NamesOf[e.kind] /\ v.overrides = overrides
    BY EvParts, ViewFacts DEF EvOK
  <1> HIDE DEF v
  <1>2. /\ Chain(v, asked, e.stack) /\ AllRight(v, e.stack) /\ e.depth <= Deepest
        /\ wanted = Asked(v, e.depth)[e.kind][e.name]
    BY DEF Right, v
  <1> HIDE DEF wanted
  <1>3. wanted = IF o # None THEN OverrideResult(e.kind, o) ELSE Ref(v, e.depth)[e.kind][e.name]
    BY <1>1, <1>2, AskedFacts
  <1>4. o \in BOOLEAN \cup {None}
    BY <1>1 DEF IInv, TypeOK, Overrides
  <1>5. CASE o # None
    <2> DEFINE r == OverrideResult(e.kind, o)
    <2>1. ReadOverride(e) = Return(e, r)
      BY <1>5 DEF ReadOverride
    <2>2. r \in Results
      <3>1. o \in BOOLEAN
        BY <1>4, <1>5
      <3> HIDE DEF o
      <3>2. QED
        BY <1>1, <3>1, OverrideResultOK
    <2>3. wanted = r
      BY <1>3, <1>5
    <2> HIDE DEF r
    <2>4. Right(v, asked, Return(e, r))
      BY <1>2, <2>2, <2>3, ReturnRight DEF wanted
    <2>5. QED
      BY <2>1, <2>4 DEF v
  <1>6. CASE o = None
    <2> DEFINE d == [e EXCEPT !.at = "lookup"]
    <2>1. ReadOverride(e) = d
      BY <1>6 DEF ReadOverride
    <2>2. "lookup" \in Places /\ e \in Evs
      BY EvParts DEF Places
    <2>3. Like(d, e) /\ d.at = "lookup" /\ d.stack = e.stack
      BY <2>2, AtShape
    <2> HIDE DEF d
    <2>4. /\ d.call = e.call /\ d.depth = e.depth /\ d.kind = e.kind /\ d.name = e.name
          /\ Wanted(v, asked, d.stack, Len(d.stack)) = Ref(v, d.depth)[d.kind][d.name]
      BY <1>3, <1>6, <2>3 DEF Like, wanted
    <2>5. Right(v, asked, d)
      BY <1>2, <2>3, <2>4 DEF Right
    <2>6. QED
      BY <2>1, <2>5 DEF v
  <1>7. QED
    BY <1>5, <1>6

LEMMA ReadSpecRight ==
    ASSUME IInv, NEW asked, NEW e, EvOK(e), e.at = "lookup", Right(View, asked, e)
    PROVE  Right(View, asked, ReadSpec(e))
  <1> DEFINE v == View
             spec == store[e.kind][e.name]
             m == e.depth + 1
  <1>1. e.kind \in Kinds /\ e.name \in NamesOf[e.kind] /\ e.depth \in Nat /\ v.store = store
    BY EvParts, ViewFacts DEF EvOK
  <1> HIDE DEF v
  <1>2. /\ Chain(v, asked, e.stack) /\ AllRight(v, e.stack) /\ e.depth <= Deepest
        /\ Wanted(v, asked, e.stack, Len(e.stack)) = Ref(v, e.depth)[e.kind][e.name]
    BY DEF Right, v
  <1>3. e.depth \in -1..Deepest /\ m \in Nat /\ m - 1 = e.depth
    BY <1>1, <1>2, EvaluatorAssumption DEF Deepest
  <1>4. spec \in Specs \cup {None}
    BY <1>1, SpecFacts
  <1>5. CASE spec = None
    <2>1. Ref(v, e.depth)[e.kind][e.name] = NoResult
      BY <1>1, <1>3, <1>5, RefFacts
    <2>2. ReadSpec(e) = Return(e, NoResult)
      BY <1>5 DEF ReadSpec
    <2>3. Right(v, asked, Return(e, NoResult))
      BY <1>2, <2>1, NoResultOK, ReturnRight
    <2>4. QED
      BY <2>2, <2>3 DEF v
  <1>6. CASE spec # None
    <2>1. ReadSpec(e) = Enter(e, e.kind, spec, m)
      BY <1>6 DEF ReadSpec
    <2>2. spec \in Specs /\ v.store[e.kind][e.name] = spec
      BY <1>1, <1>4, <1>6
    <2> HIDE DEF spec, m
    <2>3. Right(v, asked, Enter(e, e.kind, spec, m))
      BY <1>1, <1>2, <1>3, <1>6, <2>2, EnterRight
    <2>4. QED
      BY <2>1, <2>3 DEF v
  <1>7. QED
    BY <1>5, <1>6

\* There is a frame on top, and what is under it waits for it.
TopNext(v, asked, e) ==
    EvOK(e) /\ e.stack # <<>> /\ Chain(v, asked, e.stack) /\ CallersRight(v, e.stack)

\* A condition of the frame on top ends as the reference says.
LEMMA EndsRight ==
    ASSUME NEW v, NEW asked, NEW e, TopNext(v, asked, e), NEW f, f = Top(e), InRule(f),
           f.cond \in DOMAIN RuleOf(f).conditions, Looking(f, GatesOf(v, f), v.idList),
           NEW c, c = RuleOf(f).conditions[f.cond], ~Panics(c, GatesOf(v, f), v.idList),
           NEW pass \in BOOLEAN, NEW fetch \in BOOLEAN, NEW x \in Seq(Exposures),
           pass <=> Passes(c, GatesOf(v, f), v.idList), fetch <=> Fetches(c, GatesOf(v, f)),
           x = Exposed(c, GatesOf(v, f)),
           NEW d, d.at = "eval",
           d.stack = [e.stack EXCEPT ![Len(e.stack)] = EndCondition(f, pass, fetch, x)]
    PROVE  Right(v, asked, d)
  <1> DEFINE g == EndCondition(f, pass, fetch, x)
             gates == GatesOf(v, f)
             list == v.idList
  <1>1. f \in Frames /\ f.rule > 0
    BY EvParts DEF FrameOK, TopNext
  <1>2. g \in Frames
    BY <1>1, EndConditionMoves DEF Moved
  <1> HIDE DEF gates, list
  <1>3. Looking(g, gates, list) /\ g.kind = f.kind /\ g.spec = f.spec /\ g.depth = f.depth
    <2>1. /\ Looking(f, gates, list) /\ ~Panics(c, gates, list) /\ (pass <=> Passes(c, gates, list))
          /\ (fetch <=> Fetches(c, gates)) /\ x = Exposed(c, gates)
      BY DEF gates, list
    <2>2. QED
      BY <1>1, <2>1, ThroughMore
  <1> HIDE DEF g
  <1>4. Looking(g, GatesOf(v, g), v.idList)
    BY <1>3 DEF gates, list, GatesOf
  <1>5. QED
    BY <1>2, <1>3, <1>4, SetTopRight, ZenonT(30) DEF g, TopNext

\* All frames wait when the callers do and the frame on top does.
LEMMA TopWaitsRight ==
    ASSUME NEW v, NEW e, EvOK(e), CallersRight(v, e.stack), WaitsRight(v, Top(e))
    PROVE  AllRight(v, e.stack)
  <1>1. Len(e.stack) \in Nat /\ DOMAIN e.stack = 1..Len(e.stack)
    BY EvParts
  <1>2. \A j \in DOMAIN e.stack : j < Len(e.stack) \/ j = Len(e.stack)
    BY <1>1
  <1>3. QED
    BY <1>1, <1>2 DEF CallersRight, AllRight, Top

\* A condition without a gate, as the code and the reference see it.
LEMMA LocalConditions ==
    ASSUME NEW c, c.type \in ConditionTypes, ~NestedGate(c), NEW gates, NEW list, list \in IdListStates
    PROVE  /\ Exposed(c, gates) = <<>>
           /\ Fetches(c, gates) <=> c.type = "unsupported"
           /\ Panics(c, gates, list) <=> \/ c.type = "nil_in_list"
                                         \/ c.type \in {"in_list", "not_in_list"} /\ list = "nilIds"
           /\ Passes(c, gates, list) <=> \/ c.type \in {"public", "true"}
                                         \/ c.type = "in_list" /\ list = "in"
                                         \/ c.type = "not_in_list" /\ list # "in"
  BY Zenon DEF Exposed, Fetches, Panics, Passes, NestedGate

LEMMA EvalConditionRight ==
    ASSUME IInv, NEW asked, NEW e, EvOK(e), e.at = "eval", Right(View, asked, e), InRule(Top(e)),
           Top(e).spec.enabled, Top(e).cond \in DOMAIN RuleOf(Top(e)).conditions
    PROVE  Right(View, asked, EvalCondition(e))
  <1> DEFINE v == View
             f == Top(e)
             c == RuleOf(f).conditions[f.cond]
             gates == GatesOf(v, f)
             list == v.idList
             none == <<>>
  <1>1. e.stack # <<>> /\ f \in Frames /\ e \in Evs /\ f.depth \in Nat /\ FrameOK(f, Len(e.stack), Base(e))
    <2>1. e.stack # <<>>
      BY DEF EvOK
    <2>2. QED
      BY <2>1, EvParts, FrameFields
  <1>2. list = idList /\ list \in IdListStates
    BY ViewFacts DEF IInv, TypeOK
  <1> HIDE DEF v
  <1>3. Chain(v, asked, e.stack) /\ CallersRight(v, e.stack) /\ Looking(f, gates, list)
    BY DEF Right, v
  <1>4. c.type \in ConditionTypes /\ (c.type \in {"pass_gate", "fail_gate"} => c.gate \in Gates)
    BY <1>1, ConditionFields
  <1>5. ASSUME NEW pass \in BOOLEAN, NEW fetch \in BOOLEAN, ~NestedGate(c), ~Panics(c, gates, list),
               pass <=> Passes(c, gates, list), fetch <=> Fetches(c, gates)
        PROVE  Right(v, asked, SetTop(e, EndCondition(f, pass, fetch, none)))
    <2> DEFINE g == EndCondition(f, pass, fetch, none)
               d == SetTop(e, g)
    <2>1. none = Exposed(c, gates) /\ none \in Seq(Exposures)
      BY <1>2, <1>4, <1>5, LocalConditions
    <2> HIDE DEF none
    <2>2. g \in Frames
      BY <1>1, <2>1, EndConditionMoves DEF Moved, FrameOK
    <2> HIDE DEF g
    <2>3. d.at = "eval" /\ d.call = e.call /\ d.stack = [e.stack EXCEPT ![Len(e.stack)] = g]
      BY <1>1, <2>2, SetTopShape DEF Like
    <2> HIDE DEF d
    <2> HIDE DEF c, f
    <2>4. Right(v, asked, d)
      <3>1. TopNext(v, asked, e)
        BY <1>1, <1>3 DEF TopNext
      <3>2. QED
        BY <1>1, <1>3, <1>5, <2>1, <2>3, <3>1, EndsRight DEF c, f, g
    <2>5. QED
      BY <2>4 DEF d, g
  <1>6. CASE NestedGate(c)
    <2> DEFINE d == Begin(e, "gate", c.gate, GateDepth(f))
    <2>1. EvalCondition(e) = d
      BY <1>6 DEF EvalCondition, NestedGate
    <2>2. c.type \in {"pass_gate", "fail_gate"} /\ c.gate \in Gates
      BY <1>4, <1>6 DEF NestedGate
    <2>3. "gate" \in Kinds /\ c.gate \in Names /\ GateDepth(f) \in Nat
      BY <1>1, <2>2 DEF Kinds, Names, GateDepth
    <2>4. /\ d.at = "override" /\ d.kind = "gate" /\ d.name = c.gate
          /\ d.depth = GateDepth(f) /\ d.stack = e.stack /\ d.call = e.call
      BY <1>1, <2>3, BeginShape
    <2>5. AtGate(f)
      BY <2>2 DEF AtGate
    <2>6. WaitsRight(v, f)
      BY <1>3, <2>5 DEF WaitsRight
    <2>7. AllRight(v, e.stack)
      BY <1>3, <2>6, TopWaitsRight
    <2>8. GateDepth(f) <= Deepest
      BY <1>1, EvaluatorAssumption DEF GateDepth, FrameOK, Deepest
    <2>9. f.cond <= Len(RuleOf(f).conditions) /\ Len(e.stack) # 0
      BY <1>1, RuleFields, EvParts
    <2>10. Wanted(v, asked, e.stack, Len(e.stack)) = Asked(v, GateDepth(f))["gate"][c.gate]
      <3>1. Wanted(v, asked, e.stack, Len(e.stack)) = Awaited(v, f)
        BY <2>9 DEF Wanted, Top
      <3>2. Awaited(v, f) = gates[c.gate]
        BY <2>9 DEF Awaited
      <3>3. QED
        BY <3>1, <3>2 DEF GatesOf, GateDepth
    <2> HIDE DEF d, c, f
    <2>11. Right(v, asked, d)
      BY <1>3, <2>4, <2>7, <2>8, <2>10 DEF Right
    <2>12. QED
      BY <2>1, <2>11 DEF v
  <1>7. CASE ~NestedGate(c) /\ Panics(c, gates, list)
    <2>1. c.type = "nil_in_list" \/ (c.type \in {"in_list", "not_in_list"} /\ idList = "nilIds")
      BY <1>2, <1>4, <1>7, LocalConditions
    <2>2. EvalCondition(e) = Panic(e)
      BY <2>1 DEF EvalCondition
    <2>3. Meaning(v, f) = Failure
      BY <1>1, <1>3, <1>7, PanicDecides DEF Meaning
    <2>4. Right(v, asked, Panic(e))
      BY <1>1, <1>3, <2>3, PanicTopRight
    <2>5. QED
      BY <2>2, <2>4 DEF v
  <1>8. CASE ~NestedGate(c) /\ ~Panics(c, gates, list)
    <2> DEFINE pass == \/ c.type \in {"public", "true"}
                       \/ c.type = "in_list" /\ list = "in"
                       \/ c.type = "not_in_list" /\ list # "in"
               fetch == c.type = "unsupported"
    <2>1. pass \in BOOLEAN /\ fetch \in BOOLEAN
      OBVIOUS
    <2>2. (pass <=> Passes(c, gates, list)) /\ (fetch <=> Fetches(c, gates))
      BY <1>2, <1>4, <1>8, LocalConditions
    <2>3. EvalCondition(e) = SetTop(e, EndCondition(f, pass, fetch, none))
      <3>1. /\ c.type \in {"public", "true", "false", "not_a_name", "unsupported", "in_list", "not_in_list"}
            /\ c.type \in {"in_list", "not_in_list"} => idList # "nilIds"
        BY <1>2, <1>4, <1>8, LocalConditions DEF ConditionTypes, NestedGate
      <3>2. CASE c.type \in {"public", "true"}
        <4>1. EvalCondition(e) = SetTop(e, EndCondition(f, TRUE, FALSE, none))
          BY <3>2 DEF EvalCondition
        <4>2. pass = TRUE /\ fetch = FALSE
          BY <3>2
        <4>3. QED
          BY <4>1, <4>2
      <3>3. CASE c.type \in {"false", "not_a_name"}
        <4>1. EvalCondition(e) = SetTop(e, EndCondition(f, FALSE, FALSE, none))
          BY <3>3 DEF EvalCondition
        <4>2. pass = FALSE /\ fetch = FALSE
          BY <3>3
        <4>3. QED
          BY <4>1, <4>2
      <3>4. CASE c.type = "unsupported"
        <4>1. EvalCondition(e) = SetTop(e, EndCondition(f, FALSE, TRUE, none))
          BY <3>4 DEF EvalCondition
        <4>2. pass = FALSE /\ fetch = TRUE
          BY <3>4
        <4>3. QED
          BY <4>1, <4>2
      <3>5. CASE c.type \in {"in_list", "not_in_list"}
        <4> DEFINE in == (idList = "in") = (c.type = "in_list")
        <4>1. EvalCondition(e) = SetTop(e, EndCondition(f, in, FALSE, none))
          BY <3>1, <3>5 DEF EvalCondition
        <4>2. pass = in /\ fetch = FALSE
          BY <1>2, <3>5
        <4>3. QED
          BY <4>1, <4>2
      <3>6. QED
        BY <3>1, <3>2, <3>3, <3>4, <3>5
    <2> HIDE DEF pass, fetch, none
    <2>4. Right(v, asked, SetTop(e, EndCondition(f, pass, fetch, none)))
      BY <1>5, <1>8, <2>1, <2>2
    <2>5. QED
      BY <2>3, <2>4 DEF v
  <1>9. QED
    BY <1>6, <1>7, <1>8

LEMMA EndRuleRight ==
    ASSUME NEW v, NEW asked, NEW e, EvOK(e), e.at = "eval", Right(v, asked, e),
           RuleEnded(Top(e)), Top(e).spec.enabled
    PROVE  Right(v, asked, EndRule(e))
  <1> DEFINE f == Top(e)
             gates == GatesOf(v, f)
             list == v.idList
             x == f.exposures \o f.ruleExposures
             g == [f EXCEPT !.exposures = x]
  <1>1. e.stack # <<>> /\ f \in Frames /\ e \in Evs
    <2>1. e.stack # <<>>
      BY DEF EvOK
    <2>2. QED
      BY <2>1, EvParts
  <1>2. Chain(v, asked, e.stack) /\ CallersRight(v, e.stack) /\ Looking(f, gates, list)
    BY DEF Right
  <1>3. x \in Seq(Exposures) /\ f.ruleExposures \in Seq(Exposures) /\ f.fetch \in BOOLEAN
        /\ f.pass \in BOOLEAN /\ f.rule \in Nat /\ f.cond \in Nat
    BY <1>1, FrameFields
  <1>4. g = [f EXCEPT !.exposures = @ \o f.ruleExposures]
    OBVIOUS
  <1>5. /\ g \in Frames /\ g.kind = f.kind /\ g.spec = f.spec /\ g.depth = f.depth /\ g.rule = f.rule
        /\ g.cond = f.cond /\ g.pass = f.pass /\ g.fetch = f.fetch
        /\ g.ruleExposures = f.ruleExposures /\ g.exposures = x
    <2> HIDE DEF x
    <2>1. QED
      BY <1>1, <1>3 DEF Frames
  <1>6. CASE f.fetch
    <2> DEFINE yes == TRUE
               r == [[NoResult EXCEPT !.fetch = yes] EXCEPT !.exposures = f.ruleExposures]
    <2>1. EndRule(e) = Return(Pop(e), r)
      BY <1>6 DEF EndRule
    <2>2. Meaning(v, f) = r
      <3>1. SpecReference(f.kind, f.spec, gates, DelegatesOf(v, f), list)
              = FetchResult(f.ruleExposures)
        BY <1>1, <1>2, <1>6, FetchDecides
      <3>2. FetchResult(f.ruleExposures) = r
        BY DEF FetchResult
      <3>3. QED
        BY <3>1, <3>2 DEF Meaning
    <2>3. yes \in BOOLEAN
      OBVIOUS
    <2> HIDE DEF yes
    <2>4. r \in Results
      BY <1>3, <2>3, NoResultOK DEF Results
    <2> HIDE DEF r
    <2>5. QED
      BY <1>1, <1>2, <2>1, <2>2, <2>4, PopReturnRight
  <1>7. CASE ~f.fetch /\ f.pass
    <2> DEFINE s == SetTop(e, g)
               d == [s EXCEPT !.at = "delegate"]
    <2>1. EndRule(e) = d
      BY <1>4, <1>7 DEF EndRule
    <2> HIDE DEF g
    <2>2. Delegating(g, gates, list)
      BY <1>1, <1>2, <1>5, <1>7, PassDecides
    <2>3. Like(s, e) /\ s.stack = [e.stack EXCEPT ![Len(e.stack)] = g]
      BY <1>1, <1>5, SetTopShape
    <2>4. s \in Evs /\ "delegate" \in Places
      BY <2>3 DEF Like, Places
    <2> HIDE DEF s
    <2>5. Like(d, s) /\ d.at = "delegate" /\ d.stack = s.stack
      BY <2>4, AtShape
    <2> HIDE DEF d
    <2>6. d.call = e.call /\ d.stack = [e.stack EXCEPT ![Len(e.stack)] = g]
      BY <2>3, <2>5 DEF Like
    <2>7. Delegating(g, GatesOf(v, g), v.idList)
      BY <1>5, <2>2 DEF GatesOf
    <2>8. Right(v, asked, d)
      BY <1>1, <1>2, <1>5, <2>5, <2>6, <2>7, SetTopRight
    <2>9. QED
      BY <2>1, <2>8
  <1>8. CASE ~f.fetch /\ ~f.pass
    <2> DEFINE yes == TRUE
               none == <<>>
               n == g.rule + 1
               h == [[[[g EXCEPT !.rule = n] EXCEPT !.cond = 1] EXCEPT !.pass = yes]
                        EXCEPT !.ruleExposures = none]
    <2>1. EndRule(e) = SetTop(e, h)
      <3>1. EndRule(e) = SetTop(e, [g EXCEPT !.rule = @ + 1, !.cond = 1, !.pass = TRUE,
                                             !.ruleExposures = <<>>])
        BY <1>4, <1>8 DEF EndRule
      <3> HIDE DEF g
      <3>2. QED
        BY <3>1
    <2>2. yes \in BOOLEAN /\ none \in Seq(Exposures) /\ n \in Nat
      BY <1>3, <1>5
    <2> HIDE DEF g
    <2>3. n = f.rule + 1 /\ yes = TRUE /\ none = <<>>
      BY <1>5
    <2> HIDE DEF yes, none, n
    <2>4. /\ h \in Frames /\ h.kind = f.kind /\ h.spec = f.spec /\ h.depth = f.depth
          /\ h.rule = n /\ h.cond = 1 /\ h.pass = yes /\ h.fetch = f.fetch
          /\ h.ruleExposures = none /\ h.exposures = x
      <3> HIDE DEF x
      <3>1. h \in Frames
        BY <1>5, <2>2 DEF Frames
      <3>2. h.kind = g.kind /\ h.spec = g.spec /\ h.depth = g.depth /\ h.fetch = g.fetch
            /\ h.exposures = g.exposures
        BY <1>5 DEF Frames
      <3>3. h.rule = n /\ h.cond = 1 /\ h.pass = yes /\ h.ruleExposures = none
        BY <1>5 DEF Frames
      <3>4. QED
        BY <1>5, <3>1, <3>2, <3>3
    <2> HIDE DEF h
    <2>5. Looking(h, gates, list)
      <3>1. h.fetch = FALSE
        BY <1>3, <1>8, <2>4
      <3>2. QED
        BY <1>1, <1>2, <1>8, <2>3, <2>4, <3>1, LookOn
    <2>6. Looking(h, GatesOf(v, h), v.idList)
      BY <2>4, <2>5 DEF GatesOf
    <2> DEFINE d == SetTop(e, h)
    <2>7. d.at = "eval" /\ d.call = e.call /\ d.stack = [e.stack EXCEPT ![Len(e.stack)] = h]
      BY <1>1, <2>4, SetTopShape DEF Like
    <2> HIDE DEF d
    <2>8. Right(v, asked, d)
      BY <1>1, <1>2, <2>4, <2>6, <2>7, SetTopRight
    <2>9. QED
      BY <2>1, <2>8 DEF d
  <1>9. QED
    BY <1>3, <1>6, <1>7, <1>8

LEMMA EndRulesRight ==
    ASSUME NEW v, NEW asked, NEW e, EvOK(e), e.at = "eval", Right(v, asked, e),
           ~Top(e).spec.enabled \/ Top(e).rule > Len(Top(e).spec.rules)
    PROVE  Right(v, asked, EndRules(e))
  <1> DEFINE f == Top(e)
             no == FALSE
             id == IF f.spec.enabled THEN "default" ELSE "disabled"
             default == DefaultValue(f.spec)
             r == Result(f, no, id, default)
  <1>1. e.stack # <<>> /\ f \in Frames
    <2>1. e.stack # <<>>
      BY DEF EvOK
    <2>2. QED
      BY <2>1, EvParts
  <1>2. Chain(v, asked, e.stack) /\ CallersRight(v, e.stack) /\ Looking(f, GatesOf(v, f), v.idList)
    BY DEF Right
  <1>3. Meaning(v, f) = r
    BY <1>1, <1>2, EndRulesResult DEF Meaning
  <1>4. EndRules(e) = Return(Pop(e), r)
    BY DEF EndRules
  <1>5. id \in IDs /\ default \in IDs
    <2>1. "default" \in IDs /\ "disabled" \in IDs /\ default \in IDs
      BY StringIDs, ValueIDs
    <2>2. CASE f.spec.enabled
      BY <2>1, <2>2
    <2>3. CASE ~f.spec.enabled
      BY <2>1, <2>3
    <2>4. QED
      BY <2>1, <2>2, <2>3
  <1>6. no \in BOOLEAN
    OBVIOUS
  <1> HIDE DEF no, id, default
  <1>7. r \in Results
    BY <1>1, <1>5, <1>6, ResultOK
  <1> HIDE DEF r
  <1>8. QED
    BY <1>1, <1>2, <1>3, <1>4, <1>7, PopReturnRight

LEMMA EvalStepRight ==
    ASSUME IInv, NEW asked, NEW e, EvOK(e), e.at = "eval", Right(View, asked, e)
    PROVE  Right(View, asked, EvalStep(e))
  <1> DEFINE f == Top(e)
  <1>1. e.stack # <<>> /\ f \in Frames /\ f.rule > 0 /\ f.cond > 0
    <2>1. e.stack # <<>>
      BY DEF EvOK
    <2>2. QED
      BY <2>1, EvParts DEF FrameOK
  <1>2. f.rule \in Nat /\ f.cond \in Nat /\ f.spec.rules \in Seq(Rules) /\ f.spec.enabled \in BOOLEAN
    BY <1>1, FrameFields
  <1>3. CASE ~f.spec.enabled \/ f.rule > Len(f.spec.rules)
    <2>1. EvalStep(e) = EndRules(e)
      BY <1>3 DEF EvalStep
    <2>2. QED
      BY <1>3, <2>1, EndRulesRight
  <1>4. CASE f.spec.enabled /\ ~(f.rule > Len(f.spec.rules))
    <2>1. InRule(f)
      BY <1>1, <1>2, <1>4 DEF InRule
    <2>2. RuleOf(f).conditions \in Seq(Conditions)
      BY <1>1, <2>1, RuleFields
    <2>3. CASE f.cond <= Len(RuleOf(f).conditions)
      <3>1. EvalStep(e) = EvalCondition(e)
        BY <1>4, <2>3 DEF EvalStep
      <3>2. f.cond \in DOMAIN RuleOf(f).conditions
        BY <1>1, <1>2, <2>2, <2>3
      <3>3. QED
        BY <1>4, <2>1, <3>1, <3>2, EvalConditionRight
    <2>4. CASE ~(f.cond <= Len(RuleOf(f).conditions))
      <3>1. EvalStep(e) = EndRule(e)
        BY <1>4, <2>4 DEF EvalStep
      <3>2. RuleEnded(f)
        BY <1>2, <2>1, <2>2, <2>4 DEF RuleEnded
      <3>3. QED
        BY <1>4, <3>1, <3>2, EndRuleRight
    <2>5. QED
      BY <2>3, <2>4
  <1>5. QED
    BY <1>2, <1>3, <1>4

LEMMA ReadDelegateRight ==
    ASSUME IInv, NEW asked, NEW e, EvOK(e), e.at = "delegate", Right(View, asked, e)
    PROVE  Right(View, asked, ReadDelegate(e))
  <1> DEFINE v == View
             f == Top(e)
             r == RuleOf(f)
             n == r.configDelegate
             config == IF n = None THEN None ELSE store["config"][n]
             delegates == DelegatesOf(v, f)
  <1>1. e.stack # <<>> /\ f \in Frames /\ RuleEnded(f) /\ FrameOK(f, Len(e.stack), Base(e)) /\ Len(e.stack) # 0
    <2>1. e.stack # <<>> /\ RuleEnded(f)
      BY DEF EvOK
    <2>2. QED
      BY <2>1, EvParts
  <1>2. /\ r.id \in STRING /\ r.percent \in BOOLEAN /\ n \in Configs \cup {None} /\ f.depth \in Nat
        /\ r.conditions \in Seq(Conditions) /\ f.cond \in Nat
    BY <1>1, RuleFields, FrameFields DEF RuleEnded
  <1>3. v.store = store /\ None \notin Configs /\ NamesOf["config"] = Configs /\ "config" \in Kinds
    BY ViewFacts, NamesFacts DEF Names, Kinds
  <1> HIDE DEF v
  <1>4. /\ Chain(v, asked, e.stack) /\ CallersRight(v, e.stack)
        /\ Delegating(f, GatesOf(v, f), v.idList)
    BY DEF Right, v
  <1>5. n \in DOMAIN delegates <=> config # None
    BY <1>2, <1>3 DEF DelegatesOf, Delegates
  <1>6. CASE config # None
    <2> DEFINE m == f.depth + 2
    <2>1. ReadDelegate(e) = Enter(e, "config", config, m)
      BY <1>6 DEF ReadDelegate, DelegateDepth
    <2>2. n \in Configs /\ config = store["config"][n]
      BY <1>2, <1>6
    <2>3. config \in Specs
      BY <1>3, <1>6, <2>2, SpecFacts
    <2>4. WaitsRight(v, f)
      BY <1>4, <1>5, <1>6 DEF WaitsRight
    <2>5. AllRight(v, e.stack)
      BY <1>4, <2>4, TopWaitsRight
    <2>6. m \in Nat /\ m - 1 = f.depth + 1 /\ m - 1 \in -1..Deepest
      BY <1>1, <1>2, EvaluatorAssumption DEF FrameOK, Deepest
    <2>7. Wanted(v, asked, e.stack, Len(e.stack)) = Ref(v, m - 1)["config"][n]
      <3>1. ~(f.cond <= Len(r.conditions))
        BY <1>1, <1>2 DEF RuleEnded
      <3>2. Wanted(v, asked, e.stack, Len(e.stack)) = Awaited(v, f)
        BY <1>1 DEF Wanted, Top
      <3>3. Awaited(v, f) = delegates[n]
        BY <3>1 DEF Awaited
      <3>4. delegates[n] = Ref(v, f.depth + 1)["config"][n]
        BY <1>3, <1>6, <2>2 DEF DelegatesOf, Delegates
      <3>5. QED
        BY <2>6, <3>2, <3>3, <3>4
    <2>8. v.store["config"][n] = config
      BY <1>3, <2>2
    <2> HIDE DEF m, config, n, f
    <2>9. Right(v, asked, Enter(e, "config", config, m))
      BY <1>3, <1>4, <1>6, <2>2, <2>3, <2>5, <2>6, <2>7, <2>8, EnterRight
    <2>10. QED
      BY <2>1, <2>9 DEF v
  <1>7. CASE config = None
    <2> DEFINE p == r.percent
               w == IF p THEN ReturnValue(r) ELSE DefaultValue(f.spec)
               res == Result(f, p, r.id, w)
    <2>1. ReadDelegate(e) = Return(Pop(e), res)
      BY <1>7 DEF ReadDelegate, evalPassPercent
    <2>2. p \in BOOLEAN /\ r.id \in IDs /\ w \in IDs
      <3>1. r.id \in IDs /\ ReturnValue(r) \in IDs /\ DefaultValue(f.spec) \in IDs
        BY <1>2, StringIDs, ValueIDs
      <3>2. CASE p
        BY <1>2, <3>1, <3>2
      <3>3. CASE ~p
        BY <1>2, <3>1, <3>3
      <3>4. QED
        BY <1>2, <3>1, <3>2, <3>3
    <2>3. Meaning(v, f) = OwnResult(f.kind, p, r.id, w, f.exposures)
      <3>1. n \notin DOMAIN delegates
        BY <1>5, <1>7
      <3> HIDE DEF delegates
      <3>2. SpecReference(f.kind, f.spec, GatesOf(v, f), delegates, v.idList)
              = IF n \in DOMAIN delegates THEN DelegatedResult(delegates[n], n, f.exposures)
                ELSE OwnResult(f.kind, p, r.id, w, f.exposures)
        BY <1>1, <1>4, DelegatingDecides
      <3>3. QED
        BY <3>1, <3>2 DEF Meaning, delegates
    <2> HIDE DEF p, w
    <2>4. OwnResult(f.kind, p, r.id, w, f.exposures) = res
      BY DEF OwnResult, Result
    <2>5. res \in Results
      <3> HIDE DEF r
      <3>1. QED
        BY <1>1, <2>2, ResultOK
    <2> HIDE DEF res
    <2>6. Right(v, asked, Return(Pop(e), res))
      BY <1>1, <1>4, <2>3, <2>4, <2>5, PopReturnRight
    <2>7. QED
      BY <2>1, <2>6 DEF v
  <1>8. QED
    BY <1>6, <1>7

\* The gate that f waited for is the one that the reference has.
LEMMA EndGateConditionRight ==
    ASSUME NEW v, NEW asked, NEW e, TopNext(v, asked, e), NEW f, f = Top(e), AtGate(f), Looking(f, GatesOf(v, f), v.idList),
           NEW res \in Results, GatesOf(v, f)[RuleOf(f).conditions[f.cond].gate] = res,
           NEW d, d.at = "eval",
           d.stack = [e.stack EXCEPT ![Len(e.stack)] = EndGateCondition(f, res)]
    PROVE  Right(v, asked, d)
  <1> DEFINE c == RuleOf(f).conditions[f.cond]
             gates == GatesOf(v, f)
             list == v.idList
             yes == TRUE
             no == FALSE
             p == res.pass = (c.type = "pass_gate")
             none == <<>>
             x == [gate |-> c.gate, value |-> res.pass, ruleID |-> res.id]
             y == Append(res.exposures, x)
  <1>1. f \in Frames /\ InRule(f) /\ f.cond \in DOMAIN RuleOf(f).conditions
    BY EvParts DEF AtGate, TopNext
  <1>2. c.type \in {"pass_gate", "fail_gate"} /\ c.gate \in Gates /\ NestedGate(c)
    BY <1>1, ConditionFields DEF AtGate, NestedGate
  <1>3. gates[c.gate] = res /\ res # Failure /\ res.fetch \in BOOLEAN /\ res.pass \in BOOLEAN
    BY ResultFields, NoFailure
  <1>4. yes \in BOOLEAN /\ no \in BOOLEAN /\ p \in BOOLEAN
    OBVIOUS
  <1>5. none \in Seq(Exposures) /\ y \in Seq(Exposures)
    <2>1. x \in Exposures
      <3> HIDE DEF c
      <3>1. QED
        BY <1>2, ResultFields DEF Exposures
    <2> HIDE DEF x
    <2>2. QED
      BY <2>1, ResultFields
  <1>6. ~Panics(c, gates, list)
    <2> HIDE DEF c, gates, list
    <2>1. QED
      BY <1>2, <1>3 DEF Panics
  <1>7. Fetches(c, gates) <=> res.fetch
    <2> HIDE DEF c, gates
    <2>1. QED
      BY <1>2, <1>3 DEF Fetches
  <1>8. Passes(c, gates, list) <=> ~res.fetch /\ p
    <2>1. c.type # "pass_gate" => c.type = "fail_gate"
      BY <1>2
    <2> HIDE DEF c, gates, list
    <2>2. QED
      BY <1>2, <1>3, <2>1 DEF Passes
  <1>9. Exposed(c, gates) = IF res.fetch THEN none ELSE y
    <2> HIDE DEF c, gates
    <2>1. QED
      BY <1>2, <1>3 DEF Exposed
  <1>10. CASE res.fetch
    <2>1. EndGateCondition(f, res) = EndCondition(f, no, yes, none)
      BY <1>10 DEF EndGateCondition
    <2>2. /\ no <=> Passes(c, gates, list)
          /\ yes <=> Fetches(c, gates)
          /\ none = Exposed(c, gates)
      BY <1>7, <1>8, <1>9, <1>10
    <2> HIDE DEF yes, no, none, c
    <2>3. QED
      BY <1>1, <1>4, <1>5, <1>6, <2>1, <2>2, EndsRight, SMTT(30) DEF c
  <1>11. CASE ~res.fetch
    <2>1. EndGateCondition(f, res) = EndCondition(f, p, no, y)
      BY <1>11 DEF EndGateCondition
    <2>2. /\ p <=> Passes(c, gates, list)
          /\ no <=> Fetches(c, gates)
          /\ y = Exposed(c, gates)
      BY <1>7, <1>8, <1>9, <1>11
    <2> HIDE DEF p, no, y, c
    <2>3. QED
      BY <1>1, <1>4, <1>5, <1>6, <2>1, <2>2, EndsRight DEF c
  <1>12. QED
    BY <1>3, <1>10, <1>11

LEMMA ResumeRight ==
    ASSUME NEW v, NEW asked, NEW e, EvOK(e), e.at = "return", Right(v, asked, e)
    PROVE  Right(v, asked, Resume(e))
  <1> DEFINE f == Top(e)
             r == RuleOf(f)
  <1>1. e \in Evs /\ e.result \in Results
    BY EvParts
  <1>2. /\ Chain(v, asked, e.stack) /\ AllRight(v, e.stack)
        /\ Wanted(v, asked, e.stack, Len(e.stack)) = e.result
    BY DEF Right
  <1>3. CASE e.stack = <<>>
    <2> DEFINE d == [e EXCEPT !.at = "done"]
    <2>1. Resume(e) = d
      BY <1>3 DEF Resume
    <2>2. d.at = "done" /\ d.stack = e.stack /\ d.call = e.call /\ d.result = e.result
      BY <1>1 DEF Evs
    <2> HIDE DEF d
    <2>3. Right(v, asked, d)
      BY <1>2, <2>2 DEF Right
    <2>4. QED
      BY <2>1, <2>3
  <1>4. CASE e.stack # <<>>
    <2>1. f \in Frames /\ Len(e.stack) \in DOMAIN e.stack /\ Len(e.stack) # 0
      BY <1>4, EvParts, TopFacts
    <2>2. CallersRight(v, e.stack) /\ WaitsRight(v, f)
      BY <1>2, <2>1 DEF AllRight, CallersRight, Top
    <2>3. e.result = Awaited(v, f)
      BY <1>2, <2>1 DEF Wanted, Top
    <2>4. InRule(f)
      BY <2>2 DEF WaitsRight, AtGate, Delegating, RuleEnded
    <2>5. r.conditions \in Seq(Conditions) /\ f.cond \in Nat
      BY <2>1, <2>4, RuleFields, FrameFields
    <2>6. CASE f.cond <= Len(r.conditions)
      <3> DEFINE g == EndGateCondition(f, e.result)
                 s == SetTop(e, g)
                 d == [[s EXCEPT !.at = "eval"] EXCEPT !.result = NoResult]
      <3>1. Resume(e) = d
        BY <1>4, <2>6 DEF Resume
      <3>2. AtGate(f) /\ Looking(f, GatesOf(v, f), v.idList)
        BY <2>2, <2>5, <2>6 DEF WaitsRight, Delegating, RuleEnded
      <3>3. GatesOf(v, f)[r.conditions[f.cond].gate] = e.result
        BY <2>3, <2>6 DEF Awaited
      <3>4. g \in Frames
        <4>1. f.rule > 0
          BY <3>2 DEF Looking
        <4>2. Moved(g, f)
          BY <1>1, <2>1, <3>2, <4>1, EndGateConditionMoves
        <4>3. QED
          BY <4>2 DEF Moved
      <3> HIDE DEF g
      <3>5. Like(s, e) /\ s.stack = [e.stack EXCEPT ![Len(e.stack)] = g]
        BY <1>1, <1>4, <3>4, SetTopShape
      <3> HIDE DEF s
      <3>6. d.at = "eval" /\ d.stack = s.stack /\ d.call = s.call
        BY <3>5 DEF Like, Evs
      <3> HIDE DEF d
      <3>7. d.call = e.call /\ d.stack = [e.stack EXCEPT ![Len(e.stack)] = EndGateCondition(f, e.result)]
        BY <3>5, <3>6 DEF Like, g
      <3>8. Right(v, asked, d)
        <4>1. TopNext(v, asked, e)
          BY <1>2, <1>4, <2>2 DEF TopNext
        <4>2. QED
          BY <1>1, <3>2, <3>3, <3>6, <3>7, <4>1, EndGateConditionRight
      <3>9. QED
        BY <3>1, <3>8
    <2>7. CASE ~(f.cond <= Len(r.conditions))
      <3> DEFINE n == r.configDelegate
                 delegates == DelegatesOf(v, f)
                 res == EndDelegate(f, e.result)
      <3>1. Resume(e) = Return(Pop(e), res)
        BY <1>4, <2>7 DEF Resume
      <3>2. res \in Results
        BY <1>1, <2>1, <2>4, EndDelegateOK
      <3>3. Delegating(f, GatesOf(v, f), v.idList) /\ n \in DOMAIN delegates
        BY <2>2, <2>5, <2>7 DEF WaitsRight, AtGate
      <3>4. delegates[n] = e.result
        BY <2>3, <2>7 DEF Awaited
      <3>5. Meaning(v, f) = DelegatedResult(e.result, n, f.exposures)
        <4> HIDE DEF delegates
        <4>1. SpecReference(f.kind, f.spec, GatesOf(v, f), delegates, v.idList)
                = DelegatedResult(delegates[n], n, f.exposures)
          BY <2>1, <3>3, DelegatingDecides
        <4>2. QED
          BY <3>4, <4>1 DEF Meaning, delegates
      <3>6. DelegatedResult(e.result, n, f.exposures) = res
        <4>1. e.result # Failure
          BY <1>1, NoFailure
        <4> DEFINE q == e.result
        <4>2. q \in Results
          BY <1>1
        <4> HIDE DEF q, f
        <4>3. DelegatedResult(q, n, f.exposures) = EndDelegate(f, q)
          BY <4>1, <4>2 DEF DelegatedResult, EndDelegate, Results, q
        <4>4. QED
          BY <4>3 DEF q
      <3> HIDE DEF res
      <3>7. Right(v, asked, Return(Pop(e), res))
        BY <1>2, <1>4, <2>2, <3>2, <3>5, <3>6, PopReturnRight
      <3>8. QED
        BY <3>1, <3>7
    <2>8. QED
      BY <2>6, <2>7
  <1>5. QED
    BY <1>3, <1>4

\* A step keeps the evaluation right, whatever was asked for.
LEMMA SteppedRight ==
    ASSUME IInv, NEW asked, NEW e, EvOK(e), e.at \in RunningAt, Right(View, asked, e)
    PROVE  Right(View, asked, Stepped(e))
  <1>1. CASE e.at = "override"
    BY <1>1, ReadOverrideRight DEF Stepped
  <1>2. CASE e.at = "lookup"
    BY <1>2, ReadSpecRight DEF Stepped
  <1>3. CASE e.at = "eval"
    BY <1>3, EvalStepRight DEF Stepped
  <1>4. CASE e.at = "delegate"
    BY <1>4, ReadDelegateRight DEF Stepped
  <1>5. CASE e.at = "return"
    BY <1>5, ResumeRight DEF Stepped
  <1>6. QED
    BY <1>1, <1>2, <1>3, <1>4, <1>5 DEF RunningAt

-----------------------------------------------------------------------------
(***************************************************************************)
(* RightInv is inductive, relative to IInv.                                *)
(***************************************************************************)
\* Nothing is on the stack and nothing has been returned.
LEMMA FreshRight ==
    ASSUME NEW v, NEW asked, NEW e, e.stack = <<>>, e.at = "idle"
    PROVE  Right(v, asked, e)
  BY DEF Right, Chain

LEMMA InitRight == Init => RightInv
  <1> SUFFICES ASSUME Init, NEW t \in Threads
               PROVE  Right(View, AskedFor(View, ev[t].call), ev[t])
    BY DEF RightInv
  <1>1. ev[t] = Idle
    BY DEF Init
  <1>2. Idle.stack = <<>> /\ Idle.at = "idle"
    BY DEF Idle
  <1>3. QED
    BY <1>1, <1>2, FreshRight

LEMMA OneEvaluationRight ==
    ASSUME IInv, RightInv, NEW t \in Threads, NEW e,
           e.quiet => Right(View, AskedFor(View, e.call), e),
           ev' = [ev EXCEPT ![t] = e], UNCHANGED sharedVars
    PROVE  RightInv'
  <1>1. \A u \in Threads : ev'[u] = IF u = t THEN e ELSE ev[u]
    BY DEF IInv
  <1>2. View' = View
    BY DEF View, sharedVars
  <1> DEFINE v == View
  <1> HIDE DEF v
  <1>3. ASSUME NEW u \in Threads, ev'[u].quiet PROVE Right(v, AskedFor(v, ev'[u].call), ev'[u])
    <2>1. CASE u = t
      BY <1>1, <1>3, <2>1 DEF v
    <2>2. CASE u # t
      BY <1>1, <1>3, <2>2 DEF RightInv, v
    <2>3. QED
      BY <2>1, <2>2
  <1>4. QED
    BY <1>2, <1>3 DEF RightInv, v

LEMMA CallRight ==
    ASSUME IInv, RightInv, NEW t \in Threads, NEW kind \in Kinds, NEW name \in NamesOf[kind],
           Call(t, kind, name)
    PROVE  RightInv'
  <1> DEFINE b == [Idle EXCEPT !.call = <<kind, name>>]
             e == Begin(b, kind, name, 0)
             v == View
             asked == AskedFor(v, e.call)
  <1>1. name \in Names /\ <<kind, name>> \in Kinds \X (Names \cup {None})
    BY NamesFacts
  <1>2. b \in Evs /\ b.stack = <<>> /\ b.call = <<kind, name>>
    <2>1. b \in Evs
      BY <1>1, IdleOK DEF EvOK
    <2>2. b.stack = <<>> /\ b.call = <<kind, name>>
      BY DEF Idle
    <2>3. QED
      BY <2>1, <2>2
  <1> HIDE DEF b
  <1>3. /\ e.at = "override" /\ e.kind = kind /\ e.name = name /\ e.depth = 0
        /\ e.stack = <<>> /\ e.call = <<kind, name>>
    BY <1>1, <1>2, BeginShape
  <1>4. ev' = [ev EXCEPT ![t] = e] /\ UNCHANGED sharedVars
    BY DEF Call, b
  <1> HIDE DEF e, v
  <1>5. /\ Len(e.stack) = 0 /\ Chain(v, asked, e.stack) /\ AllRight(v, e.stack)
        /\ e.depth <= Deepest
    BY <1>3, EvaluatorAssumption DEF Chain, AllRight, Deepest
  <1>6. asked = Asked(v, e.depth)[e.kind][e.name]
    BY <1>3 DEF AskedFor, asked
  <1> HIDE DEF asked
  <1>7. Wanted(v, asked, e.stack, Len(e.stack)) = Asked(v, e.depth)[e.kind][e.name]
    BY <1>5, <1>6 DEF Wanted
  <1>8. Right(v, asked, e)
    BY <1>3, <1>5, <1>7 DEF Right
  <1>9. QED
    BY <1>4, <1>8, OneEvaluationRight DEF v, asked

LEMMA StepRight ==
    ASSUME IInv, RightInv, NEW t \in Threads, Step(t)
    PROVE  RightInv'
  <1> DEFINE e == ev[t]
             d == Stepped(e)
             v == View
  <1>1. EvOK(e) /\ (e.quiet => Right(v, AskedFor(v, e.call), e))
    BY DEF IInv, RightInv
  <1>2. e.at \in RunningAt /\ ev' = [ev EXCEPT ![t] = d] /\ UNCHANGED sharedVars
    BY StepIs
  <1>3. d.call = e.call /\ d.quiet = e.quiet
    BY StepIInv DEF SameCall
  <1>4. e.quiet => Right(v, AskedFor(v, e.call), d)
    BY <1>1, <1>2, SteppedRight
  <1> HIDE DEF d
  <1>5. d.quiet => Right(v, AskedFor(v, d.call), d)
    BY <1>3, <1>4
  <1>6. QED
    BY <1>2, <1>5, OneEvaluationRight

LEMMA ChangesRight == ASSUME IInv, Changes PROVE RightInv'
  <1>1. ev' = [t \in Threads |-> [ev[t] EXCEPT !.quiet = FALSE]]
    BY DEF Changes, setConfigSpecs, Override, SyncIDList, Change
  <1>2. ASSUME NEW t \in Threads PROVE ~ev'[t].quiet
    <2>1. ev[t] \in Evs
      BY DEF IInv
    <2>2. [ev[t] EXCEPT !.quiet = FALSE].quiet = FALSE
      BY <2>1 DEF Evs
    <2>3. QED
      BY <1>1, <2>2
  <1>3. QED
    BY <1>2 DEF RightInv

LEMMA NextRight == IInv /\ RightInv /\ [Next]_vars => RightInv'
  <1> SUFFICES ASSUME IInv, RightInv, [Next]_vars PROVE RightInv'
    OBVIOUS
  <1>1. CASE \E t \in Threads :
                Step(t) \/ \E kind \in Kinds : \E name \in NamesOf[kind] : Call(t, kind, name)
    BY <1>1, StepRight, CallRight
  <1>2. CASE Changes
    BY <1>2, ChangesRight
  <1>3. CASE UNCHANGED vars
    <2>1. View' = View /\ ev' = ev
      BY <1>3 DEF View, vars, sharedVars
    <2>2. QED
      BY <2>1 DEF RightInv
  <1>4. QED
    BY <1>1, <1>2, <1>3 DEF Next

(***************************************************************************)
(* An evaluation during which no sync, override or ID list change comes is *)
(* what the reference says of the specs, overrides and ID list: for all    *)
(* specs, however gates and delegates refer to each other, and any number  *)
(* of evaluations at a time.                                               *)
(***************************************************************************)
THEOREM ReferenceCorrect == Spec => []QuietEvaluationIsReference
  <1>1. IInv /\ RightInv => QuietEvaluationIsReference
    <2> SUFFICES ASSUME IInv, RightInv, NEW t \in Threads, ev[t].at \in {"done", "panicked"},
                        ev[t].quiet
                 PROVE  WithOverrides(overrides, Reference(store, overrides, idList)[0])
                            [ev[t].call[1]][ev[t].call[2]]
                          = IF ev[t].at = "done" THEN ev[t].result ELSE Failure
      BY DEF QuietEvaluationIsReference
    <2> DEFINE e == ev[t]
               asked == AskedFor(View, e.call)
    <2>1. Right(View, asked, e) /\ e.stack = <<>>
      BY DEF RightInv, IInv, EvOK
    <2>2. Wanted(View, asked, e.stack, Len(e.stack)) = Asked(View, 0)[e.call[1]][e.call[2]]
      BY <2>1 DEF Wanted, AskedFor
    <2>3. Asked(View, 0) = WithOverrides(overrides, Reference(store, overrides, idList)[0])
      BY ViewFacts DEF Asked, Ref
    <2>4. CASE e.at = "done"
      <3>1. Wanted(View, asked, e.stack, Len(e.stack)) = e.result
        BY <2>1, <2>4 DEF Right
      <3>2. QED
        BY <2>2, <2>3, <2>4, <3>1
    <2>5. CASE e.at = "panicked"
      <3>1. Wanted(View, asked, e.stack, Len(e.stack)) = Failure
        BY <2>1, <2>5 DEF Right
      <3>2. QED
        BY <2>2, <2>3, <2>5, <3>1
    <2>6. QED
      BY <2>4, <2>5
  <1>2. Spec => []RightInv
    BY InitRight, NextRight, InvCorrect, PTL DEF Spec
  <1>3. QED
    BY <1>1, <1>2, InvCorrect, PTL
-----------------------------------------------------------------------------
(***************************************************************************)
(* One level up.  The depth matters for panics only: what does not panic   *)
(* comes to the same thing when it is asked for one level less deep.       *)
(***************************************************************************)
\* a is what b is, where b is no panic.
Follows(a, b, S) == \A n \in S : b[n] # Failure => a[n] = b[n]

LEMMA ConditionUp ==
    ASSUME NEW c \in Conditions, NEW a, NEW b, NEW list, Follows(a, b, Gates), ~Panics(c, b, list)
    PROVE  /\ ~Panics(c, a, list) /\ Exposed(c, a) = Exposed(c, b)
           /\ Fetches(c, a) <=> Fetches(c, b)
           /\ Passes(c, a, list) <=> Passes(c, b, list)
  <1>1. NestedGate(c) => c.gate \in Gates
    BY DEF NestedGate, Conditions
  <1>2. NestedGate(c) => b[c.gate] # Failure
    BY Zenon DEF Panics
  <1>3. NestedGate(c) => a[c.gate] = b[c.gate]
    BY <1>1, <1>2 DEF Follows
  <1>4. CASE NestedGate(c)
    BY <1>3, <1>4 DEF Panics, Exposed, Fetches, Passes
  <1>5. CASE ~NestedGate(c)
    BY <1>5, Zenon DEF Panics, Exposed, Fetches, Passes, NestedGate
  <1>6. QED
    BY <1>4, <1>5

Calm(r, gates, list) == \A c \in ToSet(r.conditions) : ~Panics(c, gates, list)

LEMMA RuleUp ==
    ASSUME NEW r \in Rules, NEW a, NEW b, NEW list, Follows(a, b, Gates), Calm(r, b, list)
    PROVE  /\ Calm(r, a, list) /\ RuleExposures(r, a) = RuleExposures(r, b)
           /\ (\E c \in ToSet(r.conditions) : Fetches(c, a))
                <=> (\E c \in ToSet(r.conditions) : Fetches(c, b))
           /\ Decides(r, a, list) <=> Decides(r, b, list)
  <1>1. r.conditions \in Seq(Conditions)
    BY DEF Rules
  <1>2. /\ ToSet(r.conditions) \subseteq Conditions
        /\ \A j \in DOMAIN r.conditions : r.conditions[j] \in ToSet(r.conditions)
    BY <1>1 DEF ToSet
  <1>3. ASSUME NEW c \in ToSet(r.conditions)
        PROVE  /\ ~Panics(c, a, list) /\ Exposed(c, a) = Exposed(c, b)
               /\ Fetches(c, a) <=> Fetches(c, b)
               /\ Passes(c, a, list) <=> Passes(c, b, list)
    BY <1>2, ConditionUp DEF Calm
  <1>4. RuleExposures(r, a) = RuleExposures(r, b)
    <2>1. \A j \in DOMAIN r.conditions : Exposed(r.conditions[j], a) = Exposed(r.conditions[j], b)
      BY <1>2, <1>3
    <2>2. [j \in DOMAIN r.conditions |-> Exposed(r.conditions[j], a)]
            = [j \in DOMAIN r.conditions |-> Exposed(r.conditions[j], b)]
      BY <2>1
    <2>3. QED
      BY <2>2 DEF RuleExposures
  <1>5. Calm(r, a, list)
    BY <1>3 DEF Calm
  <1>6. (\E c \in ToSet(r.conditions) : Fetches(c, a))
          <=> (\E c \in ToSet(r.conditions) : Fetches(c, b))
    BY <1>3
  <1>7. Decides(r, a, list) <=> Decides(r, b, list)
    BY <1>3, Zenon DEF Decides, Calm
  <1>8. QED
    BY <1>4, <1>5, <1>6, <1>7

\* The first n rules, none of which panics.
LEMMA RulesUp ==
    ASSUME NEW spec \in Specs, NEW n \in Nat, n <= Len(spec.rules), NEW a, NEW b, NEW list,
           Follows(a, b, Gates), \A i \in 1..n : Calm(spec.rules[i], b, list)
    PROVE  /\ SpecExposures(spec, n, a) = SpecExposures(spec, n, b)
           /\ \A i \in 1..n : Decides(spec.rules[i], a, list) <=> Decides(spec.rules[i], b, list)
  <1>1. spec.rules \in Seq(Rules)
    BY DEF Specs
  <1>2. ASSUME NEW i \in 1..n
        PROVE  /\ RuleExposures(spec.rules[i], a) = RuleExposures(spec.rules[i], b)
               /\ Decides(spec.rules[i], a, list) <=> Decides(spec.rules[i], b, list)
    <2>1. spec.rules[i] \in Rules
      BY <1>1
    <2>2. QED
      BY <2>1, RuleUp
  <1>3. [i \in 1..n |-> RuleExposures(spec.rules[i], a)] = [i \in 1..n |-> RuleExposures(spec.rules[i], b)]
    BY <1>2
  <1>4. SpecExposures(spec, n, a) = SpecExposures(spec, n, b)
    BY <1>3 DEF SpecExposures
  <1>5. QED
    BY <1>2, <1>4

LEMMA RuleReferenceUp ==
    ASSUME NEW kind, NEW spec, NEW r \in Rules, NEW a, NEW b, NEW da, NEW db, NEW list, NEW x,
           Follows(a, b, Gates), DOMAIN da = DOMAIN db, Follows(da, db, DOMAIN db),
           RuleReference(kind, spec, r, b, db, list, x) # Failure
    PROVE  Calm(r, b, list) /\ RuleReference(kind, spec, r, a, da, list, x) = RuleReference(kind, spec, r, b, db, list, x)
  <1>1. Calm(r, b, list)
    BY DEF RuleReference, Calm
  <1>2. /\ Calm(r, a, list) /\ RuleExposures(r, a) = RuleExposures(r, b)
        /\ (\E c \in ToSet(r.conditions) : Fetches(c, a))
             <=> (\E c \in ToSet(r.conditions) : Fetches(c, b))
    BY <1>1, RuleUp
  <1> DEFINE n == r.configDelegate
             own == OwnResult(kind, r.percent, r.id,
                              IF r.percent THEN ReturnValue(r) ELSE DefaultValue(spec), x)
             fetch(gates) == \E c \in ToSet(r.conditions) : Fetches(c, gates)
             fetched(gates) == [NoResult EXCEPT !.fetch = TRUE, !.exposures = RuleExposures(r, gates)]
  <1>3. ASSUME NEW gates, NEW d, Calm(r, gates, list)
        PROVE  RuleReference(kind, spec, r, gates, d, list, x)
                 = IF fetch(gates) THEN fetched(gates)
                   ELSE IF n \in DOMAIN d THEN DelegatedResult(d[n], n, x) ELSE own
    BY <1>3 DEF RuleReference, Calm
  <1>4. fetch(a) <=> fetch(b)
    BY <1>2
  <1>5. fetched(a) = fetched(b)
    BY <1>2
  <1> HIDE DEF own, fetch, fetched, n
  <1>6. CASE fetch(b) \/ n \notin DOMAIN db
    BY <1>1, <1>2, <1>3, <1>4, <1>5, <1>6
  <1>7. CASE ~fetch(b) /\ n \in DOMAIN db
    <2>1. DelegatedResult(db[n], n, x) # Failure
      BY <1>1, <1>3, <1>7
    <2>2. db[n] # Failure
      BY <2>1 DEF DelegatedResult
    <2>3. da[n] = db[n]
      BY <1>7, <2>2 DEF Follows
    <2>4. QED
      BY <1>1, <1>2, <1>3, <1>4, <1>7, <2>3
  <1>8. QED
    BY <1>1, <1>6, <1>7

LEMMA SpecUp ==
    ASSUME NEW kind, NEW spec \in Specs, NEW a, NEW b, NEW da, NEW db, NEW list,
           Follows(a, b, Gates), DOMAIN da = DOMAIN db, Follows(da, db, DOMAIN db),
           SpecReference(kind, spec, b, db, list) # Failure
    PROVE  SpecReference(kind, spec, a, da, list) = SpecReference(kind, spec, b, db, list)
  <1> DEFINE deciding == {i \in DOMAIN spec.rules : Decides(spec.rules[i], b, list)}
             N == Len(spec.rules)
  <1>1. spec.rules \in Seq(Rules) /\ N \in Nat /\ DOMAIN spec.rules = 1..N
    BY DEF Specs
  <1>2. ASSUME NEW r, ~Decides(r, b, list) PROVE Calm(r, b, list)
    BY <1>2 DEF Decides, Calm
  <1>3. CASE ~spec.enabled
    <2>1. SpecExposures(spec, 0, a) = SpecExposures(spec, 0, b)
      BY NoExposures
    <2>2. QED
      BY <1>3, <2>1, NoRuleDecides
  <1>4. CASE spec.enabled /\ deciding = {}
    <2>1. NoneDecides(spec, N, b, list)
      BY <1>1, <1>4 DEF NoneDecides
    <2>2. \A i \in 1..N : Calm(spec.rules[i], b, list)
      BY <1>2, <2>1 DEF NoneDecides
    <2>3. /\ SpecExposures(spec, N, a) = SpecExposures(spec, N, b)
          /\ NoneDecides(spec, N, a, list)
      <3>1. N <= Len(spec.rules)
        BY <1>1
      <3>2. /\ SpecExposures(spec, N, a) = SpecExposures(spec, N, b)
            /\ \A i \in 1..N : Decides(spec.rules[i], a, list) <=> Decides(spec.rules[i], b, list)
        <4> HIDE DEF N
        <4>1. QED
          BY <1>1, <2>2, <3>1, RulesUp
      <3>3. QED
        BY <2>1, <3>2 DEF NoneDecides
    <2>4. QED
      BY <1>4, <2>1, <2>3, NoRuleDecides, ZenonT(30)
  <1>5. CASE spec.enabled /\ deciding # {}
    <2>1. PICK i \in deciding : \A j \in deciding : i <= j
      <3>1. deciding \subseteq Nat
        BY <1>1
      <3> HIDE DEF deciding
      <3>2. QED
        BY <1>5, <3>1, Least
    <2>2. /\ i \in 1..N /\ i \in Nat /\ i - 1 \in Nat /\ i <= N
          /\ Decides(spec.rules[i], b, list) /\ spec.rules[i] \in Rules
      BY <1>1
    <2>3. NoneDecides(spec, i - 1, b, list)
      BY <1>1, <2>1, <2>2 DEF NoneDecides
    <2>4. SpecReference(kind, spec, b, db, list)
            = RuleReference(kind, spec, spec.rules[i], b, db, list, SpecExposures(spec, i, b))
      BY <1>1, <1>5, <2>2, <2>3, FirstRuleDecides
    <2>5. /\ Calm(spec.rules[i], b, list)
          /\ RuleReference(kind, spec, spec.rules[i], a, da, list, SpecExposures(spec, i, b))
               = RuleReference(kind, spec, spec.rules[i], b, db, list, SpecExposures(spec, i, b))
      BY <2>2, <2>4, RuleReferenceUp
    <2>6. \A j \in 1..i : Calm(spec.rules[j], b, list)
      <3> SUFFICES ASSUME NEW j \in 1..i PROVE Calm(spec.rules[j], b, list)
        OBVIOUS
      <3>1. CASE j = i
        BY <2>5, <3>1
      <3>2. CASE j # i
        <4>1. j \in 1..(i - 1)
          BY <2>2, <3>2
        <4>2. QED
          BY <1>2, <2>3, <4>1 DEF NoneDecides
      <3>3. QED
        BY <3>1, <3>2
    <2>7. /\ SpecExposures(spec, i, a) = SpecExposures(spec, i, b)
          /\ \A j \in 1..i : Decides(spec.rules[j], a, list) <=> Decides(spec.rules[j], b, list)
      BY <2>2, <2>6, RulesUp
    <2>8. Decides(spec.rules[i], a, list) /\ NoneDecides(spec, i - 1, a, list)
      BY <2>2, <2>3, <2>7 DEF NoneDecides
    <2>9. SpecReference(kind, spec, a, da, list)
            = RuleReference(kind, spec, spec.rules[i], a, da, list, SpecExposures(spec, i, a))
      BY <1>1, <1>5, <2>2, <2>8, FirstRuleDecides
    <2>10. QED
      BY <2>4, <2>5, <2>7, <2>9
  <1>6. QED
    BY <1>3, <1>4, <1>5
LEMMA ReferenceUp ==
    ASSUME NEW v, IsGeneration(v.store), NEW i \in -1..(Deepest - 1),
           NEW k \in Kinds, NEW n \in NamesOf[k], Ref(v, i + 1)[k][n] # Failure
    PROVE  Ref(v, i)[k][n] = Ref(v, i + 1)[k][n]
  <1> DEFINE R(d) == Ref(v, d)
             Up(d) == \A x \in Kinds : Follows(R(d)[x], R(d + 1)[x], NamesOf[x])
             Bad == {m \in 0..Deepest : ~Up(Deepest - 1 - m)}
  <1>0. MaxDepth \in Nat /\ Deepest \in Nat /\ Deepest = MaxDepth + 4
    BY EvaluatorAssumption DEF Deepest
  <1>1. ASSUME NEW d \in -1..(Deepest - 1), \A j \in {2, 4} : d + j <= Deepest - 1 => Up(d + j)
        PROVE  Up(d)
    <2> SUFFICES ASSUME NEW x \in Kinds, NEW y \in NamesOf[x], R(d + 1)[x][y] # Failure
                 PROVE  R(d)[x][y] = R(d + 1)[x][y]
      BY DEF Follows
    <2> DEFINE e == d + 1
    <2>1. /\ d \in -1..Deepest /\ e \in -1..Deepest /\ d \in Int /\ e \in Int
          /\ e + 4 = d + 5 /\ e + 2 = d + 3
      BY <1>0
    <2>2. CASE v.store[x][y] = None
      <3> HIDE DEF e
      <3>1. R(d)[x][y] = NoResult /\ R(e)[x][y] = NoResult
        BY <2>1, <2>2, RefFacts
      <3>2. QED
        BY <3>1 DEF e
    <2>3. CASE v.store[x][y] # None
      <3> DEFINE spec == v.store[x][y]
                 a == Asked(v, d + 4)["gate"]
                 b == Asked(v, d + 5)["gate"]
                 da == Delegates(v, d + 2)
                 db == Delegates(v, d + 3)
                 list == v.idList
      <3>1. ~(e + 1 > MaxDepth)
        <4> HIDE DEF e
        <4>1. R(e)[x][y] # Failure
          BY DEF e
        <4>2. QED
          BY <2>1, <2>3, <4>1, RefFacts
      <3>2. ~(d + 1 > MaxDepth) /\ d + 4 <= Deepest - 1 /\ d + 2 <= Deepest - 1
        BY <1>0, <2>1, <3>1
      <3>3. R(d)[x][y] = SpecReference(x, spec, a, da, list)
        BY <2>1, <2>3, <3>2, RefFacts
      <3>4. R(e)[x][y] = SpecReference(x, spec, b, db, list)
        <4> HIDE DEF e
        <4>1. R(e)[x][y] = SpecReference(x, spec, Asked(v, e + 4)["gate"], Delegates(v, e + 2), list)
          BY <2>1, <2>3, <3>1, RefFacts
        <4>2. QED
          BY <2>1, <4>1
      <3>5. Up(d + 4) /\ Up(d + 2) /\ (d + 4) + 1 = d + 5 /\ (d + 2) + 1 = d + 3
        BY <1>1, <2>1, <3>2
      <3>6. "gate" \in Kinds /\ "config" \in Kinds /\ NamesOf["gate"] = Gates /\ NamesOf["config"] = Configs
        BY DEF Kinds, NamesOf
      <3>7. Follows(a, b, Gates)
        <4> SUFFICES ASSUME NEW g \in Gates, b[g] # Failure PROVE a[g] = b[g]
          BY DEF Follows
        <4> DEFINE o == v.overrides["gate"][g]
        <4>1. /\ a[g] = IF o # None THEN OverrideResult("gate", o) ELSE R(d + 4)["gate"][g]
              /\ b[g] = IF o # None THEN OverrideResult("gate", o) ELSE R(d + 5)["gate"][g]
          BY <3>6, AskedFacts
        <4>2. R(d + 5)["gate"][g] # Failure => R(d + 4)["gate"][g] = R(d + 5)["gate"][g]
          BY <3>5, <3>6 DEF Follows
        <4> HIDE DEF o, R
        <4>3. QED
          BY <4>1, <4>2
      <3>8. DOMAIN da = DOMAIN db /\ Follows(da, db, DOMAIN db)
        <4>1. DOMAIN da = DOMAIN db /\ DOMAIN db \subseteq Configs
          BY DEF Delegates
        <4>2. \A m \in DOMAIN db : da[m] = R(d + 2)["config"][m] /\ db[m] = R(d + 3)["config"][m]
          BY DEF Delegates
        <4>3. Follows(R(d + 2)["config"], R(d + 3)["config"], Configs)
          BY <3>5, <3>6
        <4> HIDE DEF da, db, R
        <4>4. QED
          BY <4>1, <4>2, <4>3 DEF Follows
      <3>9. spec \in Specs
        BY <2>3 DEF IsGeneration
      <3> HIDE DEF spec, a, b, da, db, list, R
      <3>10. SpecReference(x, spec, b, db, list) # Failure
        BY <3>4
      <3>11. QED
        BY <3>3, <3>4, <3>7, <3>8, <3>9, <3>10, SpecUp
    <2>4. QED
      BY <2>2, <2>3
  <1> HIDE DEF Up
  <1>2. Bad = {}
    <2> SUFFICES ASSUME Bad # {} PROVE FALSE
      OBVIOUS
    <2>1. PICK m \in Bad : \A j \in Bad : m <= j
      <3>1. Bad \subseteq Nat
        BY <1>0
      <3> HIDE DEF Bad
      <3>2. QED
        BY <3>1, Least
    <2> DEFINE d == Deepest - 1 - m
    <2>2. d \in -1..(Deepest - 1) /\ m \in Nat /\ m <= Deepest
      BY <1>0
    <2>3. ASSUME NEW j \in {2, 4}, d + j <= Deepest - 1 PROVE Up(d + j)
      <3>1. m - j \in 0..Deepest /\ Deepest - 1 - (m - j) = d + j /\ ~(m <= m - j)
        BY <1>0, <2>2, <2>3
      <3>2. m - j \notin Bad
        BY <2>1, <3>1
      <3>3. QED
        BY <3>1, <3>2
    <2>4. Up(d)
      <3> HIDE DEF d
      <3>1. QED
        BY <1>1, <2>2, <2>3
    <2>5. QED
      BY <2>4
  <1>3. Deepest - 1 - i \in 0..Deepest /\ Deepest - 1 - (Deepest - 1 - i) = i
    BY <1>0
  <1>4. Up(i)
    BY <1>2, <1>3
  <1>5. QED
    BY <1>4 DEF Up, Follows

\* A result with a delegate was delegated, to a config there is.
LEMMA DelegateKnown ==
    ASSUME NEW v, IsGeneration(v.store), NEW d \in -1..Deepest, NEW k \in Kinds, NEW n \in NamesOf[k],
           NEW res \in Results, Ref(v, d)[k][n] = res, res.delegate # None
    PROVE  res.delegate \in Configs /\ v.store["config"][res.delegate] # None
  <1> DEFINE spec == v.store[k][n]
             gates == Asked(v, d + 4)["gate"]
             delegates == Delegates(v, d + 2)
             list == v.idList
  <1>1. NoResult.delegate = None /\ NoResult # res
    BY DEF NoResult
  <1>2. /\ spec # None /\ res = SpecReference(k, spec, gates, delegates, list)
    <2>1. res # Failure
      BY NoFailure
    <2>2. QED
      BY <1>1, <2>1, RefFacts
  <1>3. spec \in Specs /\ spec.rules \in Seq(Rules)
    BY <1>2 DEF IsGeneration, Specs
  <1>4. ASSUME NEW kind, NEW pass, NEW id, NEW value, NEW x,
               res = OwnResult(kind, pass, id, value, x)
        PROVE  FALSE
    <2> DEFINE w == IF kind = "gate" THEN None ELSE value
               u == IF kind = "gate" THEN <<>> ELSE x
               o == [[[[[NoResult EXCEPT !.pass = pass] EXCEPT !.id = id] EXCEPT !.exposures = x]
                         EXCEPT !.value = w] EXCEPT !.undelegated = u]
    <2>1. res = o
      BY <1>4 DEF OwnResult
    <2> HIDE DEF w, u
    <2>2. o.delegate = None
      BY DEF NoResult
    <2>3. QED
      BY <2>1, <2>2
  <1> HIDE DEF gates, delegates, list, spec
  <1>5. PICK r, x : res = RuleReference(k, spec, r, gates, delegates, list, x)
    BY <1>2, <1>4 DEF SpecReference
  <1> DEFINE m == r.configDelegate
             q == delegates[m]
  <1>6. m \in DOMAIN delegates /\ res = DelegatedResult(q, m, x)
    <2>1. res # Failure
      BY NoFailure
    <2> DEFINE y == RuleExposures(r, gates)
               z == [[NoResult EXCEPT !.fetch = TRUE] EXCEPT !.exposures = y]
               pp == r.percent
               ii == r.id
               vv == IF r.percent THEN ReturnValue(r) ELSE DefaultValue(spec)
    <2>2. res = z \/ (m \in DOMAIN delegates /\ res = DelegatedResult(q, m, x))
            \/ res = OwnResult(k, pp, ii, vv, x)
      BY <1>5, <2>1 DEF RuleReference
    <2> HIDE DEF y
    <2>3. z.delegate = None
      BY DEF NoResult
    <2> HIDE DEF z, pp, ii, vv
    <2>4. QED
      BY <1>4, <2>2, <2>3
  <1>7. res.delegate = m
    <2>1. DOMAIN res = {"pass", "id", "fetch", "value", "exposures", "undelegated", "delegate"}
      BY DEF Results
    <2> HIDE DEF q, m
    <2> DEFINE y == x \o q.exposures
               z == [[[q EXCEPT !.delegate = m] EXCEPT !.exposures = y] EXCEPT !.undelegated = x]
    <2>2. res = z
      <3>1. res # Failure
        BY NoFailure
      <3>2. QED
        BY <1>6, <3>1 DEF DelegatedResult
    <2> HIDE DEF y
    <2>3. DOMAIN z = DOMAIN q
      OBVIOUS
    <2>4. "delegate" \in DOMAIN q
      BY <2>1, <2>2, <2>3
    <2>5. z.delegate = m
      BY <2>4
    <2>6. QED
      BY <2>2, <2>5
  <1>8. QED
    BY <1>6, <1>7 DEF delegates, Delegates
=============================================================================
