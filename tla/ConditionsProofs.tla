-------------------------- MODULE ConditionsProofs --------------------------
(***************************************************************************)
(* Proofs about the comparison of values, for every table of strings and   *)
(* all users and conditions over it.                                       *)
(***************************************************************************)
EXTENDS Conditions, WellFoundedInduction, TLAPS

-----------------------------------------------------------------------------
(***************************************************************************)
(* The value of a condition.                                               *)
(***************************************************************************)
\* Induction below is by the least counterexample.
LEMMA Least ==
    ASSUME NEW T, T \subseteq Nat, T # {}
    PROVE  \E x \in T : \A y \in T : x <= y
  <1>1. IsWellFoundedOn(OpToRel(<, Nat), Nat)
    BY NatLessThanWellFounded, Zenon
  <1>2. PICK x \in T : \A y \in T : ~ (<<y, x>> \in OpToRel(<, Nat))
    BY <1>1, WFMin, Zenon
  <1>3. \A y \in T : ~ (y < x)
    BY <1>2, Zenon DEF OpToRel
  <1>4. QED
    BY <1>3

LEMMA FirstPresentFacts ==
    ASSUME NEW S, NEW vs \in Seq(S), NEW otherwise
    PROVE  LET p == FirstPresent(vs, otherwise) IN
           /\ p = otherwise \/ (p \in S /\ p # None)
           /\ (\A i \in DOMAIN vs : vs[i] = None) => p = otherwise
  <1> DEFINE present == {i \in DOMAIN vs : vs[i] # None}
             First(i) == i \in present /\ \A j \in present : i <= j
             k == CHOOSE i : First(i)
             p == FirstPresent(vs, otherwise)
  <1>1. CASE present = {}
    <2>1. p = otherwise
      BY <1>1 DEF FirstPresent
    <2>2. QED
      BY <2>1
  <1>2. CASE present # {}
    <2>1. present \subseteq Nat
      OBVIOUS
    <2>2. \E i : First(i)
      <3>1. \E i \in present : \A j \in present : i <= j
        <4> HIDE DEF present
        <4>1. QED
          BY <1>2, <2>1, Least
      <3>2. QED
        BY <3>1
    <2>3. First(k)
      <3> HIDE DEF First
      <3>1. QED
        BY <2>2
    <2>4. p = vs[k]
      <3>1. k = CHOOSE i \in present : \A j \in present : i <= j
        OBVIOUS
      <3>2. QED
        BY <1>2, <3>1 DEF FirstPresent
    <2> HIDE DEF k
    <2>5. k \in DOMAIN vs /\ vs[k] # None /\ vs[k] \in S
      BY <2>3
    <2>6. QED
      BY <2>4, <2>5
  <1>3. QED
    BY <1>1, <1>2

LEMMA PlainValues == IsValue(Nil) /\ \A s \in Strings : IsValue(Str(s))
  BY DEF IsValue, Nil, Str

LEMMA NumbersAreValues == \A n \in Int : IsValue(Num("int64", n))
  BY DEF IsValue, Num

LEMMA Assumed ==
    /\ Blank \in Strings /\ "ip" \in Fields /\ "useragent" \in Fields
    /\ \A f \in Fields : Lower[f] \in Fields
  BY ConditionsAssumption

LEMMA UserFacts ==
    ASSUME NEW u, IsUser(u), NEW f \in Fields
    PROVE  /\ TopField[f] # None => u.top[TopField[f]] \in Strings
           /\ u.top["userid"] \in Strings
           /\ u.custom[f] # None => IsValue(u.custom[f])
           /\ u.private[f] # None => IsValue(u.private[f])
           /\ u.env[f] # None => u.env[f] \in Strings
           /\ u.customIDs[f] # None => u.customIDs[f] \in Strings
           /\ u.bucket # None => u.bucket \in Int
  BY DEF IsUser, TopFields

LEMMA FromUser ==
    ASSUME NEW u, IsUser(u), NEW f \in Fields
    PROVE  IsValue(getFromUser(u, f))
  <1> DEFINE name == TopField[f]
             top == IF name = None THEN Nil
                    ELSE IF name = "useragent" /\ u.top[name] = Blank THEN Nil
                    ELSE Str(u.top[name])
             a == u.custom[f]
             b == u.custom[Lower[f]]
             c == u.private[f]
             d == u.private[Lower[f]]
             p == FirstPresent(<<a, b, c, d>>, top)
  <1>1. IsValue(top)
    BY PlainValues, UserFacts
  <1>2. \A x \in {a, b, c, d} : x # None => IsValue(x)
    BY Assumed, UserFacts
  <1>3. getFromUser(u, f) = top \/ getFromUser(u, f) = p
    BY DEF getFromUser
  <1> HIDE DEF a, b, c, d, top
  <1>4. p = top \/ (p \in {a, b, c, d} /\ p # None)
    <2>1. <<a, b, c, d>> \in Seq({a, b, c, d})
      OBVIOUS
    <2>2. QED
      BY <2>1, FirstPresentFacts
  <1> HIDE DEF p
  <1>5. QED
    BY <1>1, <1>2, <1>3, <1>4

LEMMA Normalized ==
    ASSUME NEW u, IsUser(u)
    PROVE  LET d == normalizeUser(u, Params, Tier) IN
           IsUser(d) /\ d.top = u.top /\ d.custom = u.custom /\ d.private = u.private
  <1> DEFINE Env(f) == FirstPresent(<<u.env[f], IF f = "tier" THEN Tier ELSE None, Params[f]>>, None)
             env == [f \in Fields |-> Env(f)]
             d == normalizeUser(u, Params, Tier)
  <1>1. \A f \in Fields : Env(f) # None => Env(f) \in Strings
    <2> TAKE f \in Fields
    <2> DEFINE a == u.env[f]
               b == IF f = "tier" THEN Tier ELSE None
               c == Params[f]
               none == None
               p == FirstPresent(<<a, b, c>>, none)
    <2>1. \A x \in {a, b, c} : x # None => x \in Strings
      BY UserFacts, ConditionsAssumption
    <2> HIDE DEF a, b, c, none
    <2>2. <<a, b, c>> \in Seq({a, b, c})
      OBVIOUS
    <2>3. p = none \/ (p \in {a, b, c} /\ p # None)
      BY <2>2, FirstPresentFacts
    <2> HIDE DEF p
    <2>4. p # None => p \in Strings
      BY <2>1, <2>3 DEF none
    <2>5. QED
      BY <2>4 DEF a, b, c, none, p
  <1>2. d = [u EXCEPT !.env = env]
    BY DEF normalizeUser
  <1> HIDE DEF d, Env
  <1>3. \A f \in Fields : env[f] # None => env[f] \in Strings
    BY <1>1
  <1> HIDE DEF env
  <1>4. /\ d.top = u.top /\ d.custom = u.custom /\ d.private = u.private /\ d.env = env
        /\ d.customIDs = u.customIDs /\ d.bucket = u.bucket /\ DOMAIN d = DOMAIN u
        /\ d = [x \in DOMAIN d |-> d[x]]
    BY <1>2 DEF IsUser
  <1>5. IsUser(d)
    BY <1>3, <1>4 DEF IsUser
  <1>6. QED
    BY <1>4, <1>5 DEF d

LEMMA FromOthers ==
    ASSUME NEW u, IsUser(u), NEW f \in Fields
    PROVE  /\ IsValue(getFromEnvironment(u, f)) /\ IsValue(getFromIP(u, f))
           /\ IsValue(getFromUserAgent(u, f)) /\ IsValue(getUnitID(u, f))
  <1>1. ASSUME NEW a, NEW b, \A x \in {a, b} : x # None => x \in Strings
        PROVE  IsValue(Str(FirstPresent(<<a, b>>, Blank)))
    <2>1. <<a, b>> \in Seq({a, b})
      OBVIOUS
    <2> DEFINE p == FirstPresent(<<a, b>>, Blank)
    <2>2. p = Blank \/ (p \in {a, b} /\ p # None)
      BY <2>1, FirstPresentFacts
    <2> HIDE DEF p
    <2>3. p \in Strings
      BY <1>1, <2>2, Assumed
    <2>4. QED
      BY <2>3, PlainValues DEF p
  <1>2. IsValue(getFromEnvironment(u, f))
    <2> DEFINE a == u.env[Lower[f]]
               b == u.env[f]
    <2>1. \A x \in {a, b} : x # None => x \in Strings
      BY Assumed, UserFacts
    <2>2. getFromEnvironment(u, f) = Str(FirstPresent(<<a, b>>, Blank))
      BY DEF getFromEnvironment
    <2> HIDE DEF a, b
    <2>3. QED
      BY <1>1, <2>1, <2>2
  <1>3. IsValue(getFromIP(u, f))
    <2> DEFINE ip == getFromUser(u, "ip")
    <2>1. IsValue(ip)
      BY Assumed, FromUser
    <2>2. ip.type = "string" /\ Country[ip.s] # None => Country[ip.s] \in Strings
      BY <2>1, ConditionsAssumption DEF IsValue
    <2>3. getFromIP(u, f) = IF Lower[f] = "country" /\ ip.type = "string" /\ Country[ip.s] # None
                            THEN Str(Country[ip.s]) ELSE Str(Blank)
      BY DEF getFromIP
    <2> HIDE DEF ip
    <2>4. QED
      BY <2>2, <2>3, Assumed, PlainValues
  <1>4. IsValue(getFromUserAgent(u, f))
    <2> DEFINE ua == getFromUser(u, "useragent")
    <2>1. IsValue(ua)
      BY Assumed, FromUser
    <2>2. ua.type = "string" => Browser[ua.s] \in Strings
      BY <2>1, ConditionsAssumption DEF IsValue
    <2>3. getFromUserAgent(u, f) = IF ua.type = "string" /\ Lower[f] = "browser_name"
                                   THEN Str(Browser[ua.s]) ELSE Str(Blank)
      BY DEF getFromUserAgent
    <2> HIDE DEF ua
    <2>4. QED
      BY <2>2, <2>3, Assumed, PlainValues
  <1>5. IsValue(getUnitID(u, f))
    <2> DEFINE a == u.customIDs[f]
               b == u.customIDs[Lower[f]]
    <2>1. \A x \in {a, b} : x # None => x \in Strings
      BY Assumed, UserFacts
    <2>2. \/ getUnitID(u, f) = Str(u.top["userid"])
          \/ getUnitID(u, f) = Str(FirstPresent(<<a, b>>, Blank))
      BY DEF getUnitID
    <2> HIDE DEF a, b
    <2>3. IsValue(Str(u.top["userid"]))
      BY UserFacts, PlainValues
    <2>4. QED
      BY <1>1, <2>1, <2>2, <2>3
  <1>6. QED
    BY <1>2, <1>3, <1>4, <1>5

LEMMA ValuesOf ==
    ASSUME NEW u, IsUser(u), NEW c \in [type : ValueTypes, field : Fields, target : Targets]
    PROVE  IsValue(ValueOf(u, c))
  <1>1. c.field \in Fields /\ c.type \in ValueTypes
    OBVIOUS
  <1>2. IsValue(getFromUser(u, c.field))
    BY <1>1, FromUser
  <1>3. /\ IsValue(getFromEnvironment(u, c.field)) /\ IsValue(getFromIP(u, c.field))
        /\ IsValue(getFromUserAgent(u, c.field)) /\ IsValue(getUnitID(u, c.field))
    BY <1>1, FromOthers
  <1>4. IsValue(Num("int64", Now)) /\ (u.bucket # None => IsValue(Num("int64", u.bucket)))
    BY <1>1, UserFacts, NumbersAreValues, ConditionsAssumption
  <1>5. QED
    BY <1>1, <1>2, <1>3, <1>4, PlainValues DEF ValueOf, ValueTypes

-----------------------------------------------------------------------------
(***************************************************************************)
(* The invariant: what is evaluated are values, and passes holds what the  *)
(* operators say of them.                                                  *)
(***************************************************************************)
Verdicts == passes = [op \in Operators |-> Compare(op, Value, cond.target)]

IInv ==
    /\ user \in Users
    /\ cond \in [type : ValueTypes, field : Fields, target : Targets]
    /\ passes = None \/ Verdicts

LEMMA InvCorrect == Spec => []IInv
  <1>1. Init => IInv
    BY DEF Init, IInv
  <1>2. IInv /\ [Next]_vars => IInv'
    <2> SUFFICES ASSUME IInv, [Next]_vars PROVE IInv'
      OBVIOUS
    <2>1. CASE evalCondition
      BY <2>1 DEF evalCondition, IInv, Verdicts, Value
    <2>2. CASE UNCHANGED vars
      BY <2>2 DEF vars, IInv, Verdicts, Value
    <2>3. QED
      BY <2>1, <2>2 DEF Next
  <1>3. QED
    BY <1>1, <1>2, PTL DEF Spec

LEMMA EvaluatedFacts ==
    ASSUME IInv
    PROVE  /\ IsUser(user) /\ IsValue(Value) /\ IsValue(cond.target)
           /\ cond.field \in Fields
           /\ Evaluated => \A op \in Operators : passes[op] = Compare(op, Value, cond.target)
  <1>1. IsUser(user) /\ cond.field \in Fields /\ IsValue(cond.target)
    BY ConditionsAssumption DEF IInv
  <1>2. IsUser(normalizeUser(user, Params, Tier))
    BY <1>1, Normalized
  <1>3. IsValue(Value)
    BY <1>2, ValuesOf DEF IInv, Value
  <1>4. Evaluated => \A op \in Operators : passes[op] = Compare(op, Value, cond.target)
    BY DEF Evaluated, IInv, Verdicts
  <1>5. QED
    BY <1>1, <1>3, <1>4

(***************************************************************************)
(* An attribute that is nowhere in the user equals nil, for every field,   *)
(* whether it has a top-level field or not.                                *)
(***************************************************************************)
THEOREM MissingCorrect == Spec => []MissingEqualsNil
  <1>1. IInv => MissingEqualsNil
    <2> SUFFICES ASSUME IInv, Evaluated, cond.type = "user_field", cond.target = Nil,
                        TopField[cond.field] # None => user.top[TopField[cond.field]] = Blank,
                        \A g \in {cond.field, Lower[cond.field]} :
                            user.custom[g] = None /\ user.private[g] = None
                 PROVE  passes["eq"] /\ ~passes["neq"]
      BY DEF MissingEqualsNil
    <2> DEFINE u == normalizeUser(user, Params, Tier)
               f == cond.field
               top == IF TopField[f] = None THEN Nil
                      ELSE IF TopField[f] = "useragent" /\ u.top[TopField[f]] = Blank THEN Nil
                      ELSE Str(u.top[TopField[f]])
               none == None
    <2>1. u.top = user.top /\ u.custom = user.custom /\ u.private = user.private
      BY EvaluatedFacts, Normalized
    <2>2. IsEmpty(top)
      BY <2>1 DEF IsEmpty
    <2>3. getFromUser(u, f) = FirstPresent(<<none, none, none, none>>, top)
      BY <2>1, <2>2 DEF getFromUser
    <2> HIDE DEF top, u, none
    <2>4. FirstPresent(<<none, none, none, none>>, top) = top
      <3>1. <<none, none, none, none>> \in Seq({none})
        OBVIOUS
      <3>2. \A i \in DOMAIN <<none, none, none, none>> : <<none, none, none, none>>[i] = None
        BY DEF none
      <3>3. QED
        BY <3>1, <3>2, FirstPresentFacts
    <2>5. Value = getFromUser(u, f)
      BY DEF Value, ValueOf, u
    <2>6. IsEmpty(Value)
      BY <2>2, <2>3, <2>4, <2>5
    <2>7. /\ passes["eq"] = Compare("eq", Value, cond.target)
          /\ passes["neq"] = Compare("neq", Value, cond.target)
      BY EvaluatedFacts DEF Operators
    <2>8. Compare("eq", Value, cond.target) = Equal(Value, cond.target)
      BY DEF Compare
    <2>9. Compare("neq", Value, cond.target) = ~Equal(Value, cond.target)
      BY DEF Compare
    <2>10. Equal(Value, cond.target)
      BY <2>6 DEF Equal
    <2>11. QED
      BY <2>7, <2>8, <2>9, <2>10
  <1>2. QED
    BY <1>1, InvCorrect, PTL

-----------------------------------------------------------------------------
LEMMA SameMoment ==
    ASSUME NEW a \in Int, NEW b \in Int, a = 1000 * b, b <= FarFuture, a > FarFuture
    PROVE  Unix(a) = Unix(b) /\ Unix(a).at \in Int
  <1>1. FarFuture \in Int
    BY ConditionsAssumption
  <1>2. a \div 1000 = b
    OBVIOUS
  <1>3. QED
    BY <1>1, <1>2 DEF Unix

(***************************************************************************)
(* The guess that a number past the far future is in milliseconds makes    *)
(* the two notations of a moment agree, in every time zone.                *)
(***************************************************************************)
THEOREM UnitsCorrect == Spec => []TimeUnitsAgree
  <1>1. IInv => TimeUnitsAgree
    <2> DEFINE v == Value
               w == cond.target
               Milli(a, b) == a.n = 1000 * b.n /\ b.n <= FarFuture /\ a.n > FarFuture
    <2> SUFFICES ASSUME IInv, Evaluated, v.type \in {"int64", "float64"},
                        w.type \in {"int64", "float64"}, Milli(v, w) \/ Milli(w, v)
                 PROVE  ~passes["before"] /\ ~passes["after"] /\ passes["on"]
      BY DEF TimeUnitsAgree
    <2>1. v.n \in Int /\ w.n \in Int
      BY EvaluatedFacts DEF IsValue
    <2>2. getTime(v) = Unix(v.n) /\ getTime(w) = Unix(w.n)
      BY DEF getTime
    <2>3. Unix(v.n) = Unix(w.n) /\ Unix(v.n).at \in Int
      BY <2>1, SameMoment
    <2>4. /\ passes["before"] = Compare("before", v, w) /\ passes["after"] = Compare("after", v, w)
          /\ passes["on"] = Compare("on", v, w)
      BY EvaluatedFacts DEF Operators
    <2> HIDE DEF v, w
    <2>5. Compare("before", v, w) = (getTime(v).at < getTime(w).at)
      BY DEF Compare
    <2>6. Compare("after", v, w) = (getTime(v).at > getTime(w).at)
      BY DEF Compare
    <2>7. Compare("on", v, w) = (Date(getTime(v)) = Date(getTime(w)))
      BY DEF Compare
    <2>8. ~(getTime(v).at < getTime(w).at) /\ ~(getTime(v).at > getTime(w).at)
      BY <2>2, <2>3
    <2>9. Date(getTime(v)) = Date(getTime(w))
      BY <2>2, <2>3
    <2>10. QED
      BY <2>4, <2>5, <2>6, <2>7, <2>8, <2>9, ZenonT(30)
  <1>2. QED
    BY <1>1, InvCorrect, PTL

-----------------------------------------------------------------------------
(***************************************************************************)
(* The order of versions.  The loop of compareVersionsHelper is a function *)
(* At with At = [i \in 1..(n + 1) |-> Loop(v, w, n, At, i)].  That there   *)
(* is one is shown by giving it (Found), and what it says at an index by   *)
(* going down from the end.                                                *)
(***************************************************************************)
Versions == Seq(Int \cup {None})

Longest(v, w) == IF Len(v) > Len(w) THEN Len(v) ELSE Len(w)

Loop(v, w, n, f, i) ==
    IF i > n THEN 0
    ELSE IF Part(v, i) # Part(w, i) THEN Sign(Part(v, i), Part(w, i))
    ELSE f[i + 1]

IsLoop(v, w, n, f) == f = [i \in 1..(n + 1) |-> Loop(v, w, n, f, i)]

Differ(v, w, n, i) == {j \in i..n : Part(v, j) # Part(w, j)}

FirstOf(S) == CHOOSE k : k \in S /\ \A j \in S : k <= j

Found(v, w, n, i) ==
    IF Differ(v, w, n, i) = {} THEN 0
    ELSE LET k == FirstOf(Differ(v, w, n, i)) IN Sign(Part(v, k), Part(w, k))

LEMMA PartFacts == \A v \in Versions : \A i \in Nat \ {0} : Part(v, i) \in Int
  BY DEF Versions, Part, ParseInt

LEMMA LongestFacts ==
    ASSUME NEW v \in Versions, NEW w \in Versions
    PROVE  Longest(v, w) \in Nat /\ Longest(v, w) >= Len(v) /\ Longest(v, w) >= Len(w)
  BY DEF Versions, Longest

LEMMA FirstOfFacts ==
    ASSUME NEW S, S \subseteq Nat, S # {}
    PROVE  FirstOf(S) \in S /\ \A j \in S : FirstOf(S) <= j
  <1> DEFINE First(k) == k \in S /\ \A j \in S : k <= j
  <1>1. \E k : First(k)
    BY Least
  <1>2. FirstOf(S) = CHOOSE k : First(k)
    BY DEF FirstOf
  <1> HIDE DEF First
  <1>3. First(FirstOf(S))
    BY <1>1, <1>2
  <1>4. QED
    BY <1>3 DEF First

LEMMA FoundIsLoop ==
    ASSUME NEW v \in Versions, NEW w \in Versions, NEW n \in Nat
    PROVE  IsLoop(v, w, n, [i \in 1..(n + 1) |-> Found(v, w, n, i)])
  <1> DEFINE f == [i \in 1..(n + 1) |-> Found(v, w, n, i)]
             D(i) == Differ(v, w, n, i)
  <1>1. ASSUME NEW i \in 1..(n + 1) PROVE Found(v, w, n, i) = Loop(v, w, n, f, i)
    <2>1. D(i) \subseteq Nat /\ \A j \in D(i) : j >= i
      BY DEF Differ
    <2>2. CASE i > n
      <3>1. D(i) = {}
        BY <2>2 DEF Differ
      <3>2. QED
        BY <2>2, <3>1 DEF Found, Loop
    <2>3. CASE ~(i > n) /\ Part(v, i) # Part(w, i)
      <3>1. i \in D(i)
        BY <2>3 DEF Differ
      <3>2. FirstOf(D(i)) \in D(i) /\ FirstOf(D(i)) <= i
        BY <2>1, <3>1, FirstOfFacts
      <3>3. FirstOf(D(i)) = i
        BY <2>1, <3>2
      <3>4. D(i) # {}
        BY <3>1
      <3> HIDE DEF D
      <3>5. Found(v, w, n, i) = Sign(Part(v, i), Part(w, i))
        BY <3>3, <3>4 DEF Found, D
      <3>6. QED
        BY <2>3, <3>5 DEF Loop
    <2>4. CASE ~(i > n) /\ Part(v, i) = Part(w, i)
      <3>1. i + 1 \in 1..(n + 1) /\ i..n = {i} \cup (i + 1)..n
        BY <2>4
      <3>2. D(i) = D(i + 1)
        BY <2>4, <3>1 DEF Differ
      <3>3. Found(v, w, n, i) = Found(v, w, n, i + 1)
        BY <3>2 DEF Found
      <3>4. f[i + 1] = Found(v, w, n, i + 1)
        BY <3>1
      <3> HIDE DEF f
      <3>5. QED
        BY <2>4, <3>3, <3>4 DEF Loop
    <2>5. QED
      BY <2>2, <2>3, <2>4
  <1>2. f = [i \in 1..(n + 1) |-> Loop(v, w, n, f, i)]
    BY <1>1
  <1> HIDE DEF f
  <1>3. IsLoop(v, w, n, f)
    BY <1>2 DEF IsLoop
  <1>4. QED
    BY <1>3 DEF f

LEMMA HelperIsLoop ==
    ASSUME NEW v \in Versions, NEW w \in Versions
    PROVE  \E f : IsLoop(v, w, Longest(v, w), f) /\ compareVersionsHelper(v, w) = f[1]
  <1> DEFINE n == Longest(v, w)
             At == CHOOSE f : IsLoop(v, w, n, f)
  <1>1. n \in Nat
    BY LongestFacts
  <1>2. compareVersionsHelper(v, w)
          = (CHOOSE at : at = [i \in 1..(n + 1) |->
                IF i > n THEN 0
                ELSE IF Part(v, i) # Part(w, i) THEN Sign(Part(v, i), Part(w, i))
                ELSE at[i + 1]])[1]
    BY DEF compareVersionsHelper, Longest
  <1>3. compareVersionsHelper(v, w) = At[1]
    BY <1>2 DEF IsLoop, Loop
  <1> HIDE DEF n
  <1>4. \E f : IsLoop(v, w, n, f)
    BY <1>1, FoundIsLoop
  <1>5. IsLoop(v, w, n, At)
    BY <1>4
  <1> HIDE DEF At
  <1>6. QED
    BY <1>3, <1>5 DEF n

\* What the loop says at i: the sign at the first difference, or 0.
Says(v, w, n, f, i) ==
    /\ (\A j \in i..n : Part(v, j) = Part(w, j)) => f[i] = 0
    /\ \A k \in i..n :
        Part(v, k) # Part(w, k) /\ (\A j \in i..(k - 1) : Part(v, j) = Part(w, j))
          => f[i] = Sign(Part(v, k), Part(w, k))

LEMMA LoopSays ==
    ASSUME NEW v, NEW w, NEW n \in Nat, NEW f, IsLoop(v, w, n, f)
    PROVE  \A i \in 1..(n + 1) : Says(v, w, n, f, i)
  <1>1. \A i \in 1..(n + 1) : f[i] = Loop(v, w, n, f, i)
    <2> DEFINE L(i) == Loop(v, w, n, f, i)
    <2>1. f = [i \in 1..(n + 1) |-> L(i)]
      BY DEF IsLoop
    <2> HIDE DEF L
    <2>2. \A i \in 1..(n + 1) : f[i] = L(i)
      BY <2>1
    <2>3. QED
      BY <2>2 DEF L
  <1>2. Says(v, w, n, f, n + 1)
    BY <1>1 DEF Says, Loop
  <1>3. ASSUME NEW i \in 1..n, Says(v, w, n, f, i + 1) PROVE Says(v, w, n, f, i)
    <2>1. i \in 1..(n + 1) /\ i + 1 \in 1..(n + 1) /\ ~(i > n) /\ i \in i..n
      OBVIOUS
    <2>2. CASE Part(v, i) # Part(w, i)
      <3>1. f[i] = Sign(Part(v, i), Part(w, i))
        BY <1>1, <2>1, <2>2 DEF Loop
      <3>2. ASSUME NEW k \in i..n, \A j \in i..(k - 1) : Part(v, j) = Part(w, j) PROVE k = i
        BY <2>2, <3>2
      <3>3. QED
        BY <2>1, <2>2, <3>1, <3>2 DEF Says
    <2>3. CASE Part(v, i) = Part(w, i)
      <3>1. f[i] = f[i + 1]
        BY <1>1, <2>1, <2>3 DEF Loop
      <3>2. (\A j \in i..n : Part(v, j) = Part(w, j)) => f[i] = 0
        <4>1. \A j \in (i + 1)..n : j \in i..n
          OBVIOUS
        <4>2. QED
          BY <1>3, <3>1, <4>1 DEF Says
      <3>3. ASSUME NEW k \in i..n, Part(v, k) # Part(w, k),
                   \A j \in i..(k - 1) : Part(v, j) = Part(w, j)
            PROVE  f[i] = Sign(Part(v, k), Part(w, k))
        <4>1. k # i
          BY <2>3, <3>3
        <4>2. k \in (i + 1)..n /\ \A j \in (i + 1)..(k - 1) : j \in i..(k - 1)
          BY <4>1
        <4>3. QED
          BY <1>3, <3>1, <3>3, <4>2 DEF Says
      <3>4. QED
        BY <3>2, <3>3 DEF Says
    <2>4. QED
      BY <2>2, <2>3
  <1> DEFINE Wrong == {m \in 0..n : ~Says(v, w, n, f, n + 1 - m)}
  <1>4. Wrong = {}
    <2> SUFFICES ASSUME Wrong # {} PROVE FALSE
      OBVIOUS
    <2>1. Wrong \subseteq Nat
      OBVIOUS
    <2>2. PICK m \in Wrong : \A l \in Wrong : m <= l
      <3> HIDE DEF Wrong
      <3>1. QED
        BY <2>1, Least
    <2>3. m \in 0..n /\ ~Says(v, w, n, f, n + 1 - m)
      OBVIOUS
    <2>4. m # 0
      <3> SUFFICES ASSUME m = 0 PROVE FALSE
        OBVIOUS
      <3>1. n + 1 - m = n + 1
        OBVIOUS
      <3>2. QED
        BY <1>2, <2>3, <3>1
    <2>5. m - 1 \in 0..n /\ m - 1 \notin Wrong
      BY <2>2, <2>3, <2>4
    <2> DEFINE i == n + 1 - m
    <2>6. i \in 1..n /\ n + 1 - (m - 1) = i + 1
      BY <2>3, <2>4
    <2>7. Says(v, w, n, f, i + 1)
      BY <2>5, <2>6
    <2> HIDE DEF i
    <2>8. Says(v, w, n, f, i)
      BY <1>3, <2>6, <2>7
    <2>9. QED
      BY <2>3, <2>8 DEF i
  <1>5. ASSUME NEW i \in 1..(n + 1) PROVE Says(v, w, n, f, i)
    <2>1. n + 1 - i \in 0..n /\ n + 1 - (n + 1 - i) = i
      OBVIOUS
    <2>2. Says(v, w, n, f, n + 1 - (n + 1 - i))
      BY <1>4, <2>1
    <2>3. QED
      BY <2>1, <2>2
  <1>6. QED
    BY <1>5

\* v's first difference from w is downward.
Below(v, w, n) ==
    \E i \in 1..n : Part(v, i) < Part(w, i) /\ \A j \in 1..(i - 1) : Part(v, j) = Part(w, j)

LEMMA HelperFacts ==
    ASSUME NEW v \in Versions, NEW w \in Versions
    PROVE  LET n == Longest(v, w)
               h == compareVersionsHelper(v, w)
           IN  /\ h \in {-1, 0, 1}
               /\ h = -1 <=> Below(v, w, n)
               /\ h = 1 <=> Below(w, v, n)
  <1> DEFINE n == Longest(v, w)
             h == compareVersionsHelper(v, w)
             D == Differ(v, w, n, 1)
  <1>1. n \in Nat
    BY LongestFacts
  <1> HIDE DEF n
  <1>2. PICK f : IsLoop(v, w, n, f) /\ h = f[1]
    BY HelperIsLoop DEF n
  <1>3. Says(v, w, n, f, 1)
    BY <1>1, <1>2, LoopSays
  <1>4. \A i \in 1..n : Part(v, i) \in Int /\ Part(w, i) \in Int
    BY <1>1, PartFacts
  <1> HIDE DEF h
  <1>5. CASE D = {}
    <2>1. \A j \in 1..n : Part(v, j) = Part(w, j)
      BY <1>5 DEF Differ
    <2>2. h = 0
      BY <1>2, <1>3, <2>1 DEF Says
    <2>3. ~Below(v, w, n) /\ ~Below(w, v, n)
      BY <1>4, <2>1 DEF Below
    <2>4. QED
      BY <2>2, <2>3 DEF n, h
  <1>6. CASE D # {}
    <2>1. D \subseteq Nat
      BY <1>1 DEF Differ
    <2>2. PICK k \in D : \A j \in D : k <= j
      <3> HIDE DEF D
      <3>1. QED
        BY <1>6, <2>1, Least
    <2>3. k \in 1..n /\ Part(v, k) # Part(w, k)
      BY DEF Differ
    <2>4. \A j \in 1..(k - 1) : Part(v, j) = Part(w, j)
      <3> TAKE j \in 1..(k - 1)
      <3>1. j \in 1..n /\ ~(k <= j)
        BY <1>1, <2>3
      <3>2. j \notin D
        BY <2>2, <3>1
      <3>3. QED
        BY <3>1, <3>2 DEF Differ
    <2>5. h = Sign(Part(v, k), Part(w, k))
      BY <1>2, <1>3, <2>3, <2>4 DEF Says
    <2>6. ASSUME NEW i \in 1..n, Part(v, i) # Part(w, i),
                 \A j \in 1..(i - 1) : Part(v, j) = Part(w, j)
          PROVE  i = k
      BY <1>1, <2>3, <2>4, <2>6
    <2>7. Below(v, w, n) <=> Part(v, k) < Part(w, k)
      BY <1>4, <2>3, <2>4, <2>6 DEF Below
    <2>8. Below(w, v, n) <=> Part(w, k) < Part(v, k)
      BY <1>4, <2>3, <2>4, <2>6 DEF Below
    <2>9. h \in {-1, 0, 1} /\ (h = -1 <=> Part(v, k) < Part(w, k)) /\ (h = 1 <=> Part(w, k) < Part(v, k))
      BY <1>4, <2>3, <2>5 DEF Sign
    <2>10. QED
      BY <2>7, <2>8, <2>9 DEF n, h
  <1>7. QED
    BY <1>5, <1>6

\* The loop stops at the longer version, the reference pads further: beyond
\* the longer one both see zeros.
LEMMA LessIsBelow ==
    ASSUME NEW v \in Versions, NEW w \in Versions, NEW n \in Nat, n >= Len(v), n >= Len(w),
           n <= Len(v) + Len(w)
    PROVE  VersionLess(v, w) <=> Below(v, w, n)
  <1> DEFINE m == Len(v) + Len(w)
  <1>1. Len(v) \in Nat /\ Len(w) \in Nat /\ m \in Nat /\ DOMAIN v = 1..Len(v) /\ DOMAIN w = 1..Len(w)
    BY DEF Versions
  <1>2. \A i \in 1..m : Padded(v, m)[i] = Part(v, i) /\ Padded(w, m)[i] = Part(w, i)
    <2> TAKE i \in 1..m
    <2>1. i \in DOMAIN v <=> ~(i > Len(v))
      BY <1>1
    <2>2. i \in DOMAIN w <=> ~(i > Len(w))
      BY <1>1
    <2>3. QED
      BY <2>1, <2>2 DEF Padded, Part, ParseInt
  <1>3. \A i \in 1..m : i \notin 1..n => Part(v, i) = 0 /\ Part(w, i) = 0
    BY <1>1 DEF Part
  <1>4. \A i \in 1..n : i \in 1..m
    BY <1>1
  <1>5. VersionLess(v, w) <=>
          \E i \in 1..m : Part(v, i) < Part(w, i) /\ \A j \in 1..(i - 1) : Part(v, j) = Part(w, j)
    <2>1. \A i \in 1..m : \A j \in 1..(i - 1) : j \in 1..m
      BY <1>1
    <2>2. QED
      BY <1>2, <2>1 DEF VersionLess
  <1>6. QED
    BY <1>3, <1>4, <1>5 DEF Below

LEMMA HelperIsOrder ==
    ASSUME NEW v \in Versions, NEW w \in Versions
    PROVE  LET h == compareVersionsHelper(v, w) IN
           /\ h \in {-1, 0, 1}
           /\ h = -1 <=> VersionLess(v, w)
           /\ h = 1 <=> VersionLess(w, v)
  <1> DEFINE n == Longest(v, w)
  <1>1. n \in Nat /\ n >= Len(v) /\ n >= Len(w) /\ n <= Len(v) + Len(w) /\ n <= Len(w) + Len(v)
    BY DEF Longest, Versions
  <1> HIDE DEF n
  <1>2. VersionLess(v, w) <=> Below(v, w, n)
    BY <1>1, LessIsBelow
  <1>3. VersionLess(w, v) <=> Below(w, v, n)
    BY <1>1, LessIsBelow
  <1>4. QED
    BY <1>2, <1>3, HelperFacts DEF n

(***************************************************************************)
(* The six version operators are the reference order, for versions of any  *)
(* length and with parts that are no numbers.                              *)
(***************************************************************************)
THEOREM VersionsCorrect == Spec => []VersionOrder
  <1>1. IInv => VersionOrder
    <2> SUFFICES ASSUME IInv, Evaluated PROVE VersionOrder
      BY DEF VersionOrder
    <2> DEFINE v == Value
               w == cond.target
               comparable == /\ v.type = "string" /\ w.type = "string"
                             /\ Text[v.s].version # <<>> /\ Text[w.s].version # <<>>
               less == comparable /\ VersionLess(Text[v.s].version, Text[w.s].version)
               greater == comparable /\ VersionLess(Text[w.s].version, Text[v.s].version)
               h == compareVersionsHelper(Text[v.s].version, Text[w.s].version)
    <2>1. /\ passes["version_lt"] = Compare("version_lt", v, w)
          /\ passes["version_gt"] = Compare("version_gt", v, w)
          /\ passes["version_lte"] = Compare("version_lte", v, w)
          /\ passes["version_gte"] = Compare("version_gte", v, w)
          /\ passes["version_eq"] = Compare("version_eq", v, w)
          /\ passes["version_neq"] = Compare("version_neq", v, w)
      BY EvaluatedFacts DEF Operators
    <2>2. comparable => h \in {-1, 0, 1} /\ (h = -1 <=> less) /\ (h = 1 <=> greater)
      <3> SUFFICES ASSUME comparable
                   PROVE  h \in {-1, 0, 1} /\ (h = -1 <=> less) /\ (h = 1 <=> greater)
        OBVIOUS
      <3>1. v.s \in Strings /\ w.s \in Strings
        BY EvaluatedFacts DEF IsValue
      <3>2. Text[v.s] \in Texts /\ Text[w.s] \in Texts
        BY <3>1, ConditionsAssumption
      <3>3. Text[v.s].version \in Versions /\ Text[w.s].version \in Versions
        BY <3>2 DEF Texts, Versions
      <3>4. QED
        BY <3>3, HelperIsOrder
    <2> HIDE DEF v, w
    <2>3. \A signs : compareVersions(v, w, signs) = (comparable /\ h \in signs)
      BY DEF compareVersions
    <2>4. /\ Compare("version_lt", v, w) = compareVersions(v, w, {-1})
          /\ Compare("version_gt", v, w) = compareVersions(v, w, {1})
          /\ Compare("version_lte", v, w) = compareVersions(v, w, {-1, 0})
          /\ Compare("version_gte", v, w) = compareVersions(v, w, {0, 1})
          /\ Compare("version_eq", v, w) = compareVersions(v, w, {0})
          /\ Compare("version_neq", v, w) = compareVersions(v, w, {-1, 1})
      <3>1. Compare("version_lt", v, w) = compareVersions(v, w, {-1})
        BY DEF Compare
      <3>2. Compare("version_gt", v, w) = compareVersions(v, w, {1})
        BY DEF Compare
      <3>3. Compare("version_lte", v, w) = compareVersions(v, w, {-1, 0})
        BY DEF Compare
      <3>4. Compare("version_gte", v, w) = compareVersions(v, w, {0, 1})
        BY DEF Compare
      <3>5. Compare("version_eq", v, w) = compareVersions(v, w, {0})
        BY DEF Compare
      <3>6. Compare("version_neq", v, w) = compareVersions(v, w, {-1, 1})
        BY DEF Compare
      <3>7. QED
        BY <3>1, <3>2, <3>3, <3>4, <3>5, <3>6
    <2> HIDE DEF h
    <2>5. passes["version_lt"] = less /\ passes["version_gt"] = greater
      BY <2>1, <2>2, <2>3, <2>4
    <2>6. passes["version_neq"] = (less \/ greater)
      BY <2>1, <2>2, <2>3, <2>4
    <2>7. passes["version_eq"] = (comparable /\ ~less /\ ~greater)
      BY <2>1, <2>2, <2>3, <2>4
    <2>8. passes["version_lte"] = (comparable /\ ~greater)
      BY <2>1, <2>2, <2>3, <2>4
    <2>9. passes["version_gte"] = (comparable /\ ~less)
      BY <2>1, <2>2, <2>3, <2>4
    <2>10. QED
      BY <2>5, <2>6, <2>7, <2>8, <2>9 DEF VersionOrder, v, w
  <1>2. QED
    BY <1>1, InvCorrect, PTL
=============================================================================
